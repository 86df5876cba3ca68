----------------------- MODULE RulesAndConsoleProofs -----------------------
(***************************************************************************)
(* What the rule engine keeps for any lists, URLs, rules, groups and       *)
(* numbers of calls, downloads, failures and restarts: the indexes are     *)
(* what the configuration and the cache files say, the handlers' copy      *)
(* follows the engine, and no list blocks a query it was off for.          *)
(*                                                                         *)
(* And what the console shows of the queries, in the second half: for any  *)
(* numbers of records, hours, writers, calls and pages the query log is    *)
(* exact and the hub uses no closed channel.  The two halves share nothing *)
(* but this file.                                                          *)
(***************************************************************************)
EXTENDS RuleEngine, Console, FiniteSetTheorems, SequenceTheorems, WellFoundedInduction, TLAPS

-----------------------------------------------------------------------------
(* The types.                                                              *)
ListMaps == UNION {[D -> ListRec] : D \in SUBSET Lists}
Filters  == [enabled : BOOLEAN, custom : {{}, Custom}, service : BOOLEAN, allowOnly : BOOLEAN,
             window : Windows \cup {Always}, svcWindow : Windows \cup {Always}, lists : ListMaps]
JobKinds == {"none", "add", "one", "all", "ticker"}
Jobs     == [kind : JobKinds, todo : SUBSET Lists, changed : BOOLEAN, err : BOOLEAN]
Locks    == [writer : JobKinds, reader : {0, 1}, queued : BOOLEAN]
Lefts    == [ops : 0 .. MaxOps, faults : 0 .. MaxFaults, hour : BOOLEAN]
Sources  == Lists \cup {"custom", "service", "allowlist", "none"}
Verdicts == [act : {"pass", "allow", "block", "rewrite"}, src : Sources]
Ats      == {"idle", "enabled", "schedule", "match", "allowlist", "service", "done"}
Queries  == [at : Ats, name : {a.name : a \in Asked} \cup {"none"}, grp : {"none", "default", "group"},
             side : {"request", "response"}, res : Verdicts, live : SUBSET Lists,
             alias : {a.alias : a \in Asked} \cup {"none"}]

Types ==
  /\ cfg \in Filters /\ mem \in Filters /\ disk.filter \in Filters
  /\ file \in [Lists -> Stamp] /\ web \in [Urls -> 1 .. MaxVersion]
  /\ now \in 0 .. MaxTime /\ pause \in 0 .. MaxTime + 1
  /\ lock \in Locks /\ job \in Jobs /\ left \in Lefts
  /\ admin \in {"idle", "engine", "copy", "save", "states"}
  /\ query \in Queries /\ stale \in BOOLEAN /\ apart \in BOOLEAN

(* Rules come from the user, the service or a list.                        *)
Sourced(m) == \A r \in m : r.src \in Lists \cup {"custom", "service"}

(* The lock is held by the download under way, on lists that exist, and    *)
(* the handler that waits for it is the one that started it.               *)
Downloads ==
  /\ lock.writer = job.kind /\ job.todo \subseteq DOMAIN cfg.lists
  /\ job.kind = "none" => job.todo = {}
  /\ admin = "engine" <=> job.kind \in {"add", "one", "all"}

(* A download that has changed no file and added no list leaves the        *)
(* indexes what they have to be.                                           *)
Exact == matcher = LoadAllRules(cfg, file) /\ gmatcher \in {CompileGroup(grp, cfg, file), NoIndex}
InStep == ~stale /\ (job.kind = "none" \/ (job.kind # "add" /\ ~job.changed)) => Exact

(* The handlers' copy and the engine's configuration name the same lists,  *)
(* rules and services, except after a failure and between a call of the    *)
(* engine and the copy that follows it.                                    *)
Agree(a, b) ==
  /\ DOMAIN a.lists = DOMAIN b.lists /\ a.custom = b.custom /\ a.service = b.service
  /\ \A l \in DOMAIN b.lists : a.lists[l].url = b.lists[l].url /\ a.lists[l].on = b.lists[l].on
Follows == ~apart /\ admin \in {"idle", "states", "save"} => Agree(mem, cfg)

(* A query on its way has seen every list that is on, and what blocks it.  *)
Active  == query.at \notin {"idle", "done"}
Seen ==
  /\ Active => OnLists(cfg, stale) \subseteq query.live
  /\ query.at \in {"allowlist", "service", "done"} /\ query.res.act = "block" /\ query.res.src \in Lists
       => query.res.src \in query.live

Kept == Types /\ Sourced(matcher) /\ Sourced(gmatcher) /\ Downloads /\ InStep /\ Follows /\ Seen

-----------------------------------------------------------------------------
(* Operators.                                                              *)
LEMMA ListMapFacts ==
  ASSUME NEW m
  PROVE  m \in ListMaps <=> DOMAIN m \subseteq Lists /\ m \in [DOMAIN m -> ListRec]
BY DEF ListMaps

LEMMA FilterFacts ==
  ASSUME NEW c \in Filters
  PROVE  /\ DOMAIN c.lists \subseteq Lists /\ c.lists \in [DOMAIN c.lists -> ListRec]
         /\ \A l \in DOMAIN c.lists : c.lists[l] \in ListRec /\ c.lists[l].on \in BOOLEAN
         /\ c.service \in BOOLEAN
<1>1. c.lists \in ListMaps /\ c.service \in BOOLEAN
  BY DEF Filters
<1>2. DOMAIN c.lists \subseteq Lists /\ c.lists \in [DOMAIN c.lists -> ListRec]
  BY <1>1, ListMapFacts
<1>3. \A l \in DOMAIN c.lists : c.lists[l] \in ListRec
  BY <1>2
<1> QED BY <1>1, <1>2, <1>3 DEF ListRec

(* A configuration with other lists.                                       *)
LEMMA NewLists ==
  ASSUME NEW c \in Filters, NEW m \in ListMaps
  PROVE  [c EXCEPT !.lists = m] \in Filters /\ [c EXCEPT !.lists = m].lists = m
BY DEF Filters

LEMMA WithListFacts ==
  ASSUME NEW c \in Filters, NEW l \in Lists, NEW r \in ListRec
  PROVE  /\ WithList(c, l, r) \in Filters
         /\ DOMAIN WithList(c, l, r).lists = DOMAIN c.lists \cup {l}
<1> DEFINE m == [k \in DOMAIN c.lists \cup {l} |-> IF k = l THEN r ELSE c.lists[k]]
<1>1. DOMAIN c.lists \subseteq Lists /\ \A k \in DOMAIN c.lists : c.lists[k] \in ListRec
  BY FilterFacts
<1>2. DOMAIN m = DOMAIN c.lists \cup {l} /\ m \in [DOMAIN m -> ListRec]
  BY <1>1
<1>3. m \in ListMaps
  BY <1>1, <1>2, ListMapFacts
<1>4. WithList(c, l, r) = [c EXCEPT !.lists = m]
  BY DEF WithList
<1> HIDE DEF m
<1> QED BY <1>2, <1>3, <1>4, NewLists

LEMMA WithoutFacts ==
  ASSUME NEW c \in Filters, NEW l
  PROVE  Without(c, l) \in Filters /\ DOMAIN Without(c, l).lists = DOMAIN c.lists \ {l}
<1> DEFINE m == [k \in DOMAIN c.lists \ {l} |-> c.lists[k]]
<1>1. DOMAIN c.lists \subseteq Lists /\ \A k \in DOMAIN c.lists : c.lists[k] \in ListRec
  BY FilterFacts
<1>2. DOMAIN m = DOMAIN c.lists \ {l} /\ m \in [DOMAIN m -> ListRec]
  BY <1>1
<1>3. m \in ListMaps
  BY <1>1, <1>2, ListMapFacts
<1>4. Without(c, l) = [c EXCEPT !.lists = m]
  BY DEF Without
<1> HIDE DEF m
<1> QED BY <1>2, <1>3, <1>4, NewLists

(* The rules follow from what two configurations agree on.                 *)
LEMMA AgreeLoads ==
  ASSUME NEW a, NEW b, NEW f, NEW g, Agree(a, b)
  PROVE  LoadAllRules(a, f) = LoadAllRules(b, f) /\ CompileGroup(g, a, f) = CompileGroup(g, b, f)
<1>1. {k \in DOMAIN a.lists : a.lists[k].on} = {k \in DOMAIN b.lists : b.lists[k].on}
  BY DEF Agree
<1>2. LoadLists(a, f) = LoadLists(b, f)
  BY <1>1 DEF LoadLists
<1>3. CustomRules(a) = CustomRules(b) /\ ServiceRules(a) = ServiceRules(b)
  BY DEF Agree, CustomRules, ServiceRules
<1>4. LoadAllRules(a, f) = LoadAllRules(b, f)
  BY <1>2, <1>3 DEF LoadAllRules
<1> QED BY <1>4 DEF CompileGroup

LEMMA AgreeIsEquivalence ==
  ASSUME NEW a, NEW b, NEW c
  PROVE  /\ Agree(a, a)
         /\ Agree(a, b) => Agree(b, a)
         /\ Agree(a, b) /\ Agree(b, c) => Agree(a, c)
BY DEF Agree

(* A rule comes from a list that is on, from the user or from the service. *)
LEMMA TaggedFacts ==
  ASSUME NEW rules, NEW source, NEW r \in Tagged(rules, source)
  PROVE  r.src = source
BY DEF Tagged

LEMMA LoadSources ==
  ASSUME NEW c \in Filters, NEW f, NEW g
  PROVE  /\ Sourced(LoadAllRules(c, f)) /\ Sourced(CompileGroup(g, c, f))
         /\ \A r \in LoadAllRules(c, f) \cup CompileGroup(g, c, f) :
              r.src \in Lists => r.src \in {l \in DOMAIN c.lists : c.lists[l].on}
<1>1. \A r \in CustomRules(c) : r.src = "custom"
  BY TaggedFacts DEF CustomRules
<1>2. \A r \in ServiceRules(c) : r.src = "service"
  BY TaggedFacts DEF ServiceRules
<1>3. \A l : \A r \in FileRules(l, f) : r.src = l
  BY TaggedFacts DEF FileRules
<1>4. \A r \in LoadLists(c, f) : r.src \in {l \in DOMAIN c.lists : c.lists[l].on}
  BY <1>3 DEF LoadLists
<1>5. "custom" \notin Lists /\ "service" \notin Lists
  BY RuleAssumption
<1>6. DOMAIN c.lists \subseteq Lists
  BY FilterFacts
<1>7. CompileGroup(g, c, f) \subseteq LoadAllRules(c, f)
  BY DEF CompileGroup
<1>8. \A r \in LoadAllRules(c, f) :
        \/ r.src \in {"custom", "service"}
        \/ r.src \in {l \in DOMAIN c.lists : c.lists[l].on}
  BY <1>1, <1>2, <1>4 DEF LoadAllRules
<1> QED BY <1>5, <1>6, <1>7, <1>8 DEF Sourced

(* The winner is one of the rules.                                         *)
LEMMA FirstFacts ==
  ASSUME NEW rs, rs # {}
  PROVE  \E r \in rs : r.src = First(rs)
BY DEF First

LEMMA WinnerFacts ==
  ASSUME NEW m, NEW n, Sourced(m)
  PROVE  /\ Winner(m, n) \in Verdicts
         /\ Winner(m, n).act = "block" => \E r \in m : r.src = Winner(m, n).src
<1> DEFINE of(k) == {r \in m : r.name = n /\ r.kind = k}
<1> DEFINE w(a, k) == [act |-> a, src |-> First(of(k))]
<1>1. ASSUME NEW a \in {"allow", "block", "rewrite"}, NEW k, of(k) # {}
      PROVE  w(a, k) \in Verdicts /\ \E r \in m : r.src = w(a, k).src
  <2>1. PICK r \in of(k) : r.src = First(of(k))
    BY <1>1, FirstFacts
  <2>2. r \in m /\ First(of(k)) \in Sources
    BY <2>1 DEF Sourced, Sources
  <2> QED BY <2>1, <2>2 DEF Verdicts
<1>2. [act |-> "pass", src |-> "none"] \in Verdicts
  BY DEF Verdicts, Sources
<1>3. \/ \E a \in {"allow", "block", "rewrite"}, k \in Kinds : of(k) # {} /\ Winner(m, n) = w(a, k)
      \/ Winner(m, n) = [act |-> "pass", src |-> "none"]
  BY DEF Winner, Kinds
<1> HIDE DEF of
<1> QED BY <1>1, <1>2, <1>3

-----------------------------------------------------------------------------
(* The query beside a step of the engine.                                  *)
LEMMA OnListsFacts ==
  ASSUME NEW c \in Filters, NEW s \in BOOLEAN
  PROVE  OnLists(c, s) \subseteq Lists
BY FilterFacts DEF OnLists

LEMMA QueryLive ==
  ASSUME Types, Seen, KeepQuery, cfg' \in Filters, stale' \in BOOLEAN
  PROVE  query' \in Queries /\ Seen'
<1>1. OnLists(cfg', stale') \subseteq Lists
  BY OnListsFacts
<1>2. query \in Queries
  BY DEF Types
<1>3. CASE query.at \in {"idle", "done"}
  <2>1. query' = query
    BY <1>2, <1>3 DEF KeepQuery, Live, Queries
  <2> QED BY <1>2, <1>3, <2>1 DEF Seen, Active
<1>4. CASE query.at \notin {"idle", "done"}
  <2>1. query' = [query EXCEPT !.live = query.live \cup OnLists(cfg', stale')]
    BY <1>4 DEF KeepQuery, Live
  <2>2. query' \in Queries /\ query'.live = query.live \cup OnLists(cfg', stale')
        /\ query'.at = query.at /\ query'.res = query.res
    BY <1>1, <1>2, <2>1 DEF Queries
  <2> QED BY <2>2 DEF Seen, Active
<1> QED BY <1>3, <1>4

LEMMA QueryFrame ==
  ASSUME Types, Seen, query' = query, cfg' = cfg, stale' = stale
  PROVE  query' \in Queries /\ Seen'
BY DEF Types, Seen, Active

(* Building the indexes.                                                   *)
LEMMA IndexFacts ==
  ASSUME NEW c \in Filters, NEW f, NEW g, NEW m \in GroupIndexes(g, c, f)
  PROVE  Sourced(m) /\ m \in {CompileGroup(g, c, f), NoIndex}
<1>1. Sourced(NoIndex)
  BY DEF Sourced, NoIndex
<1> QED BY <1>1, LoadSources DEF GroupIndexes

LEMMA RebuildFacts ==
  ASSUME NEW ok \in BOOLEAN, Rebuild(ok), grp' = grp, cfg' \in Filters,
         Sourced(matcher), Sourced(gmatcher)
  PROVE  Sourced(matcher') /\ Sourced(gmatcher') /\ stale' \in BOOLEAN /\ (~stale' => Exact')
<1>1. CASE ok
  BY <1>1, LoadSources, IndexFacts DEF Rebuild, Exact
<1>2. CASE ~ok
  BY <1>2 DEF Rebuild
<1> QED BY <1>1, <1>2

-----------------------------------------------------------------------------
LEMMA NewListFacts ==
  ASSUME NEW u \in Urls
  PROVE  NewList(u) \in ListRec
BY RuleAssumption DEF NewList, ListRec, Stamp, Statuses

LEMMA InitKept == Init => Kept
<1> SUFFICES ASSUME Init PROVE Kept
  OBVIOUS
<1> DEFINE stamp == [url |-> Default.url, ver |-> 1]
           entry == [NewList(Default.url) EXCEPT !.tag = stamp, !.status = "ok"]
<1>1. stamp \in Stamp
  BY RuleAssumption DEF Stamp
<1>2. NewList(Default.url) \in ListRec
  BY NewListFacts, RuleAssumption
<1>3. entry \in ListRec
  BY <1>1, <1>2 DEF ListRec, Statuses
<1>4. file = [l \in Lists |-> IF l = Default.list THEN stamp ELSE None]
  BY DEF Init
<1>5. file \in [Lists -> Stamp]
  BY <1>1, <1>4 DEF Stamp
<1>6. cfg = [enabled |-> TRUE, custom |-> {}, service |-> FALSE, allowOnly |-> FALSE,
             window |-> Always, svcWindow |-> Always, lists |-> [l \in {Default.list} |-> entry]]
  BY DEF Init
<1> HIDE DEF entry, stamp
<1>8. [l \in {Default.list} |-> entry] \in ListMaps
  BY <1>3, RuleAssumption, ListMapFacts
<1>9. cfg \in Filters
  BY <1>6, <1>8 DEF Filters
<1>10. mem = cfg /\ disk.filter = cfg
  BY DEF Init
<1>11. Sourced(matcher) /\ Sourced(gmatcher)
  BY <1>9, LoadSources DEF Init, Sourced
<1>12. Exact
  BY DEF Init, Exact, CompileGroup
<1>13. query = NoQuery /\ NoQuery \in Queries /\ NoQuery.at = "idle"
  BY DEF Init, NoQuery, Queries, Ats, Verdicts, Sources
<1>14. job = NoJob /\ NoJob \in Jobs /\ NoJob.kind = "none" /\ NoJob.todo = {}
  BY DEF Init, NoJob, Jobs, JobKinds
<1>15. lock = Unlocked /\ Unlocked \in Locks /\ Unlocked.writer = "none"
  BY DEF Init, Unlocked, Locks, JobKinds
<1>16. left \in Lefts /\ web \in [Urls -> 1 .. MaxVersion] /\ now \in 0 .. MaxTime /\ pause \in 0 .. MaxTime + 1
  BY RuleAssumption DEF Init, Lefts
<1>17. admin = "idle" /\ ~stale /\ ~apart /\ stale \in BOOLEAN /\ apart \in BOOLEAN
  BY DEF Init
<1>18. Types
  BY <1>5, <1>9, <1>10, <1>13, <1>14, <1>15, <1>16, <1>17 DEF Types
<1>19. Downloads
  BY <1>14, <1>15, <1>17 DEF Downloads
<1>20. Agree(mem, cfg)
  BY <1>10, AgreeIsEquivalence
<1>21. Seen
  BY <1>13 DEF Seen, Active
<1> QED BY <1>11, <1>12, <1>18, <1>19, <1>20, <1>21 DEF Kept, InStep, Follows

-----------------------------------------------------------------------------
(* The query's own steps.                                                  *)
LEMMA EngineFrame ==
  ASSUME Kept, UNCHANGED Engine, query' \in Queries, Seen'
  PROVE  Kept'
<1>1. Types'
  BY DEF Kept, Types, Engine
<1>2. Sourced(matcher)' /\ Sourced(gmatcher)'
  BY DEF Kept, Engine, Sourced
<1>3. Downloads' /\ InStep' /\ Follows'
  BY DEF Kept, Engine, Downloads, InStep, Exact, Follows, Free
<1> QED BY <1>1, <1>2, <1>3 DEF Kept

LEMMA AskKept ==
  ASSUME Kept, Ask
  PROVE  Kept'
<1>1. PICK a \in Asked, g \in {"default", "group"} :
        query' = [NoQuery EXCEPT !.at = "enabled", !.name = a.name, !.alias = a.alias, !.grp = g,
                                 !.side = IF a.alias = a.name THEN "request" ELSE "response",
                                 !.live = OnLists(cfg, stale)]
  BY DEF Ask
<1>2. UNCHANGED Engine /\ cfg' = cfg /\ stale' = stale
  BY DEF Ask, Engine
<1>3. OnLists(cfg, stale) \subseteq Lists
  BY OnListsFacts DEF Kept, Types
<1>4. query' \in Queries /\ query'.at = "enabled" /\ query'.live = OnLists(cfg, stale)
  BY <1>1, <1>3 DEF NoQuery, Queries, Ats, Verdicts, Sources
<1>5. Seen'
  BY <1>2, <1>4 DEF Seen, Active
<1> QED BY <1>2, <1>4, <1>5, EngineFrame

(* A verdict keeps what the query has seen when it is a block.             *)
LEMMA VerdictSeen ==
  ASSUME Types, NEW res \in Verdicts, Verdict(res),
         res.act = "block" /\ res.src \in Lists => res.src \in query.live
  PROVE  query' \in Queries /\ Seen'
<1>1. query.live \subseteq Lists
  BY DEF Types, Queries
<1>2. query' \in Queries /\ query'.at = "done" /\ query'.res = res
      /\ (res.act = "block" => query'.live = query.live)
  BY <1>1 DEF Verdict, NoQuery, Queries, Ats
<1> QED BY <1>2 DEF Seen, Active

(* What a query matches is a rule of a list that is on, or the index is    *)
(* out of step and the query has seen every list.                          *)
LEMMA MatchSeen ==
  ASSUME Kept, CanRead, Active, NEW g, NEW n,
         Winner(GroupMatcher(g), n).act = "block", Winner(GroupMatcher(g), n).src \in Lists
  PROVE  Winner(GroupMatcher(g), n).src \in query.live
<1>1. Sourced(GroupMatcher(g))
  BY DEF Kept, GroupMatcher
<1>2. PICK r \in GroupMatcher(g) : r.src = Winner(GroupMatcher(g), n).src
  BY <1>1, WinnerFacts
<1>3. OnLists(cfg, stale) \subseteq query.live
  BY DEF Kept, Seen
<1>4. CASE stale
  BY <1>3, <1>4 DEF OnLists
<1>5. CASE ~stale
  <2>1. job.kind = "none"
    BY DEF CanRead, Free, Kept, Downloads
  <2>2. Exact
    BY <1>5, <2>1 DEF Kept, InStep
  <2>3. r \in LoadAllRules(cfg, file) \cup CompileGroup(grp, cfg, file)
    BY <1>2, <2>2 DEF Exact, GroupMatcher
  <2>4. cfg \in Filters
    BY DEF Kept, Types
  <2>5. r.src \in {l \in DOMAIN cfg.lists : cfg.lists[l].on}
    BY <1>2, <2>3, <2>4, LoadSources
  <2> QED BY <1>2, <1>3, <1>5, <2>5 DEF OnLists
<1> QED BY <1>4, <1>5, <1>2 DEF Kept, Types

LEMMA QueryStepKept ==
  ASSUME Kept, QueryStep
  PROVE  Kept'
<1>1. UNCHANGED Engine /\ cfg' = cfg /\ stale' = stale /\ CanRead
  BY DEF QueryStep, Engine
<1> SUFFICES query' \in Queries /\ Seen'
  BY <1>1, EngineFrame
<1>2. query \in Queries /\ Types /\ Seen
  BY DEF Kept, Types
<1>3. Pass \in Verdicts /\ Pass.act = "pass"
  BY DEF Pass, Verdicts, Sources
<1>4. ASSUME Verdict(Pass) PROVE query' \in Queries /\ Seen'
  BY <1>2, <1>3, <1>4, VerdictSeen
<1>5. ASSUME NEW at \in {"schedule", "match"}, Active, query' = [query EXCEPT !.at = at]
      PROVE  query' \in Queries /\ Seen'
  <2>1. query' \in Queries /\ query'.at = at /\ query'.live = query.live
    BY <1>2, <1>5 DEF Queries, Ats
  <2> QED BY <1>1, <1>2, <1>5, <2>1 DEF Seen, Active
<1>6. CASE CheckEnabled
  BY <1>4, <1>5, <1>6 DEF CheckEnabled, Active
<1>7. CASE CheckSchedule
  BY <1>4, <1>5, <1>7 DEF CheckSchedule, Active
<1>8. CASE MatchRequest
  <2>1. PICK res : res = Winner(GroupMatcher(query.grp), query.name)
    OBVIOUS
  <2>2. Active /\ query' = [query EXCEPT !.at = "allowlist", !.name = "none", !.alias = "none", !.res = res]
    BY <1>8, <2>1 DEF MatchRequest, Active
  <2>3. res \in Verdicts
    BY <2>1, WinnerFacts DEF Kept, GroupMatcher
  <2>4. res.act = "block" /\ res.src \in Lists => res.src \in query.live
    BY <1>1, <2>1, <2>2, MatchSeen
  <2>5. query' \in Queries /\ query'.at = "allowlist" /\ query'.live = query.live /\ query'.res = res
    BY <1>2, <2>2, <2>3 DEF Queries, Ats
  <2> QED BY <1>1, <1>2, <2>2, <2>4, <2>5 DEF Seen, Active
<1>9. CASE MatchResponse
  <2>1. PICK res : res = Winner(GroupMatcher(query.grp), query.alias)
    OBVIOUS
  <2>2. Active /\ Verdict(IF res.act = "block" THEN res ELSE Pass)
    BY <1>9, <2>1 DEF MatchResponse, Active
  <2>3. res \in Verdicts
    BY <2>1, WinnerFacts DEF Kept, GroupMatcher
  <2>4. res.act = "block" /\ res.src \in Lists => res.src \in query.live
    BY <1>1, <2>1, <2>2, MatchSeen
  <2> QED BY <1>2, <1>4, <2>2, <2>3, <2>4, VerdictSeen
<1>10. CASE CheckAllowlist
  <2>1. PICK res : res = IF AllowlistOnly(query.grp) THEN ApplyAllowlistOnly(query.res) ELSE query.res
    OBVIOUS
  <2>2. query.at = "allowlist" /\ query.res \in Verdicts
    BY <1>2, <1>10 DEF CheckAllowlist, Queries
  <2>3. res = query.res \/ res = [act |-> "block", src |-> "allowlist"]
    BY <2>1 DEF ApplyAllowlistOnly
  <2>4. res \in Verdicts /\ (res.act = "block" /\ res.src \in Lists => res.src \in query.live)
    BY <1>2, <2>2, <2>3, RuleAssumption DEF Verdicts, Sources, Seen
  <2>5. IF res.act = "block" THEN query' = [query EXCEPT !.at = "service", !.res = res] ELSE Verdict(res)
    BY <1>10, <2>1 DEF CheckAllowlist
  <2>6. CASE res.act = "block"
    <3>1. query' \in Queries /\ query'.at = "service" /\ query'.live = query.live /\ query'.res = res
      BY <1>2, <2>4, <2>5, <2>6 DEF Queries, Ats
    <3> QED BY <1>1, <1>2, <2>2, <2>4, <3>1 DEF Seen, Active
  <2>7. CASE res.act # "block"
    BY <1>2, <2>4, <2>5, <2>7, VerdictSeen
  <2> QED BY <2>6, <2>7
<1>11. CASE CheckService
  <2>1. query.res \in Verdicts /\ query.at = "service"
    BY <1>2, <1>11 DEF CheckService, Queries
  <2>2. query.res.act = "block" /\ query.res.src \in Lists => query.res.src \in query.live
    BY <1>2, <2>1 DEF Seen
  <2>3. Verdict(query.res) \/ Verdict(Pass)
    BY <1>11 DEF CheckService
  <2> QED BY <1>2, <1>4, <2>1, <2>2, <2>3, VerdictSeen
<1> QED BY <1>6, <1>7, <1>8, <1>9, <1>10, <1>11 DEF QueryStep

-----------------------------------------------------------------------------
(* The handlers.                                                           *)
LEMMA SpendFacts ==
  ASSUME left \in Lefts, left.ops > 0, NEW ok \in BOOLEAN, ok \/ left.faults > 0, Spend(ok)
  PROVE  left' \in Lefts
<1>1. left.ops - 1 \in 0 .. MaxOps /\ (IF ok THEN left.faults ELSE left.faults - 1) \in 0 .. MaxFaults
  BY RuleAssumption DEF Lefts
<1> QED BY <1>1 DEF Lefts, Spend

LEMMA BuiltFacts ==
  ASSUME left \in Lefts, NEW ok \in Built
  PROVE  ok \in BOOLEAN /\ (ok \/ left.faults > 0)
BY DEF Built

(* A step that holds the lock for one call: no download is under way.      *)
LEMMA LockedOnce ==
  ASSUME Kept, CanLock, lock' = [lock EXCEPT !.queued = FALSE]
  PROVE  /\ job.kind = "none" /\ job.todo = {} /\ admin # "engine"
         /\ lock' \in Locks /\ lock'.writer = "none"
<1>1. lock \in Locks
  BY DEF Kept, Types
<1>2. lock.writer = "none" /\ job.kind = "none"
  BY DEF CanLock, Free, Kept, Downloads
<1>3. job.todo = {} /\ admin # "engine"
  BY <1>2 DEF Kept, Downloads
<1>4. lock' \in Locks /\ lock'.writer = lock.writer
  BY <1>1 DEF Locks
<1> QED BY <1>2, <1>3, <1>4

LEMMA ReloadKept ==
  ASSUME Kept, Call, cfg' \in Filters, file' \in [Lists -> Stamp], Reload
  PROVE  Kept'
<1>1. PICK ok \in Built : Rebuild(ok) /\ Spend(ok) /\ Return(ok) /\ KeepQuery
  BY DEF Reload
<1>2. Types /\ left \in Lefts /\ left.ops > 0
  BY DEF Kept, Types, Call
<1>3. ok \in BOOLEAN /\ left' \in Lefts
  BY <1>1, <1>2, BuiltFacts, SpendFacts
<1>4. /\ job.kind = "none" /\ job.todo = {} /\ lock' \in Locks /\ lock'.writer = "none"
  BY LockedOnce DEF Call
<1>5. Sourced(matcher') /\ Sourced(gmatcher') /\ stale' \in BOOLEAN /\ (~stale' => Exact')
  BY <1>1, <1>3, RebuildFacts DEF Kept, Call
<1>6. query' \in Queries /\ Seen'
  BY <1>1, <1>2, <1>5, QueryLive DEF Kept
<1>7. job' = job /\ mem' = mem /\ disk' = disk /\ web' = web /\ now' = now /\ pause' = pause
  BY DEF Call
<1>8. admin' = (IF ok THEN "copy" ELSE "idle") /\ apart' \in BOOLEAN /\ (~ok => apart')
  BY <1>1, <1>2, <1>3 DEF Return, Types
<1>9. Types'
  BY <1>2, <1>3, <1>4, <1>5, <1>6, <1>7, <1>8 DEF Types
<1>10. Downloads'
  BY <1>4, <1>7, <1>8 DEF Downloads
<1>11. Follows'
  BY <1>3, <1>8 DEF Follows
<1> QED BY <1>5, <1>6, <1>9, <1>10, <1>11 DEF Kept, InStep, Sourced

(* What a handler asks for is a configuration.                             *)
LEMMA EditTypes ==
  ASSUME Types, NEW c \in Edits(cfg) \cup ServiceEdits
  PROVE  c \in Filters
<1>1. cfg \in Filters /\ mem \in Filters
  BY DEF Types
<1>2. \A l \in DOMAIN cfg.lists : l \in Lists /\ [cfg.lists[l] EXCEPT !.on = ~@] \in ListRec
  <2>1. \A l \in DOMAIN cfg.lists : l \in Lists /\ cfg.lists[l] \in ListRec
    BY <1>1, FilterFacts
  <2>2. \A r \in ListRec : [r EXCEPT !.on = ~@] \in ListRec
    BY DEF ListRec
  <2> QED BY <2>1, <2>2
<1>3. CASE \E l \in DOMAIN cfg.lists : c = Without(cfg, l)
  BY <1>1, <1>3, WithoutFacts
<1>4. CASE \E l \in DOMAIN cfg.lists : c = WithList(cfg, l, [cfg.lists[l] EXCEPT !.on = ~@])
  BY <1>1, <1>2, <1>4, WithListFacts
<1>5. CASE \E w \in Windows : c = [cfg EXCEPT !.window = w]
  BY <1>1, <1>5 DEF Filters
<1>6. CASE c \in {[cfg EXCEPT !.enabled = ~@], [cfg EXCEPT !.allowOnly = ~@]}
  BY <1>1, <1>6 DEF Filters
<1>7. CASE c = [mem EXCEPT !.service = ~@]
  BY <1>1, <1>7 DEF Filters
<1>8. CASE \E w \in Windows : c = [mem EXCEPT !.svcWindow = w]
  BY <1>1, <1>8 DEF Filters
<1> QED BY <1>3, <1>4, <1>5, <1>6, <1>7, <1>8 DEF Edits, ServiceEdits

(* The index may be kept when nothing it is built from has changed.        *)
LEMMA UpdateConfigKept ==
  ASSUME Kept, UpdateConfig
  PROVE  Kept'
<1>1. Types /\ Call /\ file' = file /\ file \in [Lists -> Stamp]
  BY DEF Kept, Types, UpdateConfig
<1>2. PICK c \in Edits(cfg) \cup ServiceEdits :
        /\ cfg' = c
        /\ \/ /\ InputsUnchanged(cfg, c)
              /\ UNCHANGED <<matcher, gmatcher, stale>> /\ Spend(TRUE) /\ Return(TRUE) /\ KeepQuery
           \/ ~InputsUnchanged(cfg, c) /\ Reload
  BY DEF UpdateConfig
<1>3. cfg' \in Filters
  BY <1>1, <1>2, EditTypes
<1>4. CASE Reload
  BY <1>1, <1>3, <1>4, ReloadKept
<1>5. CASE /\ InputsUnchanged(cfg, c)
           /\ UNCHANGED <<matcher, gmatcher, stale>> /\ Spend(TRUE) /\ Return(TRUE) /\ KeepQuery
  <2>1. Agree(cfg', cfg)
    BY <1>2, <1>5 DEF InputsUnchanged, Agree
  <2>2. /\ job.kind = "none" /\ job.todo = {} /\ lock' \in Locks /\ lock'.writer = "none"
    BY <1>1, LockedOnce DEF Call
  <2>3. left' \in Lefts
    BY <1>1, <1>5, SpendFacts DEF Call, Types
  <2>4. query' \in Queries /\ Seen'
    BY <1>1, <1>3, <1>5, QueryLive DEF Kept, Types
  <2>5. /\ job' = job /\ mem' = mem /\ disk' = disk /\ web' = web /\ now' = now /\ pause' = pause
        /\ grp' = grp
    BY <1>1 DEF Call
  <2>6. admin' = "copy" /\ apart' = apart
    BY <1>1, <1>5 DEF Return, Types
  <2>7. Types'
    BY <1>1, <1>3, <1>5, <2>2, <2>3, <2>4, <2>5, <2>6 DEF Types
  <2>8. Downloads'
    BY <2>2, <2>5, <2>6 DEF Downloads
  <2>9. Follows'
    BY <2>6 DEF Follows
  <2>10. LoadAllRules(cfg', file) = LoadAllRules(cfg, file) /\ CompileGroup(grp, cfg', file) = CompileGroup(grp, cfg, file)
    BY <2>1, AgreeLoads
  <2>11. InStep'
    BY <1>1, <1>5, <2>2, <2>5, <2>10 DEF Kept, InStep, Exact
  <2>12. Sourced(matcher)' /\ Sourced(gmatcher)'
    BY <1>5 DEF Kept, Sourced
  <2> QED BY <2>4, <2>7, <2>8, <2>9, <2>11, <2>12 DEF Kept
<1> QED BY <1>2, <1>4, <1>5

LEMMA SetCustomRulesKept ==
  ASSUME Kept, SetCustomRules
  PROVE  Kept'
<1>1. PICK rules \in {{}, Custom} : cfg' = [cfg EXCEPT !.custom = rules]
  BY DEF SetCustomRules
<1>2. cfg' \in Filters
  BY <1>1 DEF Kept, Types, Filters
<1> QED BY <1>2, ReloadKept DEF SetCustomRules, Kept, Types

LEMMA UpdateFilterListKept ==
  ASSUME Kept, UpdateFilterList
  PROVE  Kept'
<1>1. PICK l \in DOMAIN cfg.lists, u \in Urls, on \in BOOLEAN :
        cfg' = WithList(cfg, l, [cfg.lists[l] EXCEPT !.url = u, !.on = on])
  BY DEF UpdateFilterList
<1>2. cfg \in Filters
  BY DEF Kept, Types
<1>3. l \in Lists /\ cfg.lists[l] \in ListRec
  BY <1>2, FilterFacts
<1>4. [cfg.lists[l] EXCEPT !.url = u, !.on = on] \in ListRec
  BY <1>3 DEF ListRec
<1>5. cfg' \in Filters
  BY <1>1, <1>2, <1>3, <1>4, WithListFacts
<1> QED BY <1>5, ReloadKept DEF UpdateFilterList, Kept, Types

LEMMA RemoveFilterListKept ==
  ASSUME Kept, RemoveFilterList
  PROVE  Kept'
<1>1. PICK l \in DOMAIN cfg.lists : cfg' = Without(cfg, l) /\ file' = [file EXCEPT ![l] = None]
  BY DEF RemoveFilterList
<1>2. cfg \in Filters /\ file \in [Lists -> Stamp]
  BY DEF Kept, Types
<1>3. cfg' \in Filters /\ file' \in [Lists -> Stamp]
  BY <1>1, <1>2, WithoutFacts DEF Stamp
<1> QED BY <1>3, ReloadKept DEF RemoveFilterList

LEMMA ConfigureClientGroupsKept ==
  ASSUME Kept, ConfigureClientGroups
  PROVE  Kept'
<1>1. Types /\ cfg \in Filters /\ left \in Lefts /\ left.ops > 0 /\ admin = "idle"
  BY DEF Kept, Types, ConfigureClientGroups
<1>2. left' \in Lefts
  BY <1>1, SpendFacts DEF ConfigureClientGroups
<1>3. /\ job.kind = "none" /\ job.todo = {} /\ lock' \in Locks /\ lock'.writer = "none"
  BY LockedOnce DEF ConfigureClientGroups
<1>4. /\ cfg' = cfg /\ matcher' = matcher /\ file' = file /\ mem' = mem /\ disk' = disk /\ web' = web
      /\ now' = now /\ pause' = pause /\ job' = job /\ query' = query /\ stale' = stale /\ apart' = apart
      /\ admin' = "save" /\ gmatcher' \in GroupIndexes(grp', cfg, file)
  BY DEF ConfigureClientGroups
<1>5. Types'
  BY <1>1, <1>2, <1>3, <1>4 DEF Types
<1>6. Downloads'
  BY <1>3, <1>4 DEF Downloads
<1>7. Follows'
  BY <1>1, <1>4 DEF Kept, Follows
<1>8. Sourced(matcher)' /\ Sourced(gmatcher)'
  <2>1. Sourced(gmatcher')
    BY <1>1, <1>4, IndexFacts
  <2> QED BY <1>4, <2>1 DEF Kept
<1>9. InStep'
  <2>1. gmatcher' \in {CompileGroup(grp', cfg, file), NoIndex}
    BY <1>1, <1>4, IndexFacts
  <2> QED BY <1>3, <1>4, <2>1 DEF Kept, InStep, Exact
<1>10. Seen'
  BY <1>4, QueryFrame DEF Kept
<1> QED BY <1>5, <1>6, <1>7, <1>8, <1>9, <1>10 DEF Kept

LEMMA SaveKept ==
  ASSUME Kept, Save
  PROVE  Kept'
<1>1. Types /\ cfg \in Filters /\ mem \in Filters /\ left \in Lefts /\ apart \in BOOLEAN
  BY DEF Kept, Types
<1>2. PICK ok \in Built : /\ disk' = IF ok THEN [filter |-> mem', grp |-> grp] ELSE disk
                          /\ left' = [left EXCEPT !.faults = IF ok THEN @ ELSE @ - 1]
  BY DEF Save
<1>3. left' \in Lefts
  <2>1. (IF ok THEN left.faults ELSE left.faults - 1) \in 0 .. MaxFaults
    BY <1>1, BuiltFacts, RuleAssumption DEF Lefts
  <2> QED BY <1>1, <1>2, <2>1 DEF Lefts
<1>4. /\ mem' = (IF admin = "copy" THEN cfg ELSE mem) /\ admin \in {"copy", "save"} /\ admin' = "idle"
      /\ apart' = (apart /\ admin = "save")
  BY DEF Save, Copied
<1>5. /\ cfg' = cfg /\ grp' = grp /\ matcher' = matcher /\ gmatcher' = gmatcher /\ file' = file
      /\ web' = web /\ now' = now /\ pause' = pause /\ lock' = lock /\ job' = job /\ query' = query
      /\ stale' = stale
  BY DEF Save
<1>6. mem' \in Filters /\ disk'.filter \in Filters
  BY <1>1, <1>2, <1>4 DEF Types
<1>7. Types'
  BY <1>1, <1>3, <1>4, <1>5, <1>6 DEF Types
<1>8. Downloads'
  BY <1>4, <1>5 DEF Kept, Downloads
<1>9. Follows'
  BY <1>4, <1>5, AgreeIsEquivalence DEF Kept, Follows
<1>10. Sourced(matcher)' /\ Sourced(gmatcher)' /\ InStep'
  BY <1>5 DEF Kept, Sourced, InStep, Exact
<1>11. Seen'
  BY <1>5, QueryFrame DEF Kept
<1> QED BY <1>7, <1>8, <1>9, <1>10, <1>11 DEF Kept

-----------------------------------------------------------------------------
(* Downloads.                                                              *)
LEMMA BeginKept ==
  ASSUME Kept, NEW kind \in JobKinds \ {"none"}, NEW lists, NEW c \in Filters, Begin(kind, lists, c),
         lists \subseteq DOMAIN c.lists, kind # "add" => c = cfg, left' \in Lefts,
         IF kind = "ticker" THEN admin' = admin ELSE admin = "idle" /\ admin' = "engine"
  PROVE  Kept'
<1>1. Types /\ lock \in Locks /\ lock.writer = "none" /\ job.kind = "none" /\ admin # "engine"
  BY DEF Kept, Types, Begin, CanLock, Free, Downloads
<1>2. lock' \in Locks /\ lock'.writer = kind
  BY <1>1 DEF Begin, Locks
<1>3. DOMAIN c.lists \subseteq Lists
  BY FilterFacts
<1>4. /\ job' \in Jobs /\ job'.kind = kind /\ job'.todo = lists /\ ~job'.changed
  BY <1>3 DEF Begin, Jobs
<1>5. /\ grp' = grp /\ matcher' = matcher /\ gmatcher' = gmatcher /\ file' = file /\ mem' = mem
      /\ disk' = disk /\ web' = web /\ now' = now /\ pause' = pause /\ stale' = stale /\ apart' = apart
      /\ cfg' = c
  BY DEF Begin
<1>6. query' \in Queries /\ Seen'
  BY <1>1, <1>5, QueryLive DEF Begin, Kept, Types
<1>7. admin' \in {"idle", "engine", "copy", "save", "states"} /\ (admin' = "engine" <=> kind # "ticker")
  BY <1>1 DEF Types
<1>8. Types'
  BY <1>1, <1>2, <1>4, <1>5, <1>6, <1>7 DEF Types
<1>9. Downloads'
  BY <1>2, <1>4, <1>5, <1>7 DEF Downloads, JobKinds
<1>10. InStep'
  BY <1>1, <1>4, <1>5 DEF Kept, InStep, Exact
<1>11. Follows'
  BY <1>5, <1>7 DEF Kept, Follows
<1>12. Sourced(matcher)' /\ Sourced(gmatcher)'
  BY <1>5 DEF Kept, Sourced
<1> QED BY <1>6, <1>8, <1>9, <1>10, <1>11, <1>12 DEF Kept

LEMMA AddFilterListKept ==
  ASSUME Kept, AddFilterList
  PROVE  Kept'
<1>1. PICK l \in Lists, u \in Urls : BeginCall("add", {l}, WithList(cfg, l, NewList(u)))
  BY DEF AddFilterList
<1>2. PICK c : c = WithList(cfg, l, NewList(u))
  OBVIOUS
<1>3. NewList(u) \in ListRec /\ cfg \in Filters
  BY NewListFacts DEF Kept, Types
<1>4. c \in Filters /\ {l} \subseteq DOMAIN c.lists
  BY <1>2, <1>3, WithListFacts
<1>5. BeginCall("add", {l}, c)
  BY <1>1, <1>2
<1>6. left' \in Lefts
  BY <1>5, SpendFacts DEF BeginCall, Kept, Types
<1> QED BY <1>4, <1>5, <1>6, BeginKept DEF BeginCall, JobKinds

LEMMA RefreshCallKept ==
  ASSUME Kept, RefreshList \/ RefreshAllLists
  PROVE  Kept'
<1>1. PICK kind \in {"one", "all"}, lists \in SUBSET (DOMAIN cfg.lists) : BeginCall(kind, lists, cfg)
  BY DEF RefreshList, RefreshAllLists, On
<1>2. left' \in Lefts
  BY <1>1, SpendFacts DEF BeginCall, Kept, Types
<1>3. cfg \in Filters
  BY DEF Kept, Types
<1> QED BY <1>1, <1>2, <1>3, BeginKept DEF BeginCall, JobKinds

LEMMA RunUpdateTickerKept ==
  ASSUME Kept, RunUpdateTicker
  PROVE  Kept'
<1>1. Begin("ticker", Due, cfg) /\ admin' = admin /\ Due \subseteq DOMAIN cfg.lists
  BY DEF RunUpdateTicker, Due, On
<1>2. left' \in Lefts
  BY DEF RunUpdateTicker, Lefts, Kept, Types
<1>3. cfg \in Filters
  BY DEF Kept, Types
<1> QED BY <1>1, <1>2, <1>3, BeginKept DEF JobKinds

LEMMA RefreshStep ==
  ASSUME RefreshListUnlocked
  PROVE  \E l \in job.todo, r \in {"transport", "http", "ok", "304"} : ListDone(l, r)
<1>1. Turn \in job.todo
  BY DEF RefreshListUnlocked, Turn
<1>2. PICK r \in FetchListContentConditional(cfg.lists[Turn].url, cfg.lists[Turn].tag) : ListDone(Turn, r)
  BY DEF RefreshListUnlocked
<1>3. r \in {"transport", "http", "ok", "304"}
  BY <1>2 DEF FetchListContentConditional
<1> QED BY <1>1, <1>2, <1>3

(* One list's answer: the entry changes in its status, time and validator, *)
(* and the file only with new content.                                     *)
LEMMA RefreshListUnlockedKept ==
  ASSUME Kept, RefreshListUnlocked
  PROVE  Kept'
<1>1. Types /\ cfg \in Filters /\ job \in Jobs /\ file \in [Lists -> Stamp] /\ now \in 0 .. MaxTime
      /\ web \in [Urls -> 1 .. MaxVersion]
  BY DEF Kept, Types
<1>2. PICK l \in job.todo, r \in {"transport", "http", "ok", "304"} :
        /\ file' = [file EXCEPT ![l] = KeptFile(l, r)]
        /\ cfg' = WithList(cfg, l, Answered(l, r))
        /\ job' = [job EXCEPT !.todo = @ \ {l}, !.changed = @ \/ r = "ok",
                              !.err = @ \/ ListStatus(l, r) = "failed"]
  BY RefreshStep DEF ListDone
<1>3. l \in DOMAIN cfg.lists /\ l \in Lists /\ cfg.lists[l] \in ListRec
  BY <1>1, <1>2, FilterFacts DEF Kept, Downloads
<1>4. cfg.lists[l].url \in Urls
  BY <1>3 DEF ListRec
<1>5. KeptFile(l, r) \in Stamp
  BY <1>1, <1>3, <1>4 DEF KeptFile, Stamp
<1>6. file' \in [Lists -> Stamp] /\ (r # "ok" => file' = file)
  <2>1. r # "ok" => KeptFile(l, r) = file[l]
    BY DEF KeptFile
  <2> QED BY <1>1, <1>2, <1>3, <1>5, <2>1
<1>7. ListStatus(l, r) \in Statuses
  BY DEF ListStatus, Statuses
<1>8. PICK n \in ListRec : n = Answered(l, r) /\ n.url = cfg.lists[l].url /\ n.on = cfg.lists[l].on
  <2>1. PICK e \in ListRec : e = cfg.lists[l]
    BY <1>3
  <2>2. PICK upd \in 0 .. MaxTime : upd = IF r \in {"ok", "304"} THEN now ELSE e.upd
    BY <1>1 DEF ListRec
  <2>3. PICK tag \in Stamp : tag = IF r = "ok" THEN KeptFile(l, r) ELSE e.tag
    BY <1>5 DEF ListRec
  <2>4. PICK status \in Statuses : status = ListStatus(l, r)
    BY <1>7
  <2>5. Answered(l, r) = [e EXCEPT !.status = status, !.upd = upd, !.tag = tag]
    BY <2>1, <2>2, <2>3, <2>4 DEF Answered
  <2> QED BY <2>1, <2>2, <2>3, <2>4, <2>5 DEF ListRec
<1>9. cfg' \in Filters /\ DOMAIN cfg'.lists = DOMAIN cfg.lists
  <2>1. cfg' = WithList(cfg, l, n)
    BY <1>2, <1>8
  <2>2. cfg' \in Filters /\ DOMAIN cfg'.lists = DOMAIN cfg.lists \cup {l}
    BY <1>1, <1>3, <2>1, WithListFacts
  <2> QED BY <1>3, <2>2
<1>10. cfg'.custom = cfg.custom /\ cfg'.service = cfg.service
  BY <1>1, <1>2 DEF WithList, Filters
<1>11. \A k \in DOMAIN cfg.lists : cfg'.lists[k] = IF k = l THEN n ELSE cfg.lists[k]
  BY <1>1, <1>2, <1>3, <1>8 DEF WithList, Filters
<1>12. Agree(cfg', cfg)
  BY <1>8, <1>9, <1>10, <1>11 DEF Agree
<1>13. r = "ok" \/ file' = file
  BY <1>6
<1>14. /\ job' \in Jobs /\ job'.kind = job.kind /\ job'.todo = job.todo \ {l}
       /\ job'.changed = (job.changed \/ r = "ok")
  BY <1>1, <1>2 DEF Jobs
<1>15. /\ grp' = grp /\ matcher' = matcher /\ gmatcher' = gmatcher /\ mem' = mem /\ disk' = disk
       /\ web' = web /\ now' = now /\ pause' = pause /\ lock' = lock /\ admin' = admin /\ left' = left
       /\ stale' = stale /\ apart' = apart /\ KeepQuery
  BY DEF RefreshListUnlocked
<1>16. query' \in Queries /\ Seen'
  BY <1>1, <1>9, <1>15, QueryLive DEF Kept, Types
<1>17. Types'
  BY <1>1, <1>6, <1>9, <1>14, <1>15, <1>16 DEF Types
<1>18. Downloads'
  BY <1>9, <1>14, <1>15 DEF Kept, Downloads
<1>19. InStep'
  <2> SUFFICES ASSUME ~stale', job'.kind = "none" \/ (job'.kind # "add" /\ ~job'.changed)
               PROVE  Exact'
    BY DEF InStep
  <2>1. job.kind # "none"
    BY DEF RefreshListUnlocked
  <2>2. ~stale /\ job.kind # "add" /\ ~job.changed /\ r # "ok"
    BY <1>14, <1>15, <2>1
  <2>3. Exact /\ file' = file
    BY <1>13, <2>2 DEF Kept, InStep
  <2>4. /\ LoadAllRules(cfg', file) = LoadAllRules(cfg, file)
        /\ CompileGroup(grp, cfg', file) = CompileGroup(grp, cfg, file)
    BY <1>12, AgreeLoads
  <2> QED BY <1>15, <2>3, <2>4 DEF Exact
<1>20. Follows'
  BY <1>12, <1>15, AgreeIsEquivalence DEF Kept, Follows
<1>21. Sourced(matcher)' /\ Sourced(gmatcher)'
  BY <1>15 DEF Kept, Sourced
<1> QED BY <1>16, <1>17, <1>18, <1>19, <1>20, <1>21 DEF Kept

(* The end of a download: what needs no rebuild has changed no file.       *)
LEMMA FinishRefreshKept ==
  ASSUME Kept, FinishRefresh
  PROVE  Kept'
<1>1. Types /\ cfg \in Filters /\ left \in Lefts /\ job \in Jobs /\ lock \in Locks
      /\ stale \in BOOLEAN /\ apart \in BOOLEAN
  BY DEF Kept, Types
<1>2. PICK ok \in Built :
        /\ cfg' = cfg /\ file' = file
        /\ IF NeedsRebuild THEN Rebuild(ok)
             ELSE stale' = (stale \/ job.kind = "add" \/ job.changed) /\ UNCHANGED <<matcher, gmatcher>>
        /\ IF job.kind = "ticker" THEN UNCHANGED <<admin, apart>>
             ELSE Return(ok /\ (job.kind \in {"add", "one"} => ~job.err))
        /\ left' = [left EXCEPT !.faults = IF ok THEN @ ELSE @ - 1]
  BY DEF FinishRefresh
<1>3. ok \in BOOLEAN /\ (ok \/ left.faults > 0)
  BY <1>1, BuiltFacts
<1>4. left' \in Lefts
  <2>1. (IF ok THEN left.faults ELSE left.faults - 1) \in 0 .. MaxFaults
    BY <1>1, <1>3, RuleAssumption DEF Lefts
  <2> QED BY <1>1, <1>2, <2>1 DEF Lefts
<1>5. /\ job' = NoJob /\ NoJob \in Jobs /\ NoJob.kind = "none" /\ NoJob.todo = {}
  BY DEF FinishRefresh, Release, NoJob, Jobs, JobKinds
<1>6. lock' \in Locks /\ lock'.writer = "none"
  BY <1>1 DEF FinishRefresh, Release, Locks, JobKinds
<1>7. /\ grp' = grp /\ mem' = mem /\ disk' = disk /\ web' = web /\ now' = now /\ pause' = pause /\ KeepQuery
  BY DEF FinishRefresh
<1>8. Sourced(matcher') /\ Sourced(gmatcher') /\ stale' \in BOOLEAN /\ (~stale' => Exact')
  <2>1. CASE NeedsRebuild
    BY <1>1, <1>2, <1>3, <1>7, <2>1, RebuildFacts DEF Kept
  <2>2. CASE ~NeedsRebuild
    <3>1. stale' = (stale \/ job.kind = "add" \/ job.changed) /\ matcher' = matcher /\ gmatcher' = gmatcher
      BY <1>2, <2>2
    <3>2. ~stale' => Exact
      BY <1>1, <3>1 DEF Kept, InStep
    <3> QED BY <1>1, <1>2, <1>7, <3>1, <3>2 DEF Kept, Exact
  <2> QED BY <2>1, <2>2
<1>9. query' \in Queries /\ Seen'
  BY <1>1, <1>2, <1>7, <1>8, QueryLive DEF Kept
<1>10. job.kind = "ticker" => admin' = admin /\ apart' = apart /\ admin # "engine"
  BY <1>2 DEF Kept, Downloads
<1>11. job.kind # "ticker" => /\ admin' \in {"copy", "idle"} /\ (admin' = "idle" => apart') /\ apart' \in BOOLEAN
  BY <1>1, <1>2 DEF Return
<1>12. Types'
  BY <1>1, <1>2, <1>4, <1>5, <1>6, <1>7, <1>8, <1>9, <1>10, <1>11 DEF Types
<1>13. Downloads'
  BY <1>2, <1>5, <1>6, <1>10, <1>11 DEF Downloads
<1>14. Follows'
  BY <1>2, <1>7, <1>10, <1>11 DEF Kept, Follows
<1> QED BY <1>8, <1>9, <1>12, <1>13, <1>14 DEF Kept, InStep, Sourced

-----------------------------------------------------------------------------
(* Pauses, readers and the world.                                          *)
LEMMA AsideKept ==
  ASSUME Kept, UNCHANGED <<cfg, grp, matcher, gmatcher, file, mem, disk, job, query, stale, apart>>,
         web' \in [Urls -> 1 .. MaxVersion], now' \in 0 .. MaxTime, pause' \in 0 .. MaxTime + 1,
         lock' \in Locks, lock'.writer = lock.writer, left' \in Lefts,
         admin' = admin \/ {admin, admin'} \subseteq {"idle", "states"}
  PROVE  Kept'
<1>1. admin' \in {"idle", "engine", "copy", "save", "states"}
  BY DEF Kept, Types
<1>2. Types'
  BY <1>1 DEF Kept, Types
<1>3. Downloads'
  BY DEF Kept, Downloads
<1>4. Follows'
  BY DEF Kept, Follows
<1>5. Sourced(matcher)' /\ Sourced(gmatcher)' /\ InStep'
  BY DEF Kept, Sourced, InStep, Exact
<1>6. Seen'
  BY QueryFrame DEF Kept
<1> QED BY <1>2, <1>3, <1>4, <1>5, <1>6 DEF Kept

LEMMA WorldKept ==
  ASSUME Kept, PauseFor \/ ResumePause \/ ServiceScheduleStates \/ WriterQueues \/ Tick \/ Publish
  PROVE  Kept'
<1>1. /\ web \in [Urls -> 1 .. MaxVersion] /\ now \in 0 .. MaxTime /\ pause \in 0 .. MaxTime + 1
      /\ lock \in Locks /\ left \in Lefts
  BY DEF Kept, Types
<1>2. \A r \in {0, 1}, q \in BOOLEAN :
        /\ [lock EXCEPT !.reader = r] \in Locks /\ [lock EXCEPT !.reader = r].writer = lock.writer
        /\ [lock EXCEPT !.queued = q] \in Locks /\ [lock EXCEPT !.queued = q].writer = lock.writer
  BY <1>1 DEF Locks
<1>3. left.ops > 0 /\ Spend(TRUE) => left' \in Lefts
  BY <1>1, SpendFacts
<1>4. CASE PauseFor \/ ResumePause
  <2>1. pause' \in 0 .. MaxTime + 1
    <3>1. now + 1 \in 0 .. MaxTime + 1 /\ MaxTime + 1 \in 0 .. MaxTime + 1 /\ 0 \in 0 .. MaxTime + 1
      BY <1>1, RuleAssumption
    <3> QED BY <1>4, <3>1 DEF PauseFor, ResumePause, Forever
  <2> QED BY <1>1, <1>2, <1>3, <1>4, <2>1, AsideKept DEF PauseFor, ResumePause
<1>5. CASE ServiceScheduleStates
  BY <1>1, <1>2, <1>3, <1>5, AsideKept DEF ServiceScheduleStates
<1>6. CASE WriterQueues
  BY <1>1, <1>2, <1>6, AsideKept DEF WriterQueues
<1>7. CASE Tick
  <2>1. left' \in Lefts
    BY <1>1, <1>7 DEF Tick, Lefts
  <2>2. now' \in 0 .. MaxTime
    BY <1>1, <1>7, RuleAssumption DEF Tick
  <2> QED BY <1>1, <1>7, <2>1, <2>2, AsideKept DEF Tick
<1>8. CASE Publish
  <2>1. left' \in Lefts
    BY <1>1, <1>8, RuleAssumption DEF Publish, Lefts
  <2>2. web' \in [Urls -> 1 .. MaxVersion]
    <3>1. PICK u \in Urls : web[u] + 1 \in DOMAIN Content[u] /\ web' = [web EXCEPT ![u] = @ + 1]
      BY <1>8 DEF Publish
    <3>2. web[u] + 1 \in 1 .. MaxVersion
      BY <3>1, RuleAssumption
    <3> QED BY <1>1, <3>1, <3>2
  <2> QED BY <1>1, <1>8, <2>1, <2>2, AsideKept DEF Publish
<1> QED BY <1>4, <1>5, <1>6, <1>7, <1>8

LEMMA CrashRestartKept ==
  ASSUME Kept, CrashRestart
  PROVE  Kept'
<1>1. Types /\ disk.filter \in Filters /\ left \in Lefts
  BY DEF Kept, Types
<1>2. left' \in Lefts
  BY <1>1, RuleAssumption DEF CrashRestart, Lefts
<1>3. /\ cfg' = disk.filter /\ mem' = cfg' /\ disk' = disk /\ file' = file /\ web' = web /\ now' = now
      /\ pause' = 0 /\ stale' \in BOOLEAN /\ ~apart' /\ apart' \in BOOLEAN /\ admin' = "idle"
  BY DEF CrashRestart
<1>4. query' = NoQuery /\ NoQuery \in Queries /\ NoQuery.at = "idle"
  BY DEF CrashRestart, NoQuery, Queries, Ats, Verdicts, Sources
<1>5. job' = NoJob /\ NoJob \in Jobs /\ NoJob.kind = "none" /\ NoJob.todo = {}
  BY DEF CrashRestart, NoJob, Jobs, JobKinds
<1>6. lock' = Unlocked /\ Unlocked \in Locks /\ Unlocked.writer = "none"
  BY DEF CrashRestart, Unlocked, Locks, JobKinds
<1>7. Types'
  BY <1>1, <1>2, <1>3, <1>4, <1>5, <1>6, RuleAssumption DEF Types
<1>8. Downloads'
  BY <1>3, <1>5, <1>6 DEF Downloads
<1>9. (~stale' => Exact') /\ Sourced(matcher') /\ Sourced(gmatcher')
  <2>1. PICK ok \in BOOLEAN : matcher' = (IF ok THEN LoadAllRules(cfg', file) ELSE {}) /\ stale' = ~ok
    BY DEF CrashRestart
  <2>2. Sourced(gmatcher') /\ gmatcher' \in {CompileGroup(grp', cfg', file), NoIndex}
    BY <1>1, <1>3, IndexFacts DEF CrashRestart
  <2>3. Sourced(matcher') /\ (ok => matcher' = LoadAllRules(cfg', file))
    BY <1>1, <1>3, <2>1, LoadSources DEF Sourced
  <2> QED BY <1>3, <2>1, <2>2, <2>3 DEF Exact
<1>10. Follows'
  BY <1>3, AgreeIsEquivalence DEF Follows
<1>11. Seen'
  BY <1>4 DEF Seen, Active
<1> QED BY <1>7, <1>8, <1>9, <1>10, <1>11 DEF Kept, InStep, Sourced

LEMMA NextKept ==
  ASSUME Kept, [Next]_vars
  PROVE  Kept'
<1>1. CASE UNCHANGED vars
  BY <1>1, EngineFrame, QueryFrame DEF vars, Engine, Kept
<1>2. CASE Handler
  BY <1>2, UpdateConfigKept, SetCustomRulesKept, UpdateFilterListKept, RemoveFilterListKept,
     ConfigureClientGroupsKept, AddFilterListKept, RefreshCallKept DEF Handler
<1> QED BY <1>1, <1>2, AskKept, QueryStepKept, SaveKept, RunUpdateTickerKept, RefreshListUnlockedKept,
           FinishRefreshKept, WorldKept, CrashRestartKept DEF Next

LEMMA AlwaysKept == Spec => []Kept
BY InitKept, NextKept, PTL DEF Spec

-----------------------------------------------------------------------------
(* Whenever e.mu is free, the indexes of the engine are what its           *)
(* configuration and the cache files say unless a call failed half way,    *)
(* and while no handler runs the configuration the handlers start from     *)
(* names what the engine works with: rebuilds that are skipped, downloads  *)
(* that change nothing, failed builds and restarts included.               *)
THEOREM EngineKeepsInStep == Spec => []EngineInStep
<1>1. ASSUME Kept PROVE EngineInStep
  <2>1. cfg \in Filters /\ lock \in Locks /\ query \in Queries /\ left \in Lefts
    BY <1>1 DEF Kept, Types
  <2>2. DOMAIN cfg.lists \subseteq Lists /\ \A l \in DOMAIN cfg.lists : cfg.lists[l] \in ListRec
    BY <2>1, FilterFacts
  <2>3. query.at \in Ats /\ left.ops \in 0 .. MaxOps /\ left.faults \in 0 .. MaxFaults
    BY <2>1 DEF Queries, Lefts
  <2>4. TypeOK
    BY <1>1, <2>2, <2>3 DEF TypeOK, Kept, Types, Downloads, Locks, JobKinds, Ats
  <2>5. MatcherInStep
    BY <1>1 DEF MatcherInStep, Kept, InStep, Exact, Downloads, Free
  <2>6. SavedFollowsEngine
    BY <1>1 DEF SavedFollowsEngine, Kept, Follows, Agree
  <2> QED BY <2>4, <2>5, <2>6 DEF EngineInStep
<1> QED BY <1>1, AlwaysKept, PTL

(* A list blocks a query only if it was switched on at some time while the *)
(* query was in the filter, although a query reads the engine in several   *)
(* read locks and the lists change between them.                           *)
THEOREM OnlyLiveListsBlock == Spec => []BlocksOnlyLive
<1>1. Kept => BlocksOnlyLive
  BY DEF Kept, Seen, BlocksOnlyLive
<1> QED BY <1>1, AlwaysKept, PTL

(* No refresh takes rules away: a list loses its cache file only when it   *)
(* is removed.                                                             *)
THEOREM RefreshesKeepRules == Spec => RefreshKeepsRules
<1>1. ASSUME Kept, [Next]_vars, NEW l \in Lists, file[l] # None, file'[l] = None
      PROVE  l \notin DOMAIN cfg'.lists
  <2>1. file \in [Lists -> Stamp] /\ cfg \in Filters /\ web \in [Urls -> 1 .. MaxVersion]
    BY <1>1 DEF Kept, Types
  <2>2. CASE RemoveFilterList
    <3>1. PICK k \in DOMAIN cfg.lists : cfg' = Without(cfg, k) /\ file' = [file EXCEPT ![k] = None]
      BY <2>2 DEF RemoveFilterList
    <3>2. l = k
      BY <1>1, <2>1, <3>1
    <3> QED BY <2>1, <3>1, <3>2, WithoutFacts
  <2>3. CASE RefreshListUnlocked
    <3>1. PICK k, r : k \in job.todo /\ file' = [file EXCEPT ![k] = KeptFile(k, r)]
      BY <2>3, RefreshStep DEF ListDone
    <3>2. k \in DOMAIN cfg.lists
      BY <1>1, <3>1 DEF Kept, Downloads
    <3>3. cfg.lists[k].url \in Urls /\ k \in Lists
      BY <2>1, <3>2, FilterFacts DEF ListRec
    <3>4. l = k /\ r = "ok"
      BY <1>1, <2>1, <3>1, <3>3 DEF KeptFile
    <3>5. file'[l].ver \in 1 .. MaxVersion
      BY <2>1, <3>1, <3>3, <3>4 DEF KeptFile
    <3>6. None.ver \notin 1 .. MaxVersion
      BY RuleAssumption DEF None
    <3> QED BY <1>1, <3>5, <3>6
  <2>4. CASE file' = file
    BY <1>1, <2>4
  <2> QED BY <1>1, <2>2, <2>3, <2>4 DEF Next, vars, Ask, QueryStep, Engine, Handler, UpdateConfig,
        SetCustomRules, UpdateFilterList, ConfigureClientGroups, AddFilterList, RefreshList, RefreshAllLists,
        BeginCall, Begin, Save, RunUpdateTicker, FinishRefresh, PauseFor, ResumePause,
        ServiceScheduleStates, WriterQueues, Tick, Publish, CrashRestart
<1>2. Kept /\ [Next]_vars => [\A l \in Lists : file[l] # None /\ file'[l] = None => l \notin DOMAIN cfg'.lists]_vars
  BY <1>1
<1> QED BY <1>2, AlwaysKept, PTL DEF Spec, RefreshKeepsRules

-----------------------------------------------------------------------------
(* The console: types and the inductive invariant.                         *)
LogModes == {"none", "start", "run", "done"}
LogWriterType == [mode : LogModes, ch : Seq(Log!Records), req : Seq(Admins), stop : BOOLEAN,
                  buf : Seq(Log!Records), day : (0 .. (MaxHour \div DayHours)) \cup {-1}]
LogRecType == [pc : {"idle", "ring", "stat", "enqueue", "done"}, hour : Log!Hours, w : 0 .. MaxWriters]
LogAdmType == [pc : {"idle", "reinit", "clearStats", "request", "reply", "replied", "closing", "done"},
               w : 0 .. MaxWriters]
LogFileType == [0 .. (MaxHour \div DayHours) -> Seq(Log!Records)]

\* The types, and that the ring holds what a list of the newest records would.
Slot(st, i, m) == IF st + i < m THEN st + i ELSE st + i - m
RingRec(b, st, n, m) == [buf |-> b, start |-> st, size |-> n, max |-> m]
RingHolds(b, st, n, m, s) ==
  /\ m \in Nat \ {0} /\ st \in 0 .. m - 1 /\ n \in 0 .. m /\ b \in [0 .. m - 1 -> Nat]
  /\ s \in Seq(Nat) /\ Len(s) = n
  /\ \A i \in 1 .. n : s[i] = b[Slot(st, i - 1, m)]
RingIsRecent(rg, s) ==
  /\ rg = RingRec(rg.buf, rg.start, rg.size, rg.max)
  /\ RingHolds(rg.buf, rg.start, rg.size, rg.max, s)

\* The bucket of an hour from ws on counts the records of that hour among C.
LogBuckets == [queries : Nat, blocked : Nat]
OfHour(C, rc, h) == {r \in C : rc[r].hour = h}
BucketsCount(bk, C, rc, ws) ==
  /\ bk \in [DOMAIN bk -> LogBuckets] /\ DOMAIN bk \subseteq Log!Hours
  /\ \A h \in Log!Hours : h >= ws =>
       IF h \in DOMAIN bk
       THEN /\ bk[h].queries = Cardinality(OfHour(C, rc, h))
            /\ bk[h].blocked = Cardinality(OfHour(C \cap Blocked, rc, h))
       ELSE OfHour(C, rc, h) = {}
CountedOnce ==
  /\ logCounted \subseteq Log!Records
  /\ \A r \in logCounted : logRec[r].pc \in {"enqueue", "done"}

\* What a writer accepted is on disk, gone, in its queue or in its buffer; when
\* it has ended, on disk or gone.
OnDisk(fs) == UNION {Log!ToSet(fs[d]) : d \in DOMAIN fs}
WriterKeeps(x, o, D) ==
  /\ x \in LogWriterType /\ o \subseteq Log!Records
  /\ Len(x.ch) <= QueueSize /\ Len(x.req) <= 1
  /\ x.day = -1 => x.buf = <<>>
  /\ x.mode = "none" => o = {}
  /\ x.mode = "done" => x.stop /\ o \subseteq D
  /\ o \subseteq D \cup Log!ToSet(x.ch) \cup Log!ToSet(x.buf)
LogTypes ==
  /\ logHour \in Log!Hours /\ logCfg \in LogConfigs
  /\ logRec \in [Log!Records -> LogRecType] /\ logAdm \in [Admins -> LogAdmType]
  /\ logWriter \in 0 .. MaxWriters /\ logFiles \in LogFileType
  /\ logGone \subseteq Log!Records
  /\ DOMAIN logWriters = Log!Writers /\ DOMAIN logOwed = Log!Writers
WritersKeep ==
  \A i \in Log!Writers : WriterKeeps(logWriters[i], logOwed[i], logGone \cup OnDisk(logFiles))

\* Writers are made one after the other, and whoever refers to one refers to
\* one that was made.
Made(i) == logWriters[i].mode # "none"
InOrder == \E n \in 0 .. MaxWriters : \A i \in Log!Writers : Made(i) <=> i <= n
Referred ==
  /\ logWriter # 0 => Made(logWriter)
  /\ \A r \in Log!Records : logRec[r].w # 0 => Made(logRec[r].w)
Addressed == \A r \in Log!Records : logRec[r].pc = "enqueue" => logRec[r].w # 0

LogInv ==
  /\ LogTypes
  /\ logRing.max = logCfg.max /\ RingIsRecent(logRing, logRecent)
  /\ CountedOnce /\ BucketsCount(logBuckets, logCounted, logRec, Log!WindowStart)
  /\ WritersKeep /\ InOrder /\ Referred /\ Addressed

\* A page whose channel is closed is not among those the hub sends to.
SubType ==
  [handler : {"idle", "register", "done"}, read : {"none", "run", "unregister", "end"},
   write : {"none", "run", "end"}, sent : Nat, closed : BOOLEAN, conn : BOOLEAN, slow : Int]
HubInv ==
  /\ hubSub \in [Pages -> SubType] /\ hubPages \subseteq Pages /\ ~hubPanicked
  /\ \A c \in hubPages : ~hubSub[c].closed /\ hubSub[c].handler = "done"
  /\ \A c \in Pages : hubSub[c].closed => hubSub[c].handler = "done"

ConsoleInv == LogInv /\ HubInv

-----------------------------------------------------------------------------
(* The ring.                                                               *)

\* The slot after st, i places on, is the one the code computes modulo max.
LEMMA Wraps ==
  ASSUME NEW m \in Nat \ {0}, NEW st \in 0 .. m - 1, NEW i \in 0 .. m
  PROVE  (st + i) % m = Slot(st, i, m) /\ Slot(st, i, m) \in 0 .. m - 1
  BY DEF Slot

\* add on a ring that is not full writes the next free slot.
LEMMA AddGrows ==
  ASSUME NEW m \in Nat \ {0}, NEW st \in 0 .. m - 1, NEW n \in 0 .. m, NEW b, NEW r, n < m
  PROVE  Log!Add(RingRec(b, st, n, m), r) = RingRec([b EXCEPT ![Slot(st, n, m)] = r], st, n + 1, m)
  <1>1. (st + n) % m = Slot(st, n, m)
    BY Wraps
  <1>2. Log!Add(RingRec(b, st, n, m), r) = RingRec([b EXCEPT ![(st + n) % m] = r], st, n + 1, m)
    BY DEF Log!Add, RingRec
  <1> QED
    BY <1>1, <1>2, Zenon

\* add on a full ring overwrites the oldest record and moves start.
LEMMA AddReplaces ==
  ASSUME NEW m \in Nat \ {0}, NEW st \in 0 .. m - 1, NEW n \in 0 .. m, NEW b, NEW r, ~(n < m)
  PROVE  Log!Add(RingRec(b, st, n, m), r) = RingRec([b EXCEPT ![st] = r], Slot(st, 1, m), n, m)
  <1>1. 1 \in 0 .. m
    OBVIOUS
  <1>2. (st + 1) % m = Slot(st, 1, m)
    BY <1>1, Wraps
  <1>3. Log!Add(RingRec(b, st, n, m), r) = RingRec([b EXCEPT ![st] = r], (st + 1) % m, n, m)
    BY DEF Log!Add, RingRec
  <1> QED
    BY <1>2, <1>3, Zenon

\* After add the ring holds the newest records with the new one last.
LEMMA RingAddsHere ==
  ASSUME NEW m, NEW st, NEW n, NEW b, NEW s, RingHolds(b, st, n, m, s), NEW r \in Nat
  PROVE  IF n < m THEN RingHolds([b EXCEPT ![Slot(st, n, m)] = r], st, n + 1, m, Append(s, r))
         ELSE RingHolds([b EXCEPT ![st] = r], Slot(st, 1, m), n, m, SubSeq(Append(s, r), 2, m + 1))
  <1> DEFINE a == Append(s, r)
  <1>1. /\ m \in Nat \ {0} /\ st \in 0 .. m - 1 /\ n \in 0 .. m /\ b \in [0 .. m - 1 -> Nat]
        /\ s \in Seq(Nat) /\ Len(s) = n
        /\ \A i \in 1 .. n : s[i] = b[Slot(st, i - 1, m)]
    BY DEF RingHolds
  <1>2. a \in Seq(Nat) /\ Len(a) = n + 1 /\ (\A i \in 1 .. n : a[i] = s[i]) /\ a[n + 1] = r
    BY <1>1
  <1>3. CASE n < m
    <2> DEFINE k == Slot(st, n, m)  bb == [b EXCEPT ![k] = r]
    <2>1. k \in 0 .. m - 1 /\ bb \in [0 .. m - 1 -> Nat]
      BY <1>1, <1>3 DEF Slot
    <2>2. ASSUME NEW i \in 1 .. n + 1 PROVE a[i] = bb[Slot(st, i - 1, m)]
      <3>1. CASE i = n + 1
        <4>1. Slot(st, i - 1, m) = k
          BY <1>1, <3>1
        <4> QED
          BY <4>1, <1>1, <1>2, <2>1, <3>1
      <3>2. CASE i \in 1 .. n
        <4>1. Slot(st, i - 1, m) # k /\ Slot(st, i - 1, m) \in 0 .. m - 1
          BY <1>1, <1>3, <3>2 DEF Slot
        <4> QED
          BY <1>1, <1>2, <4>1, <3>2
      <3> QED
        BY <1>1, <3>1, <3>2
    <2> HIDE DEF a, bb, k
    <2>3. RingHolds(bb, st, n + 1, m, a)
      BY <1>1, <1>2, <1>3, <2>1, <2>2 DEF RingHolds
    <2> QED
      BY <1>3, <2>3 DEF a, bb, k
  <1>4. CASE ~(n < m)
    <2> DEFINE t == Slot(st, 1, m)  bb == [b EXCEPT ![st] = r]  q == SubSeq(a, 2, m + 1)
    <2>0. n = m
      BY <1>1, <1>4
    <2>1. t \in 0 .. m - 1 /\ bb \in [0 .. m - 1 -> Nat]
      BY <1>1 DEF Slot
    <2>2. q \in Seq(Nat) /\ Len(q) = m /\ \A i \in 1 .. m : q[i] = a[i + 1]
      BY <1>1, <1>2, <2>0, SubSeqProperties
    <2>3. ASSUME NEW i \in 1 .. m PROVE q[i] = bb[Slot(t, i - 1, m)]
      <3>1. CASE i = m
        <4>1. Slot(t, i - 1, m) = st
          BY <1>1, <3>1 DEF Slot
        <4>2. q[i] = r
          BY <2>0, <2>2, <3>1, <1>2
        <4> QED
          BY <4>1, <4>2, <1>1
      <3>2. CASE i < m
        <4>1. Slot(t, i - 1, m) = Slot(st, i, m) /\ Slot(st, i, m) # st /\ Slot(st, i, m) \in 0 .. m - 1
          BY <1>1, <3>2 DEF Slot
        <4>2. i + 1 \in 1 .. n /\ (i + 1) - 1 = i
          BY <1>1, <2>0, <3>2
        <4>3. q[i] = s[i + 1]
          BY <1>2, <2>2, <4>2
        <4>4. s[i + 1] = b[Slot(st, i, m)]
          BY <1>1, <4>2
        <4> QED
          BY <4>1, <4>3, <4>4, <1>1
      <3>3. i = m \/ i < m
        BY <1>1
      <3> QED
        BY <3>1, <3>2, <3>3, Zenon
    <2> HIDE DEF a, bb, t, q
    <2>4. RingHolds(bb, t, n, m, q)
      BY <1>1, <2>0, <2>1, <2>2, <2>3 DEF RingHolds
    <2> QED
      BY <1>4, <2>4 DEF a, bb, t, q
  <1> QED
    BY <1>3, <1>4

\* A ring with these four fields, as a record.
LEMMA RingOf ==
  ASSUME NEW m, NEW st, NEW n, NEW b, NEW s, RingHolds(b, st, n, m, s)
  PROVE  RingIsRecent(RingRec(b, st, n, m), s)
  BY DEF RingIsRecent, RingRec

\* add keeps the ring equal to the list of the newest records.
LEMMA RingAdds ==
  ASSUME NEW rg, NEW s, RingIsRecent(rg, s), NEW r \in Nat
  PROVE  /\ RingIsRecent(Log!Add(rg, r), Log!Newest(Append(s, r), rg.max))
         /\ Log!Add(rg, r).max = rg.max
  <1>1. PICK m, b, st, n : rg = RingRec(b, st, n, m) /\ RingHolds(b, st, n, m, s)
    BY DEF RingIsRecent
  <1>2. /\ m \in Nat \ {0} /\ st \in 0 .. m - 1 /\ n \in 0 .. m
        /\ s \in Seq(Nat) /\ Len(s) = n
    BY <1>1 DEF RingHolds
  <1>3. rg.max = m /\ \A bb, t, k : RingRec(bb, t, k, m).max = m
    BY <1>1 DEF RingRec
  <1>4. Log!Newest(Append(s, r), m) = IF n < m THEN Append(s, r) ELSE SubSeq(Append(s, r), 2, m + 1)
    BY <1>2 DEF Log!Newest
  <1>5. CASE n < m
    <2> DEFINE bb == [b EXCEPT ![Slot(st, n, m)] = r]
    <2>1. RingHolds(bb, st, n + 1, m, Append(s, r))
      BY <1>1, <1>5, RingAddsHere
    <2>2. Log!Add(rg, r) = RingRec(bb, st, n + 1, m)
      <3>1. Log!Add(RingRec(b, st, n, m), r)
              = RingRec(bb, st, n + 1, m)
        BY <1>2, <1>5, AddGrows
      <3> QED
        BY <1>1, <3>1, Zenon
    <2> HIDE DEF bb
    <2> QED
      BY <2>1, <2>2, <1>3, <1>4, <1>5, RingOf
  <1>6. CASE ~(n < m)
    <2> DEFINE bb == [b EXCEPT ![st] = r]  t == Slot(st, 1, m)
    <2>1. RingHolds(bb, t, n, m, SubSeq(Append(s, r), 2, m + 1))
      BY <1>1, <1>6, RingAddsHere
    <2>2. Log!Add(rg, r) = RingRec(bb, t, n, m)
      <3>1. Log!Add(RingRec(b, st, n, m), r)
              = RingRec(bb, t, n, m)
        BY <1>2, <1>6, AddReplaces
      <3> QED
        BY <1>1, <3>1, Zenon
    <2> HIDE DEF bb, t
    <2> QED
      BY <2>1, <2>2, <1>3, <1>4, <1>6, RingOf
  <1> QED
    BY <1>5, <1>6

\* An empty ring holds the empty list.
LEMMA RingEmpties ==
  ASSUME NEW m \in Nat \ {0}
  PROVE  RingIsRecent(Log!EmptyRing(m), <<>>) /\ Log!EmptyRing(m).max = m
  <1> DEFINE b == [i \in 0 .. m - 1 |-> 0]
  <1>1. b \in [0 .. m - 1 -> Nat] /\ 0 \in 0 .. m - 1
    OBVIOUS
  <1>2. Log!EmptyRing(m) = RingRec(b, 0, 0, m)
    BY DEF Log!EmptyRing, RingRec
  <1> HIDE DEF b
  <1>3. RingHolds(b, 0, 0, m, <<>>)
    BY <1>1 DEF RingHolds
  <1>4. Log!EmptyRing(m).max = m
    BY DEF Log!EmptyRing
  <1> QED
    BY <1>2, <1>3, <1>4, RingOf

\* resize keeps the newest records, as many as the new size takes.
LEMMA RingResizes ==
  ASSUME NEW rg, NEW s, RingIsRecent(rg, s), NEW mx \in Nat \ {0}
  PROVE  /\ RingIsRecent(Log!Resize(rg, mx), Log!Newest(s, mx))
         /\ Log!Resize(rg, mx).max = mx
  <1>1. PICK m, b, st, n : rg = RingRec(b, st, n, m) /\ RingHolds(b, st, n, m, s)
    BY DEF RingIsRecent
  <1>2. /\ m \in Nat \ {0} /\ st \in 0 .. m - 1 /\ n \in 0 .. m /\ b \in [0 .. m - 1 -> Nat]
        /\ s \in Seq(Nat) /\ Len(s) = n
        /\ \A i \in 1 .. n : s[i] = b[Slot(st, i - 1, m)]
    BY <1>1 DEF RingHolds
  <1> DEFINE keep == IF n > mx THEN mx ELSE n
             bb == [i \in 0 .. mx - 1 |-> IF i < keep THEN b[(st + (n - keep + i)) % m] ELSE 0]
             q == Log!Newest(s, mx)
  <1>3. CASE mx = m
    <2>1. Log!Resize(rg, mx) = rg /\ q = s /\ rg.max = mx
      BY <1>1, <1>2, <1>3 DEF Log!Resize, Log!Newest, RingRec
    <2> QED
      BY <2>1
  <1>4. CASE mx # m
    <2>1. Log!Resize(rg, mx) = RingRec(bb, 0, keep, mx)
      BY <1>1, <1>4 DEF Log!Resize, Log!At, RingRec
    <2>2. keep \in 0 .. n /\ keep \in 0 .. mx /\ keep \in Nat
      BY <1>2
    <2>3. q \in Seq(Nat) /\ Len(q) = keep /\ \A i \in 1 .. keep : q[i] = s[n - keep + i]
      <3>1. CASE n <= mx
        BY <1>2, <3>1 DEF Log!Newest
      <3>2. CASE n > mx
        <4>1. q = SubSeq(s, n - mx + 1, n) /\ keep = mx
          BY <1>2, <3>2 DEF Log!Newest
        <4>2. /\ SubSeq(s, n - mx + 1, n) \in Seq(Nat) /\ Len(SubSeq(s, n - mx + 1, n)) = mx
              /\ \A i \in 1 .. mx : SubSeq(s, n - mx + 1, n)[i] = s[n - mx + i]
          BY <1>2, <3>2, SubSeqProperties
        <4> QED
          BY <4>1, <4>2
      <3> QED
        BY <1>2, <3>1, <3>2
    <2>4. ASSUME NEW i \in 0 .. mx - 1, i < keep
          PROVE  /\ n - keep + i \in 0 .. m /\ n - keep + i + 1 \in 1 .. n
                 /\ (st + (n - keep + i)) % m = Slot(st, n - keep + i, m)
                 /\ Slot(st, n - keep + i, m) \in 0 .. m - 1
      <3>1. n - keep + i \in 0 .. m /\ n - keep + i + 1 \in 1 .. n
        BY <1>2, <2>2, <2>4
      <3> HIDE DEF keep
      <3> QED
        BY <3>1, <1>2, Wraps
    <2> HIDE DEF keep, q
    <2>5. bb \in [0 .. mx - 1 -> Nat]
      <3>1. \A i \in 0 .. mx - 1 : (IF i < keep THEN b[(st + (n - keep + i)) % m] ELSE 0) \in Nat
        BY <1>2, <2>4
      <3> QED
        BY <3>1
    <2>6. ASSUME NEW i \in 1 .. keep PROVE q[i] = bb[Slot(0, i - 1, mx)]
      <3>1. Slot(0, i - 1, mx) = i - 1 /\ i - 1 \in 0 .. mx - 1 /\ i - 1 < keep
        BY <2>2 DEF Slot
      <3>2. bb[i - 1] = b[(st + (n - keep + (i - 1))) % m]
        BY <3>1
      <3>3. (st + (n - keep + (i - 1))) % m = Slot(st, n - keep + (i - 1), m)
        BY <2>4, <3>1
      <3>4. n - keep + i \in 1 .. n /\ n - keep + (i - 1) = (n - keep + i) - 1
        BY <1>2, <2>2
      <3>5. s[n - keep + i] = b[Slot(st, (n - keep + i) - 1, m)]
        BY <1>2, <3>4
      <3>6. q[i] = s[n - keep + i]
        BY <2>3
      <3> HIDE DEF bb
      <3> QED
        BY <3>1, <3>2, <3>3, <3>4, <3>5, <3>6
    <2> HIDE DEF bb
    <2>7. RingHolds(bb, 0, keep, mx, q)
      BY <2>2, <2>3, <2>5, <2>6 DEF RingHolds
    <2> QED
      BY <2>1, <2>7, RingOf DEF q, RingRec
  <1> QED
    BY <1>3, <1>4

-----------------------------------------------------------------------------
(* The statistics.                                                         *)

Counting(R, hr, s) == Cardinality({r \in R : hr[r] \in s})

\* The records of the hours in s are those of one hour and those of the others.
LEMMA CountingOne ==
  ASSUME NEW R, IsFiniteSet(R), NEW hr, NEW s, NEW x \in s
  PROVE  Counting(R, hr, s) = Cardinality({r \in R : hr[r] = x}) + Counting(R, hr, s \ {x})
  <1> DEFINE A == {r \in R : hr[r] = x}
             B == {r \in R : hr[r] \in s \ {x}}
             C == {r \in R : hr[r] \in s}
  <1>1. C = A \cup B /\ A \cap B = {}
    OBVIOUS
  <1>2. IsFiniteSet(A) /\ IsFiniteSet(B)
    BY FS_Subset
  <1>3. Cardinality(C) = Cardinality(A) + Cardinality(B)
    <2> HIDE DEF A, B, C
    <2>1. Cardinality(A \cup B) = Cardinality(A) + Cardinality(B) - Cardinality(A \cap B)
      BY <1>2, FS_Union
    <2>2. Cardinality(A \cap B) = 0
      BY <1>1, FS_EmptySet
    <2>3. Cardinality(A) \in Nat /\ Cardinality(B) \in Nat
      BY <1>2, FS_CardinalityType
    <2> QED
      BY <1>1, <2>1, <2>2, <2>3
  <1> QED
    BY <1>3 DEF Counting

\* A set of finite sets has one with the fewest elements.
LEMMA SmallestSet ==
  ASSUME NEW T, T # {}, \A s \in T : IsFiniteSet(s)
  PROVE  \E s \in T : \A t \in T : ~(Cardinality(t) < Cardinality(s))
  <1> DEFINE N == {Cardinality(s) : s \in T}
  <1>1. N \subseteq Nat /\ N # {}
    BY FS_CardinalityType
  <1>2. PICK n \in N : \A m \in N : ~(<<m, n>> \in OpToRel(<, Nat))
    BY <1>1, WFMin, NatLessThanWellFounded
  <1>3. \A m \in N : ~(m < n)
    BY <1>1, <1>2 DEF OpToRel
  <1> QED
    BY <1>3

SumStep(b, f, s) == IF s = {} THEN 0 ELSE LET x == CHOOSE x \in s : TRUE IN b[x] + f[s \ {x}]

\* A sum over a set is the value at that set of a function that takes one element away at a time.
LEMMA SumIsChoice ==
  ASSUME NEW b, NEW H
  PROVE  Log!SumFunctionOnSet(b, H) = (CHOOSE g : g = [s \in SUBSET H |-> SumStep(b, g, s)])[H]
  BY DEF Log!SumFunctionOnSet, Log!FoldFunctionOnSet, Log!MapThenFoldSet, SumStep

\* The sum of the buckets of H is the number of the records whose hour is in H.
LEMMA SumCounts ==
  ASSUME NEW R, IsFiniteSet(R), NEW hr, NEW H, IsFiniteSet(H), NEW b,
         \A h \in H : b[h] = Cardinality({r \in R : hr[r] = h})
  PROVE  Log!SumFunctionOnSet(b, H) = Counting(R, hr, H)
  <1> DEFINE F == CHOOSE g : g = [s \in SUBSET H |-> SumStep(b, g, s)]
             G == [s \in SUBSET H |-> Counting(R, hr, s)]
  <1>1. ASSUME NEW s \in SUBSET H, NEW f,
               s # {} => f[s \ {CHOOSE x \in s : TRUE}] = Counting(R, hr, s \ {CHOOSE x \in s : TRUE})
        PROVE  SumStep(b, f, s) = Counting(R, hr, s)
    <2>1. CASE s = {}
      <3>1. {r \in R : hr[r] \in {}} = {}
        OBVIOUS
      <3> QED
        BY <2>1, <3>1, FS_EmptySet DEF SumStep, Counting
    <2>2. CASE s # {}
      <3> DEFINE x == CHOOSE x \in s : TRUE
      <3>1. x \in s /\ x \in H
        BY <2>2
      <3>2. SumStep(b, f, s) = b[x] + f[s \ {x}]
        BY <2>2 DEF SumStep
      <3> HIDE DEF x
      <3>3. Counting(R, hr, s) = Cardinality({r \in R : hr[r] = x}) + Counting(R, hr, s \ {x})
        BY <3>1, CountingOne
      <3> QED
        BY <1>1, <2>2, <3>1, <3>2, <3>3 DEF x
    <2> QED
      BY <2>1, <2>2
  <1>2. G = [s \in SUBSET H |-> SumStep(b, G, s)]
    <2>1. ASSUME NEW s \in SUBSET H PROVE SumStep(b, G, s) = Counting(R, hr, s)
      <3>1. s \ {CHOOSE x \in s : TRUE} \in SUBSET H
        OBVIOUS
      <3>2. G[s \ {CHOOSE x \in s : TRUE}] = Counting(R, hr, s \ {CHOOSE x \in s : TRUE})
        BY <3>1
      <3> HIDE DEF G
      <3> QED
        BY <3>2, <1>1
    <2> QED
      BY <2>1
  <1> HIDE DEF G
  <1>3. F = [s \in SUBSET H |-> SumStep(b, F, s)]
    BY <1>2
  <1> HIDE DEF F
  <1>4. \A s \in SUBSET H : F[s] = SumStep(b, F, s)
    BY <1>3
  <1> DEFINE T == {s \in SUBSET H : F[s] # Counting(R, hr, s)}
  <1>5. T = {}
    <2> SUFFICES ASSUME T # {} PROVE FALSE
      OBVIOUS
    <2>1. \A s \in T : IsFiniteSet(s)
      BY FS_Subset
    <2>2. PICK s \in T : \A t \in T : ~(Cardinality(t) < Cardinality(s))
      BY <2>1, SmallestSet
    <2> DEFINE x == CHOOSE x \in s : TRUE
    <2>3. ASSUME s # {} PROVE F[s \ {x}] = Counting(R, hr, s \ {x})
      <3>1. x \in s
        BY <2>3
      <3> HIDE DEF x
      <3>2. Cardinality(s \ {x}) = Cardinality(s) - 1 /\ Cardinality(s) \in Nat
        BY <2>1, <3>1, FS_RemoveElement, FS_CardinalityType
      <3>3. Cardinality(s \ {x}) < Cardinality(s)
        BY <3>2
      <3>4. s \ {x} \notin T
        BY <2>2, <3>3
      <3> QED
        BY <3>4
    <2>4. SumStep(b, F, s) = Counting(R, hr, s)
      BY <1>1, <2>3
    <2> QED
      BY <1>4, <2>4
  <1>6. F[H] = Counting(R, hr, H)
    BY <1>5
  <1> QED
    BY <1>6, SumIsChoice DEF F

\* What the assumption says of the constants.
LEMMA LogNumbers ==
  ASSUME ConsoleAssumption
  PROVE  /\ MaxRecords \in Nat \ {0} /\ MaxWriters \in Nat \ {0} /\ DayHours \in Nat \ {0}
         /\ Window \in Nat \ {0} /\ QueueSize \in Nat \ {0} /\ MaxHour \in Nat
         /\ Blocked \subseteq Log!Records
         /\ \A c \in LogConfigs : c.max \in Nat \ {0} /\ c.file \in BOOLEAN
  BY DEF ConsoleAssumption, Log!LogAssumption

\* The log counts as FiniteSets counts.
LEMMA LogCardinality ==
  \A S : Log!Cardinality(S) = Cardinality(S)
  BY DEF Log!Cardinality, Cardinality

\* Sets of records are finite.
LEMMA FiniteRecords ==
  ASSUME NEW R \in SUBSET Log!Records
  PROVE  IsFiniteSet(R)
  <1>1. IsFiniteSet(Log!Records)
    BY LogNumbers, ConsoleAssumption, FS_Interval DEF Log!Records
  <1> QED
    BY <1>1, FS_Subset

\* One more record of hour h0 adds one to the records of that hour.
LEMMA OneMoreOfHour ==
  ASSUME NEW R \in SUBSET Log!Records, NEW rc, NEW r \in Log!Records, r \notin R, NEW h
  PROVE  /\ Cardinality(OfHour(R, rc, h)) \in Nat
         /\ Cardinality(OfHour(R \cup {r}, rc, h)) =
              IF rc[r].hour = h THEN Cardinality(OfHour(R, rc, h)) + 1 ELSE Cardinality(OfHour(R, rc, h))
  <1> DEFINE A == OfHour(R, rc, h)
  <1>1. IsFiniteSet(A) /\ r \notin A
    BY FiniteRecords DEF OfHour
  <1>2. OfHour(R \cup {r}, rc, h) = IF rc[r].hour = h THEN A \cup {r} ELSE A
    BY DEF OfHour
  <1> HIDE DEF A
  <1>3. Cardinality(A) \in Nat /\ Cardinality(A \cup {r}) = Cardinality(A) + 1
    BY <1>1, FS_AddElement, FS_CardinalityType
  <1> QED
    BY <1>2, <1>3 DEF A

\* What counting does to a table of buckets.
Put(bk, h) == [k \in DOMAIN bk \cup {h} |-> IF k = h THEN Log!EmptyBucket ELSE bk[k]]

\* evictLocked keeps every bucket the window needs, as it was.
LEMMA EvictKeepsWindow ==
  ASSUME NEW bk, logHour \in Int
  PROVE  LET e == Log!Evict(bk)
         IN  /\ e = [h \in DOMAIN e |-> bk[h]] \/ e = bk
             /\ DOMAIN e \subseteq DOMAIN bk
             /\ \A h \in DOMAIN bk : h \in Int /\ h >= Log!WindowStart => h \in DOMAIN e
             /\ \A h \in DOMAIN e : e[h] = bk[h]
  BY LogNumbers, ConsoleAssumption DEF Log!Evict, Log!WindowStart

\* Buckets that count from some hour on count from every later one.
LEMMA SameBuckets ==
  ASSUME NEW bk, NEW R, NEW rc, NEW rd, NEW v \in Int, NEW ws \in Int, BucketsCount(bk, R, rc, v), ws >= v,
         \A r \in R : rd[r].hour = rc[r].hour
  PROVE  BucketsCount(bk, R, rd, ws)
  <1>1. \A h : /\ OfHour(R, rd, h) = OfHour(R, rc, h)
              /\ OfHour(R \cap Blocked, rd, h) = OfHour(R \cap Blocked, rc, h)
    BY DEF OfHour
  <1>2. \A h \in Log!Hours : h >= ws => h >= v
    BY LogNumbers, ConsoleAssumption DEF Log!Hours
  <1> QED
    BY <1>1, <1>2 DEF BucketsCount

\* No bucket counts no record.
LEMMA NoBuckets ==
  ASSUME NEW rc, NEW ws
  PROVE  BucketsCount(<<>>, {}, rc, ws)
  BY DEF BucketsCount, OfHour

\* record counts one more record in the bucket of its hour and changes no other.
LEMMA CountCounts ==
  ASSUME BucketsCount(logBuckets, logCounted, logRec, Log!WindowStart), logHour \in Log!Hours,
         NEW r \in Log!Records, r \notin logCounted, logCounted \subseteq Log!Records,
         logRec[r].hour \in Log!Hours
  PROVE  BucketsCount(Log!Count(r), logCounted \cup {r}, logRec, Log!WindowStart)
  <1> DEFINE h0 == logRec[r].hour  ws == Log!WindowStart
             b == IF h0 \in DOMAIN logBuckets THEN logBuckets ELSE Log!Evict(Put(logBuckets, h0))
             q == [b EXCEPT ![h0].queries = @ + 1,
                            ![h0].blocked = IF r \in Blocked THEN @ + 1 ELSE @]
  <1>1. /\ logBuckets \in [DOMAIN logBuckets -> LogBuckets] /\ DOMAIN logBuckets \subseteq Log!Hours
        /\ \A h \in Log!Hours : h >= ws =>
             IF h \in DOMAIN logBuckets
             THEN /\ logBuckets[h].queries = Cardinality(OfHour(logCounted, logRec, h))
                  /\ logBuckets[h].blocked = Cardinality(OfHour(logCounted \cap Blocked, logRec, h))
             ELSE OfHour(logCounted, logRec, h) = {}
    BY DEF BucketsCount
  <1>2. Log!Hours \subseteq Int /\ logHour \in Int
    BY LogNumbers, ConsoleAssumption DEF Log!Hours
  <1>3. /\ DOMAIN b \subseteq DOMAIN logBuckets \cup {h0}
        /\ b \in [DOMAIN b -> LogBuckets]
        /\ \A h \in DOMAIN b : b[h] = IF h \in DOMAIN logBuckets THEN logBuckets[h] ELSE Log!EmptyBucket
        /\ \A h \in Log!Hours : h >= ws /\ h \in DOMAIN logBuckets \cup {h0} => h \in DOMAIN b
    <2>1. CASE h0 \in DOMAIN logBuckets
      BY <1>1, <2>1
    <2>2. CASE h0 \notin DOMAIN logBuckets
      <3> DEFINE p == Put(logBuckets, h0)  e == Log!Evict(p)
      <3>1. /\ DOMAIN p = DOMAIN logBuckets \cup {h0}
            /\ \A h \in DOMAIN p : p[h] = IF h \in DOMAIN logBuckets THEN logBuckets[h] ELSE Log!EmptyBucket
        BY <2>2 DEF Put
      <3>2. \A h \in DOMAIN p : p[h] \in LogBuckets
        BY <1>1, <3>1 DEF Log!EmptyBucket, LogBuckets
      <3> HIDE DEF p
      <3>3. /\ DOMAIN e \subseteq DOMAIN p
            /\ \A h \in DOMAIN p : h \in Int /\ h >= ws => h \in DOMAIN e
            /\ \A h \in DOMAIN e : e[h] = p[h]
            /\ e = [h \in DOMAIN e |-> p[h]] \/ e = p
        BY <1>2, EvictKeepsWindow
      <3>4. p = [h \in DOMAIN p |-> p[h]]
        BY DEF p, Put
      <3> HIDE DEF e
      <3>5. e \in [DOMAIN e -> LogBuckets]
        BY <3>2, <3>3, <3>4
      <3>6. b = e
        BY <2>2 DEF e, p
      <3> QED
        BY <1>2, <3>1, <3>3, <3>5, <3>6
    <2> QED
      BY <2>1, <2>2
  <1>4. Log!Count(r) = IF h0 \notin DOMAIN b THEN b ELSE q
    BY Zenon DEF Log!Count, Put
  <1> HIDE DEF b
  <1>5. DOMAIN b \subseteq Log!Hours
    BY <1>1, <1>3
  <1>6. \A h : /\ Cardinality(OfHour(logCounted, logRec, h)) \in Nat
               /\ Cardinality(OfHour(logCounted \cup {r}, logRec, h)) =
                    IF h0 = h THEN Cardinality(OfHour(logCounted, logRec, h)) + 1
                    ELSE Cardinality(OfHour(logCounted, logRec, h))
    BY OneMoreOfHour
  <1>7. \A h : /\ Cardinality(OfHour(logCounted \cap Blocked, logRec, h)) \in Nat
               /\ Cardinality(OfHour((logCounted \cup {r}) \cap Blocked, logRec, h)) =
                    IF h0 = h /\ r \in Blocked THEN Cardinality(OfHour(logCounted \cap Blocked, logRec, h)) + 1
                    ELSE Cardinality(OfHour(logCounted \cap Blocked, logRec, h))
    <2>1. CASE r \in Blocked
      <3>1. (logCounted \cup {r}) \cap Blocked = (logCounted \cap Blocked) \cup {r}
        BY <2>1
      <3>2. logCounted \cap Blocked \in SUBSET Log!Records /\ r \notin logCounted \cap Blocked
        OBVIOUS
      <3> QED
        BY <2>1, <3>1, <3>2, OneMoreOfHour
    <2>2. CASE r \notin Blocked
      <3>1. (logCounted \cup {r}) \cap Blocked = logCounted \cap Blocked
        BY <2>2
      <3>2. logCounted \cap Blocked \in SUBSET Log!Records /\ r \notin logCounted \cap Blocked
        OBVIOUS
      <3> QED
        BY <2>2, <3>1, <3>2, OneMoreOfHour
    <2> QED
      BY <2>1, <2>2
  <1>8. \A h : OfHour(logCounted, logRec, h) = {} =>
          /\ Cardinality(OfHour(logCounted, logRec, h)) = 0
          /\ Cardinality(OfHour(logCounted \cap Blocked, logRec, h)) = 0
    <2>1. \A h : OfHour(logCounted, logRec, h) = {} => OfHour(logCounted \cap Blocked, logRec, h) = {}
      BY DEF OfHour
    <2> QED
      BY <2>1, FS_EmptySet
  <1>9. \A h \in DOMAIN b : h >= ws =>
          /\ b[h].queries = Cardinality(OfHour(logCounted, logRec, h))
          /\ b[h].blocked = Cardinality(OfHour(logCounted \cap Blocked, logRec, h))
    <2>1. Log!EmptyBucket.queries = 0 /\ Log!EmptyBucket.blocked = 0
      BY DEF Log!EmptyBucket
    <2> QED
      BY <1>1, <1>3, <1>5, <1>8, <2>1
  <1>10. \A h \in Log!Hours : h >= ws /\ h \notin DOMAIN b => OfHour(logCounted \cup {r}, logRec, h) = {}
    <2>1. \A h \in Log!Hours : h >= ws /\ h \notin DOMAIN b => OfHour(logCounted, logRec, h) = {} /\ h # h0
      BY <1>1, <1>3
    <2> QED
      BY <2>1 DEF OfHour
  <1>11. CASE h0 \notin DOMAIN b
    <2>1. ~(h0 >= ws)
      BY <1>3, <1>11
    <2>2. \A h \in Log!Hours : h >= ws => h # h0
      BY <2>1
    <2>3. BucketsCount(b, logCounted \cup {r}, logRec, ws)
      BY <1>3, <1>5, <1>6, <1>7, <1>9, <1>10, <2>2 DEF BucketsCount
    <2> QED
      BY <1>4, <1>11, <2>3
  <1>12. CASE h0 \in DOMAIN b
    <2> DEFINE x == b[h0].queries  y == b[h0].blocked
               z == [queries |-> x + 1, blocked |-> IF r \in Blocked THEN y + 1 ELSE y]
    <2>2. x \in Nat /\ y \in Nat /\ b[h0] = [queries |-> x, blocked |-> y]
      <3>1. b[h0] \in LogBuckets
        BY <1>3, <1>12
      <3> QED
        BY <3>1 DEF LogBuckets
    <2>3. q = [b EXCEPT ![h0] = z]
      <3> DEFINE v == IF r \in Blocked THEN y + 1 ELSE y
                 k == [queries |-> x + 1, blocked |-> y]
                 bk == [b EXCEPT ![h0] = k]
      <3>1. [b[h0] EXCEPT !.queries = x + 1] = k
        BY <2>2
      <3>2. [k EXCEPT !.blocked = v] = z
        OBVIOUS
      <3>3. [b EXCEPT ![h0].queries = x + 1] = bk
        BY <3>1, Zenon
      <3>4. bk[h0] = k /\ [bk EXCEPT ![h0] = z] = [b EXCEPT ![h0] = z]
        BY <1>3, <1>12
      <3>5. [bk EXCEPT ![h0].blocked = v] = [bk EXCEPT ![h0] = z]
        BY <3>2, <3>4, Zenon
      <3>6. q = [[b EXCEPT ![h0].queries = x + 1] EXCEPT ![h0].blocked = v]
        BY Zenon
      <3> QED
        BY <3>3, <3>4, <3>5, <3>6, Zenon
    <2>4. z \in LogBuckets /\ z.queries = x + 1 /\ z.blocked = IF r \in Blocked THEN y + 1 ELSE y
      BY <2>2 DEF LogBuckets
    <2> HIDE DEF z, q
    <2>1. /\ DOMAIN q = DOMAIN b /\ q \in [DOMAIN q -> LogBuckets]
          /\ \A h \in DOMAIN b : h # h0 => q[h] = b[h]
          /\ q[h0].queries = b[h0].queries + 1
          /\ q[h0].blocked = IF r \in Blocked THEN b[h0].blocked + 1 ELSE b[h0].blocked
      BY <1>3, <1>12, <2>3, <2>4
    <2>5. ASSUME NEW h \in Log!Hours, h >= ws, h \in DOMAIN q
          PROVE  /\ q[h].queries = Cardinality(OfHour(logCounted \cup {r}, logRec, h))
                 /\ q[h].blocked = Cardinality(OfHour((logCounted \cup {r}) \cap Blocked, logRec, h))
      <3>1. CASE h = h0
        BY <1>6, <1>7, <1>9, <1>12, <2>1, <2>5, <3>1
      <3>2. CASE h # h0
        BY <1>6, <1>7, <1>9, <2>1, <2>5, <3>2
      <3> QED
        BY <3>1, <3>2
    <2>6. BucketsCount(q, logCounted \cup {r}, logRec, ws)
      BY <1>5, <1>10, <2>1, <2>5 DEF BucketsCount
    <2> QED
      BY <1>4, <1>12, <2>6
  <1> QED
    BY <1>11, <1>12

\* The sum of the buckets of the window is the number of its records.
LEMMA SummaryFollows ==
  ASSUME BucketsCount(logBuckets, logCounted, logRec, Log!WindowStart), logCounted \subseteq Log!Records,
         logHour \in Log!Hours, \A r \in logCounted : logRec[r].hour \in Log!Hours
  PROVE  Log!SummaryIsExact
  <1> DEFINE ws == Log!WindowStart
             hs == {h \in DOMAIN logBuckets : h >= ws}
             hr == [r \in Log!Records |-> logRec[r].hour]
             inWindow == {r \in logCounted : logRec[r].hour >= ws}
  <1>1. /\ DOMAIN logBuckets \subseteq Log!Hours
        /\ \A h \in Log!Hours : h >= ws =>
             IF h \in DOMAIN logBuckets
             THEN /\ logBuckets[h].queries = Cardinality(OfHour(logCounted, logRec, h))
                  /\ logBuckets[h].blocked = Cardinality(OfHour(logCounted \cap Blocked, logRec, h))
             ELSE OfHour(logCounted, logRec, h) = {}
    BY DEF BucketsCount
  <1>2. IsFiniteSet(hs)
    <2>1. IsFiniteSet(Log!Hours)
      BY LogNumbers, ConsoleAssumption, FS_Interval DEF Log!Hours
    <2> QED
      BY <1>1, <2>1, FS_Subset
  <1>3. IsFiniteSet(logCounted) /\ IsFiniteSet(logCounted \cap Blocked)
    BY FiniteRecords
  <1>4. \A R \in SUBSET logCounted : \A h : OfHour(R, logRec, h) = {r \in R : hr[r] = h}
    BY DEF OfHour
  <1>5. \A r \in logCounted : hr[r] \in hs <=> logRec[r].hour >= ws
    BY <1>1 DEF OfHour
  <1> HIDE DEF hr, hs, ws
  <1>6. Log!Total("queries") = Cardinality(inWindow)
    <2> DEFINE b == [h \in hs |-> logBuckets[h]["queries"]]
    <2>1. \A h \in hs : b[h] = Cardinality({r \in logCounted : hr[r] = h})
      BY <1>1, <1>4 DEF hs
    <2>2. Log!Total("queries") = Log!SumFunctionOnSet(b, hs)
      BY DEF Log!Total, hs, ws
    <2> HIDE DEF b
    <2>3. Log!SumFunctionOnSet(b, hs) = Counting(logCounted, hr, hs)
      BY <1>2, <1>3, <2>1, SumCounts
    <2>4. {r \in logCounted : hr[r] \in hs} = inWindow
      BY <1>5
    <2> QED
      BY <2>2, <2>3, <2>4 DEF Counting
  <1>7. Log!Total("blocked") = Cardinality(inWindow \cap Blocked)
    <2> DEFINE b == [h \in hs |-> logBuckets[h]["blocked"]]
    <2>1. \A h \in hs : b[h] = Cardinality({r \in logCounted \cap Blocked : hr[r] = h})
      BY <1>1, <1>4 DEF hs
    <2>2. Log!Total("blocked") = Log!SumFunctionOnSet(b, hs)
      BY DEF Log!Total, hs, ws
    <2> HIDE DEF b
    <2>3. Log!SumFunctionOnSet(b, hs) = Counting(logCounted \cap Blocked, hr, hs)
      BY <1>2, <1>3, <2>1, SumCounts
    <2>4. {r \in logCounted \cap Blocked : hr[r] \in hs} = inWindow \cap Blocked
      BY <1>5
    <2> QED
      BY <2>2, <2>3, <2>4 DEF Counting
  <1> QED
    BY <1>6, <1>7, LogCardinality DEF Log!SummaryIsExact, Log!Summary, ws

-----------------------------------------------------------------------------
(* The writers and their files.                                            *)

WriterRec(m, c, q, st, b, d) == [mode |-> m, ch |-> c, req |-> q, stop |-> st, buf |-> b, day |-> d]
Disk == logGone \cup OnDisk(logFiles)
Days == 0 .. (MaxHour \div DayHours)

\* A writer with such fields keeps what it owes.
LEMMA WriterRecIs ==
  ASSUME NEW m, NEW c, NEW q, NEW st, NEW b, NEW d, NEW o, NEW D,
         m \in LogModes, c \in Seq(Log!Records), q \in Seq(Admins), st \in BOOLEAN,
         b \in Seq(Log!Records), d \in Days \cup {-1}, o \subseteq Log!Records,
         Len(c) <= QueueSize, Len(q) <= 1, d = -1 => b = <<>>, m = "none" => o = {},
         m = "done" => st /\ o \subseteq D, o \subseteq D \cup Log!ToSet(c) \cup Log!ToSet(b)
  PROVE  WriterKeeps(WriterRec(m, c, q, st, b, d), o, D)
  BY DEF WriterKeeps, WriterRec, LogWriterType, Days

\* The fields of a writer, and where the records it owes are.
LEMMA WriterFields ==
  ASSUME LogTypes, WritersKeep, NEW i \in Log!Writers
  PROVE  LET x == logWriters[i]
         IN  /\ x = WriterRec(x.mode, x.ch, x.req, x.stop, x.buf, x.day)
             /\ x.mode \in LogModes /\ x.ch \in Seq(Log!Records) /\ x.req \in Seq(Admins)
             /\ x.stop \in BOOLEAN /\ x.buf \in Seq(Log!Records) /\ x.day \in Days \cup {-1}
             /\ logOwed[i] \subseteq Log!Records
             /\ Len(x.ch) <= QueueSize /\ Len(x.req) <= 1
             /\ x.day = -1 => x.buf = <<>>
             /\ x.mode = "none" => logOwed[i] = {}
             /\ x.mode = "done" => x.stop /\ logOwed[i] \subseteq Disk
             /\ logOwed[i] \subseteq Disk \cup Log!ToSet(x.ch) \cup Log!ToSet(x.buf)
  <1>1. WriterKeeps(logWriters[i], logOwed[i], Disk)
    BY DEF WritersKeep, Disk
  <1> QED
    BY <1>1 DEF WriterKeeps, WriterRec, LogWriterType, Days

\* More on disk does no harm.
LEMMA DiskGrows ==
  ASSUME NEW x, NEW o, NEW D, NEW E, WriterKeeps(x, o, D), D \subseteq E
  PROVE  WriterKeeps(x, o, E)
  BY DEF WriterKeeps

\* Used is the number of the last writer made.
LEMMA MadeSoFar ==
  ASSUME NEW n \in 0 .. MaxWriters, \A i \in Log!Writers : Made(i) <=> i <= n
  PROVE  Log!Used = n
  <1>1. {i \in Log!Writers : logWriters[i].mode # "none"} = 1 .. n
    BY LogNumbers, ConsoleAssumption DEF Made, Log!Writers
  <1>2. Cardinality(1 .. n) = n
    BY FS_Interval
  <1> QED
    BY <1>1, <1>2, LogCardinality DEF Log!Used

\* A step of one writer leaves the others as they are.
LEMMA OneWriterMoves ==
  ASSUME LogTypes, WritersKeep, InOrder, NEW i \in Log!Writers, NEW x, Made(i) <=> x.mode # "none",
         logWriters'[i] = x, DOMAIN logWriters' = Log!Writers,
         \A j \in Log!Writers \ {i} : logWriters'[j] = logWriters[j],
         logOwed' = logOwed, Disk \subseteq Disk',
         WriterKeeps(x, logOwed[i], Disk')
  PROVE  WritersKeep' /\ InOrder' /\ \A j \in Log!Writers : Made(j) <=> Made(j)'
  <1>1. \A j \in Log!Writers : Made(j) <=> Made(j)'
    BY DEF Made
  <1>2. InOrder'
    BY <1>1 DEF InOrder
  <1>3. ASSUME NEW j \in Log!Writers PROVE WriterKeeps(logWriters'[j], logOwed'[j], Disk')
    <2>1. CASE j = i
      BY <2>1
    <2>2. CASE j # i
      <3>1. WriterKeeps(logWriters[j], logOwed[j], Disk)
        BY DEF WritersKeep, Disk
      <3>2. logWriters'[j] = logWriters[j]
        BY <2>2
      <3> QED
        BY <3>1, <3>2, DiskGrows
    <2> QED
      BY <2>1, <2>2
  <1>4. WritersKeep'
    BY <1>3 DEF WritersKeep, Disk
  <1> QED
    BY <1>1, <1>2, <1>4

\* The elements of a sequence.
LEMMA InSet ==
  ASSUME NEW S, NEW s \in Seq(S)
  PROVE  /\ Log!ToSet(s) = {s[i] : i \in 1 .. Len(s)}
         /\ Log!ToSet(s) \subseteq S
  BY DEF Log!ToSet

\* The empty sequence has none.
LEMMA NothingInSet ==
  Log!ToSet(<<>>) = {}
  BY DEF Log!ToSet

\* One more element at the end.
LEMMA SetOfAppend ==
  ASSUME NEW S, NEW s \in Seq(S), NEW r \in S
  PROVE  Append(s, r) \in Seq(S) /\ Log!ToSet(Append(s, r)) = Log!ToSet(s) \cup {r}
  <1> DEFINE t == Append(s, r)  n == Len(s)
  <1>1. t \in Seq(S) /\ Len(t) = n + 1 /\ (\A i \in 1 .. n : t[i] = s[i]) /\ t[n + 1] = r /\ n \in Nat
    OBVIOUS
  <1>2. Log!ToSet(t) = {t[i] : i \in 1 .. n + 1} /\ Log!ToSet(s) = {s[i] : i \in 1 .. n}
    BY <1>1, InSet
  <1>3. 1 .. n + 1 = (1 .. n) \cup {n + 1}
    BY <1>1
  <1> HIDE DEF t, n
  <1> QED
    BY <1>1, <1>2, <1>3 DEF t

\* A sequence of one element.
LEMMA SetOfOne ==
  ASSUME NEW S, NEW r \in S
  PROVE  <<>> \in Seq(S) /\ Append(<<>>, r) \in Seq(S) /\ Log!ToSet(Append(<<>>, r)) = {r}
  <1>1. PICK e : e = <<>>
    OBVIOUS
  <1>2. e \in Seq(S)
    BY <1>1
  <1>3. Log!ToSet(e) = {}
    BY <1>1, NothingInSet
  <1>4. Append(e, r) \in Seq(S) /\ Log!ToSet(Append(e, r)) = Log!ToSet(e) \cup {r}
    BY <1>2, SetOfAppend
  <1> QED
    BY <1>1, <1>2, <1>3, <1>4

\* Two sequences, one after the other.
LEMMA SetOfJoin ==
  ASSUME NEW S, NEW s \in Seq(S), NEW t \in Seq(S)
  PROVE  s \o t \in Seq(S) /\ Log!ToSet(s \o t) = Log!ToSet(s) \cup Log!ToSet(t)
  <1> DEFINE u == s \o t  n == Len(s)  m == Len(t)
  <1>1. /\ u \in Seq(S) /\ Len(u) = n + m /\ n \in Nat /\ m \in Nat
        /\ \A i \in 1 .. n + m : u[i] = IF i <= n THEN s[i] ELSE t[i - n]
    BY ConcatProperties
  <1>2. Log!ToSet(u) = {u[i] : i \in 1 .. n + m} /\ Log!ToSet(s) = {s[i] : i \in 1 .. n}
        /\ Log!ToSet(t) = {t[i] : i \in 1 .. m}
    BY <1>1, InSet
  <1> HIDE DEF u, n, m
  <1>3. ASSUME NEW i \in 1 .. n PROVE s[i] \in Log!ToSet(u)
    <2>1. i \in 1 .. n + m /\ u[i] = s[i]
      BY <1>1
    <2> QED
      BY <1>2, <2>1
  <1>4. ASSUME NEW i \in 1 .. m PROVE t[i] \in Log!ToSet(u)
    <2>1. n + i \in 1 .. n + m /\ ~(n + i <= n) /\ (n + i) - n = i
      BY <1>1
    <2>2. u[n + i] = t[i]
      BY <1>1, <2>1
    <2> QED
      BY <1>2, <2>1, <2>2
  <1>5. ASSUME NEW i \in 1 .. n + m PROVE u[i] \in Log!ToSet(s) \cup Log!ToSet(t)
    <2>1. CASE i <= n
      <3>1. i \in 1 .. n /\ u[i] = s[i]
        BY <1>1, <2>1
      <3> QED
        BY <1>2, <3>1
    <2>2. CASE ~(i <= n)
      <3>1. i - n \in 1 .. m /\ u[i] = t[i - n]
        BY <1>1, <2>2
      <3> QED
        BY <1>2, <3>1
    <2> QED
      BY <2>1, <2>2
  <1> QED
    BY <1>1, <1>2, <1>3, <1>4, <1>5 DEF u

\* The first element and the others.
LEMMA SetOfTail ==
  ASSUME NEW S, NEW s \in Seq(S), s # <<>>
  PROVE  /\ Head(s) \in S /\ Tail(s) \in Seq(S) /\ Len(Tail(s)) = Len(s) - 1
         /\ Log!ToSet(s) = {Head(s)} \cup Log!ToSet(Tail(s))
  <1> DEFINE t == Tail(s)  n == Len(s)
  <1>1. /\ n \in Nat /\ n >= 1 /\ t \in Seq(S) /\ Len(t) = n - 1 /\ Head(s) = s[1]
        /\ \A i \in 1 .. n - 1 : t[i] = s[i + 1]
    OBVIOUS
  <1>2. Log!ToSet(s) = {s[i] : i \in 1 .. n} /\ Log!ToSet(t) = {t[i] : i \in 1 .. n - 1}
    BY <1>1, InSet
  <1> HIDE DEF t, n
  <1>3. ASSUME NEW i \in 1 .. n, i # 1 PROVE s[i] \in Log!ToSet(t)
    <2>1. i - 1 \in 1 .. n - 1 /\ (i - 1) + 1 = i
      BY <1>1, <1>3
    <2>2. t[i - 1] = s[i]
      BY <1>1, <2>1
    <2> QED
      BY <1>2, <2>1, <2>2
  <1>4. ASSUME NEW i \in 1 .. n - 1 PROVE t[i] \in Log!ToSet(s)
    <2>1. i + 1 \in 1 .. n
      BY <1>1
    <2> QED
      BY <1>1, <1>2, <2>1
  <1>5. 1 \in 1 .. n /\ Head(s) \in S /\ Head(s) \in Log!ToSet(s)
    BY <1>1, <1>2 DEF n
  <1> QED
    BY <1>1, <1>2, <1>3, <1>4, <1>5 DEF t, n

\* A buffer appended to the file of a day is on disk.
LEMMA Flush ==
  ASSUME NEW f \in LogFileType, NEW d \in Days, NEW s \in Seq(Log!Records)
  PROVE  LET g == [f EXCEPT ![d] = @ \o s]
         IN  g \in LogFileType /\ OnDisk(g) = OnDisk(f) \cup Log!ToSet(s)
  <1> DEFINE g == [f EXCEPT ![d] = @ \o s]
  <1>1. f[d] \o s \in Seq(Log!Records) /\ Log!ToSet(f[d] \o s) = Log!ToSet(f[d]) \cup Log!ToSet(s)
    BY SetOfJoin DEF LogFileType, Days
  <1>2. /\ DOMAIN f = Days /\ DOMAIN g = Days /\ g \in LogFileType
        /\ g[d] = f[d] \o s /\ \A e \in Days \ {d} : g[e] = f[e]
    BY <1>1 DEF LogFileType, Days
  <1> HIDE DEF g
  <1>3. OnDisk(g) = OnDisk(f) \cup Log!ToSet(s)
    BY <1>1, <1>2 DEF OnDisk
  <1> QED
    BY <1>2, <1>3 DEF g

\* flush puts the buffer of a writer on disk.
LEMMA FlushedIs ==
  ASSUME LogTypes, WritersKeep, NEW i \in Log!Writers
  PROVE  /\ Log!Flushed(i) \in LogFileType
         /\ OnDisk(Log!Flushed(i)) = OnDisk(logFiles) \cup Log!ToSet(logWriters[i].buf)
  <1> DEFINE x == logWriters[i]
  <1>1. x.buf \in Seq(Log!Records) /\ x.day \in Days \cup {-1} /\ (x.day = -1 => x.buf = <<>>)
    BY WriterFields
  <1>2. Days \subseteq Nat /\ \A d \in Days : ~(d < 0)
    BY LogNumbers, ConsoleAssumption DEF Days
  <1>3. logFiles \in LogFileType
    BY DEF LogTypes
  <1>4. CASE x.day = -1
    BY <1>1, <1>3, <1>4, NothingInSet DEF Log!Flushed
  <1>5. CASE x.day \in Days
    <2>1. Log!Flushed(i) = [logFiles EXCEPT ![x.day] = @ \o x.buf]
      BY <1>2, <1>5 DEF Log!Flushed
    <2> HIDE DEF x
    <2>2. /\ [logFiles EXCEPT ![x.day] = @ \o x.buf] \in LogFileType
          /\ OnDisk([logFiles EXCEPT ![x.day] = @ \o x.buf]) = OnDisk(logFiles) \cup Log!ToSet(x.buf)
      BY <1>1, <1>3, <1>5, Flush
    <2> QED
      BY <2>1, <2>2 DEF x
  <1> QED
    BY <1>1, <1>4, <1>5

\* The hour lies in a day that has a file.
LEMMA TodayIsADay ==
  ASSUME logHour \in Log!Hours
  PROVE  Log!Day \in Days
  BY LogNumbers, ConsoleAssumption DEF Log!Day, Log!Hours, Days

-----------------------------------------------------------------------------
(* The steps of the log, by what they leave alone.                         *)

StatsVars == <<logHour, logBuckets, logCounted>>
RingVars == <<logCfg, logRing, logRecent>>

LogStats == CountedOnce /\ BucketsCount(logBuckets, logCounted, logRec, Log!WindowStart)
LogRing == logRing.max = logCfg.max /\ RingIsRecent(logRing, logRecent)

\* The numbers of a state.
LEMMA WindowNumbers ==
  ASSUME LogTypes
  PROVE  /\ Log!WindowStart \in Int /\ logHour \in 0 .. MaxHour
         /\ Log!Hours \subseteq Nat /\ Log!Records \subseteq Nat \ {0}
         /\ Log!Writers = 1 .. MaxWriters /\ 0 \notin Log!Writers
         /\ 0 .. MaxWriters = {0} \cup Log!Writers
  BY LogNumbers, ConsoleAssumption DEF LogTypes, Log!WindowStart, Log!Hours, Log!Records, Log!Writers

\* Steps that count nothing keep the statistics.
LEMMA StatsStay ==
  ASSUME LogTypes, LogStats, UNCHANGED StatsVars,
         \A r \in logCounted : logRec'[r].hour = logRec[r].hour /\ logRec'[r].pc \in {"enqueue", "done"}
  PROVE  LogStats'
  <1>1. /\ CountedOnce' /\ Log!WindowStart' = Log!WindowStart
        /\ logBuckets' = logBuckets /\ logCounted' = logCounted
    BY DEF LogStats, CountedOnce, StatsVars, Log!WindowStart
  <1>2. Log!WindowStart \in Int /\ Log!WindowStart >= Log!WindowStart
    BY WindowNumbers
  <1>3. BucketsCount(logBuckets, logCounted, logRec', Log!WindowStart)
    BY <1>2, SameBuckets DEF LogStats
  <1> QED
    BY <1>1, <1>3 DEF LogStats

\* ... in particular those that move no record.
LEMMA StatsStayHere ==
  ASSUME LogTypes, LogStats, UNCHANGED StatsVars, UNCHANGED logRec
  PROVE  LogStats'
  <1>1. \A r \in logCounted : logRec'[r].hour = logRec[r].hour /\ logRec'[r].pc \in {"enqueue", "done"}
    BY DEF LogStats, CountedOnce
  <1> QED
    BY <1>1, StatsStay

\* Steps that add nothing keep the ring.
LEMMA RingStays ==
  ASSUME LogRing, UNCHANGED RingVars
  PROVE  LogRing'
  BY DEF LogRing, RingVars

\* Steps that move no writer keep the writers.
LEMMA WritersStay ==
  ASSUME WritersKeep, InOrder, UNCHANGED <<logWriters, logOwed, logFiles, logGone>>
  PROVE  WritersKeep' /\ InOrder' /\ \A j \in Log!Writers : Made(j) <=> Made(j)'
  BY DEF WritersKeep, InOrder, Made

\* A record moves on: its references stay.
LEMMA RecMoves ==
  ASSUME LogTypes, NEW r \in Log!Records, NEW pc \in {"idle", "ring", "stat", "enqueue", "done"},
         logRec' = [logRec EXCEPT ![r].pc = pc]
  PROVE  /\ logRec' \in [Log!Records -> LogRecType]
         /\ \A s \in Log!Records : logRec'[s].hour = logRec[s].hour /\ logRec'[s].w = logRec[s].w
         /\ logRec'[r].pc = pc /\ \A s \in Log!Records \ {r} : logRec'[s] = logRec[s]
  BY DEF LogTypes, LogRecType

\* The same references, to writers that are still there.
LEMMA ReferredStays ==
  ASSUME LogTypes, Referred, \A j \in Log!Writers : Made(j) <=> Made(j)',
         logWriter' \in {0, logWriter}, \A s \in Log!Records : logRec'[s].w = logRec[s].w
  PROVE  Referred'
  <1>1. logWriter \in 0 .. MaxWriters /\ \A s \in Log!Records : logRec[s].w \in 0 .. MaxWriters
    BY DEF LogTypes, LogRecType
  <1>2. 0 .. MaxWriters = {0} \cup Log!Writers
    BY WindowNumbers
  <1> QED
    BY <1>1, <1>2 DEF Referred, Made

(* --- Record ---                                                          *)

\* Record takes its references.
LEMMA SnapshotKeeps ==
  ASSUME LogInv, NEW r \in Log!Records, Log!Snapshot(r)
  PROVE  LogInv'
  <1> USE DEF LogInv
  <1>1. /\ logRec[r].pc = "idle"
        /\ UNCHANGED <<logHour, logCfg, logMu, logRing, logBuckets, logWriter, logFileOK, logWriters,
                       logFiles, logAdm, logRecent, logCounted, logOwed, logGone>>
    BY DEF Log!Snapshot
  <1> DEFINE x == IF logCfg.enabled
                  THEN [pc |-> "ring", hour |-> logHour, w |-> IF logFileOK THEN logWriter ELSE 0]
                  ELSE [pc |-> "done", hour |-> 0, w |-> 0]
  <1>2. logRec' = [logRec EXCEPT ![r] = x]
    BY DEF Log!Snapshot
  <1>3. x \in LogRecType /\ x.w \in {0, logWriter}
    BY WindowNumbers, LogNumbers, ConsoleAssumption DEF LogTypes, LogRecType, Log!Hours
  <1> HIDE DEF x
  <1>4. /\ logRec' \in [Log!Records -> LogRecType] /\ logRec'[r] = x
        /\ \A s \in Log!Records \ {r} : logRec'[s] = logRec[s]
    BY <1>2, <1>3 DEF LogTypes
  <1>5. LogTypes'
    BY <1>1, <1>4 DEF LogTypes
  <1>6. LogStats'
    <2>1. r \notin logCounted /\ logCounted \subseteq Log!Records
      BY <1>1 DEF CountedOnce
    <2>2. \A s \in logCounted : logRec'[s].hour = logRec[s].hour /\ logRec'[s].pc \in {"enqueue", "done"}
      BY <1>4, <2>1 DEF CountedOnce
    <2> QED
      BY <1>1, <2>2, StatsStay DEF LogStats, StatsVars
  <1>7. LogRing'
    BY <1>1, RingStays DEF LogRing, RingVars
  <1>8. WritersKeep' /\ InOrder' /\ \A j \in Log!Writers : Made(j) <=> Made(j)'
    BY <1>1, WritersStay
  <1>9. Referred'
    <2>1. logWriter' = logWriter /\ logWriters' = logWriters
      BY <1>1
    <2>2. \A s \in Log!Records : logRec'[s].w # 0 => Made(logRec'[s].w)
      BY <1>3, <1>4 DEF Referred
    <2> QED
      BY <2>1, <2>2 DEF Referred, Made
  <1>10. Addressed'
    <2>1. x.pc # "enqueue"
      BY DEF x
    <2> QED
      BY <1>4, <2>1 DEF Addressed
  <1> QED
    BY <1>5, <1>6, <1>7, <1>8, <1>9, <1>10 DEF LogStats, LogRing

\* Record adds to the ring.
LEMMA AppendRingKeeps ==
  ASSUME LogInv, NEW r \in Log!Records, Log!AppendRing(r)
  PROVE  LogInv'
  <1> USE DEF LogInv
  <1>1. /\ logRec[r].pc = "ring" /\ logRec' = [logRec EXCEPT ![r].pc = "stat"]
        /\ logRing' = Log!Add(logRing, r) /\ logRecent' = Log!Newest(Append(logRecent, r), logRing.max)
        /\ UNCHANGED <<logHour, logCfg, logMu, logBuckets, logWriter, logFileOK, logWriters,
                       logFiles, logAdm, logCounted, logOwed, logGone>>
    BY DEF Log!AppendRing, Log!RStep
  <1>2. /\ logRec' \in [Log!Records -> LogRecType]
        /\ \A s \in Log!Records : logRec'[s].hour = logRec[s].hour /\ logRec'[s].w = logRec[s].w
        /\ logRec'[r].pc = "stat" /\ \A s \in Log!Records \ {r} : logRec'[s] = logRec[s]
    BY <1>1, RecMoves
  <1>3. LogTypes'
    BY <1>1, <1>2 DEF LogTypes
  <1>4. LogStats'
    <2>1. r \notin logCounted /\ logCounted \subseteq Log!Records
      BY <1>1 DEF CountedOnce
    <2>2. \A s \in logCounted : logRec'[s].hour = logRec[s].hour /\ logRec'[s].pc \in {"enqueue", "done"}
      BY <1>2, <2>1 DEF CountedOnce
    <2> QED
      BY <1>1, <2>2, StatsStay DEF LogStats, StatsVars
  <1>5. LogRing'
    <2>1. r \in Nat
      BY WindowNumbers
    <2> QED
      BY <1>1, <2>1, RingAdds DEF LogRing
  <1>6. WritersKeep' /\ InOrder' /\ \A j \in Log!Writers : Made(j) <=> Made(j)'
    BY <1>1, WritersStay
  <1>7. Referred'
    BY <1>1, <1>2, <1>6, ReferredStays
  <1>9. Addressed'
    BY <1>2 DEF Addressed
  <1> QED
    BY <1>3, <1>4, <1>5, <1>6, <1>7, <1>9 DEF LogStats, LogRing

\* Record counts in the statistics.
LEMMA RecordStatsKeeps ==
  ASSUME LogInv, NEW r \in Log!Records, Log!RecordStats(r)
  PROVE  LogInv'
  <1> USE DEF LogInv
  <1>1. /\ logRec[r].pc = "stat"
        /\ logRec' = [logRec EXCEPT ![r].pc = IF logRec[r].w = 0 THEN "done" ELSE "enqueue"]
        /\ logBuckets' = Log!Count(r) /\ logCounted' = logCounted \cup {r}
        /\ UNCHANGED <<logHour, logCfg, logMu, logRing, logWriter, logFileOK, logWriters,
                       logFiles, logAdm, logRecent, logOwed, logGone>>
    BY DEF Log!RecordStats, Log!RStep
  <1>2. /\ logRec' \in [Log!Records -> LogRecType]
        /\ \A s \in Log!Records : logRec'[s].hour = logRec[s].hour /\ logRec'[s].w = logRec[s].w
        /\ logRec'[r].pc \in {"enqueue", "done"} /\ \A s \in Log!Records \ {r} : logRec'[s] = logRec[s]
    <2> DEFINE pc == IF logRec[r].w = 0 THEN "done" ELSE "enqueue"
    <2>1. pc \in {"enqueue", "done"} /\ logRec' = [logRec EXCEPT ![r].pc = pc]
      BY <1>1
    <2> HIDE DEF pc
    <2> QED
      BY <2>1, RecMoves
  <1>3. LogTypes'
    BY <1>1, <1>2 DEF LogTypes
  <1>4. LogStats'
    <2>1. r \notin logCounted /\ logCounted \subseteq Log!Records
      BY <1>1 DEF CountedOnce
    <2>2. logRec[r].hour \in Log!Hours /\ logHour \in Log!Hours
      BY DEF LogTypes, LogRecType
    <2>3. BucketsCount(logBuckets', logCounted', logRec, Log!WindowStart)
      BY <1>1, <2>1, <2>2, CountCounts
    <2>4. /\ Log!WindowStart' = Log!WindowStart /\ Log!WindowStart \in Int
          /\ Log!WindowStart >= Log!WindowStart
      BY <1>1, WindowNumbers DEF Log!WindowStart
    <2>5. \A s \in logCounted' : logRec'[s].hour = logRec[s].hour
      BY <1>1, <1>2, <2>1
    <2>6. BucketsCount(logBuckets', logCounted', logRec', Log!WindowStart)
      BY <2>3, <2>4, <2>5, SameBuckets
    <2>7. CountedOnce'
      BY <1>1, <1>2, <2>1 DEF CountedOnce
    <2> QED
      BY <2>4, <2>6, <2>7 DEF LogStats
  <1>5. LogRing'
    BY <1>1, RingStays DEF LogRing, RingVars
  <1>6. WritersKeep' /\ InOrder' /\ \A j \in Log!Writers : Made(j) <=> Made(j)'
    BY <1>1, WritersStay
  <1>7. Referred'
    BY <1>1, <1>2, <1>6, ReferredStays
  <1>9. Addressed'
    <2> DEFINE pc == IF logRec[r].w = 0 THEN "done" ELSE "enqueue"
    <2>1. pc \in {"enqueue", "done"} /\ logRec' = [logRec EXCEPT ![r].pc = pc]
      BY <1>1
    <2>2. logRec'[r].pc = pc
      <3> HIDE DEF pc
      <3> QED
        BY <2>1, RecMoves
    <2> QED
      BY <1>2, <2>2 DEF Addressed
  <1> QED
    BY <1>3, <1>4, <1>5, <1>6, <1>7, <1>9 DEF LogStats, LogRing

\* Record hands over to the writer, which accepts it or drops it.
LEMMA EnqueueKeeps ==
  ASSUME LogInv, NEW r \in Log!Records, Log!Enqueue(r)
  PROVE  LogInv'
  <1> USE DEF LogInv
  <1> DEFINE i == logRec[r].w  x == logWriters[i]  taken == Len(x.ch) < QueueSize
  <1>1. /\ logRec[r].pc = "enqueue" /\ logRec' = [logRec EXCEPT ![r].pc = "done"]
        /\ logWriters' = IF taken THEN [logWriters EXCEPT ![i].ch = Append(@, r)] ELSE logWriters
        /\ logOwed' = IF taken /\ ~x.stop THEN [logOwed EXCEPT ![i] = @ \cup {r}] ELSE logOwed
        /\ UNCHANGED <<logHour, logCfg, logMu, logRing, logBuckets, logWriter, logFileOK,
                       logFiles, logAdm, logRecent, logCounted, logGone>>
    BY DEF Log!Enqueue, Log!RStep
  <1>2. /\ logRec' \in [Log!Records -> LogRecType]
        /\ \A s \in Log!Records : logRec'[s].hour = logRec[s].hour /\ logRec'[s].w = logRec[s].w
        /\ logRec'[r].pc = "done" /\ \A s \in Log!Records \ {r} : logRec'[s] = logRec[s]
    BY <1>1, RecMoves
  <1>3. i \in Log!Writers /\ Made(i)
    <2>1. i # 0
      BY <1>1 DEF Addressed
    <2> QED
      BY <2>1, WindowNumbers DEF LogTypes, LogRecType, Referred
  <1>4. LogStats'
    <2>1. \A s \in logCounted : logRec'[s].hour = logRec[s].hour /\ logRec'[s].pc \in {"enqueue", "done"}
      BY <1>2 DEF CountedOnce
    <2> QED
      BY <1>1, <2>1, StatsStay DEF LogStats, StatsVars
  <1>5. LogRing'
    BY <1>1, RingStays DEF LogRing, RingVars
  <1>6. Disk' = Disk
    BY <1>1 DEF Disk
  <1>7. LogTypes' /\ WritersKeep' /\ InOrder' /\ \A j \in Log!Writers : Made(j) <=> Made(j)'
    <2>1. CASE ~taken
      <3>1. WritersKeep' /\ InOrder' /\ \A j \in Log!Writers : Made(j) <=> Made(j)'
        BY <1>1, <2>1, WritersStay
      <3> QED
        BY <1>1, <1>2, <2>1, <3>1 DEF LogTypes
    <2>2. CASE taken
      <3> HIDE DEF i
      <3>1. /\ x = WriterRec(x.mode, x.ch, x.req, x.stop, x.buf, x.day)
            /\ x.mode \in LogModes /\ x.ch \in Seq(Log!Records) /\ x.req \in Seq(Admins)
            /\ x.stop \in BOOLEAN /\ x.buf \in Seq(Log!Records) /\ x.day \in Days \cup {-1}
            /\ logOwed[i] \subseteq Log!Records
            /\ Len(x.ch) <= QueueSize /\ Len(x.req) <= 1
            /\ x.day = -1 => x.buf = <<>>
            /\ x.mode = "none" => logOwed[i] = {}
            /\ x.mode = "done" => x.stop /\ logOwed[i] \subseteq Disk
            /\ logOwed[i] \subseteq Disk \cup Log!ToSet(x.ch) \cup Log!ToSet(x.buf)
        BY <1>3, WriterFields
      <3> DEFINE c == Append(x.ch, r)  y == WriterRec(x.mode, c, x.req, x.stop, x.buf, x.day)
      <3>2. /\ logWriters'[i] = y /\ DOMAIN logWriters' = Log!Writers
            /\ \A j \in Log!Writers \ {i} : logWriters'[j] = logWriters[j]
        BY <1>1, <1>3, <2>2, <3>1 DEF LogTypes, WriterRec
      <3>3. c \in Seq(Log!Records) /\ Len(c) = Len(x.ch) + 1 /\ Log!ToSet(c) = Log!ToSet(x.ch) \cup {r}
        BY <3>1, SetOfAppend
      <3>4. Len(c) <= QueueSize
        BY <2>2, <3>1, <3>3, LogNumbers, ConsoleAssumption
      <3>5. x.mode # "none"
        BY <1>3 DEF Made
      <3> DEFINE o == logOwed'[i]
      <3>6. /\ o \subseteq logOwed[i] \cup {r} /\ (x.stop => o = logOwed[i])
            /\ DOMAIN logOwed' = Log!Writers /\ \A j \in Log!Writers \ {i} : logOwed'[j] = logOwed[j]
        BY <1>1, <1>3 DEF LogTypes
      <3> HIDE DEF c, o, x
      <3>7. WriterKeeps(y, o, Disk)
        <4>1. /\ o \subseteq Log!Records /\ (x.mode = "done" => x.stop /\ o \subseteq Disk)
              /\ o \subseteq Disk \cup Log!ToSet(c) \cup Log!ToSet(x.buf)
          BY <3>1, <3>3, <3>6
        <4> QED
          BY <3>1, <3>3, <3>4, <3>5, <4>1, WriterRecIs
      <3>8. \A j \in Log!Writers : Made(j) <=> Made(j)'
        <4>1. y.mode = x.mode
          BY DEF WriterRec
        <4> QED
          BY <3>2, <3>5, <4>1, <1>3 DEF Made
      <3>9. InOrder'
        BY <3>8 DEF InOrder
      <3>10. WritersKeep'
        <4>1. ASSUME NEW j \in Log!Writers PROVE WriterKeeps(logWriters'[j], logOwed'[j], Disk)
          <5>1. CASE j = i
            BY <3>2, <3>7, <5>1 DEF o
          <5>2. CASE j # i
            BY <3>2, <3>6, <5>2 DEF WritersKeep, Disk
          <5> QED
            BY <5>1, <5>2
        <4> QED
          BY <1>6, <4>1 DEF WritersKeep, Disk
      <3> QED
        BY <1>1, <1>2, <3>2, <3>6, <3>8, <3>9, <3>10 DEF LogTypes
    <2> QED
      BY <2>1, <2>2
  <1>8. Referred'
    BY <1>1, <1>2, <1>7, ReferredStays
  <1>9. Addressed'
    BY <1>1, <1>2 DEF Addressed
  <1> QED
    BY <1>4, <1>5, <1>7, <1>8, <1>9 DEF LogStats, LogRing

(* --- the writer goroutine ---                                            *)

\* A step of one writer changes nothing else than its queue, its buffer and the
\* files, and takes nothing from the disk that is not recorded as gone.
LEMMA WriterStepKeeps ==
  ASSUME LogInv, NEW i \in Log!Writers, NEW x, Made(i) <=> x.mode # "none",
         logWriters'[i] = x, DOMAIN logWriters' = Log!Writers,
         \A j \in Log!Writers \ {i} : logWriters'[j] = logWriters[j],
         WriterKeeps(x, logOwed[i], Disk'), Disk \subseteq Disk',
         logFiles' \in LogFileType, logGone' \subseteq Log!Records,
         logAdm' \in [Admins -> LogAdmType],
         UNCHANGED <<logHour, logCfg, logRing, logBuckets, logWriter, logRec, logRecent,
                     logCounted, logOwed>>
  PROVE  LogInv'
  <1> USE DEF LogInv
  <1>1. LogTypes'
    BY DEF LogTypes
  <1>2. LogStats'
    BY StatsStayHere DEF LogStats, StatsVars
  <1>3. LogRing'
    BY RingStays DEF LogRing, RingVars
  <1>4. WritersKeep' /\ InOrder' /\ \A j \in Log!Writers : Made(j) <=> Made(j)'
    BY OneWriterMoves
  <1>5. Referred'
    BY <1>4, ReferredStays
  <1>6. Addressed'
    BY DEF Addressed
  <1> QED
    BY <1>1, <1>2, <1>3, <1>4, <1>5, <1>6 DEF LogStats, LogRing

\* cleanup deletes old files: what was in them is gone, not lost.
LEMMA CleanupKeeps ==
  ASSUME LogInv, NEW i \in Log!Writers, Log!Cleanup(i)
  PROVE  LogInv'
  <1> DEFINE old == {d \in DOMAIN logFiles : d * DayHours < logHour - logCfg.days * DayHours}
             x == logWriters[i]  y == WriterRec("run", x.ch, x.req, x.stop, x.buf, x.day)
  <1>1. /\ logWriters[i].mode = "start" /\ logWriters' = [logWriters EXCEPT ![i].mode = "run"]
        /\ logFiles' = [d \in DOMAIN logFiles |-> IF d \in old THEN <<>> ELSE logFiles[d]]
        /\ logGone' = logGone \cup UNION {Log!ToSet(logFiles[d]) : d \in old}
        /\ UNCHANGED <<logHour, logCfg, logMu, logRing, logBuckets, logWriter, logFileOK, logRec,
                       logAdm, logRecent, logCounted, logOwed>>
    BY DEF Log!Cleanup, Log!WriterOnly
  <1>2. /\ LogTypes /\ WritersKeep /\ Made(i)
        /\ logFiles \in [Days -> Seq(Log!Records)] /\ logAdm \in [Admins -> LogAdmType]
    BY <1>1 DEF LogInv, LogTypes, Made, LogFileType, Days
  <1>3. /\ x = WriterRec(x.mode, x.ch, x.req, x.stop, x.buf, x.day)
        /\ x.mode \in LogModes /\ x.ch \in Seq(Log!Records) /\ x.req \in Seq(Admins)
        /\ x.stop \in BOOLEAN /\ x.buf \in Seq(Log!Records) /\ x.day \in Days \cup {-1}
        /\ logOwed[i] \subseteq Log!Records /\ Len(x.ch) <= QueueSize /\ Len(x.req) <= 1
        /\ x.day = -1 => x.buf = <<>>
        /\ logOwed[i] \subseteq Disk \cup Log!ToSet(x.ch) \cup Log!ToSet(x.buf)
    BY <1>2, WriterFields
  <1>4. /\ logWriters'[i] = y /\ DOMAIN logWriters' = Log!Writers
        /\ \A j \in Log!Writers \ {i} : logWriters'[j] = logWriters[j]
    BY <1>1, <1>2, <1>3 DEF LogTypes, WriterRec
  <1> HIDE DEF old, x
  <1>5. old \subseteq Days
    BY <1>2 DEF old
  <1>6. /\ logFiles' \in LogFileType
        /\ \A d \in Days : logFiles'[d] = IF d \in old THEN <<>> ELSE logFiles[d]
        /\ DOMAIN logFiles' = Days /\ DOMAIN logFiles = Days
    BY <1>1, <1>2 DEF LogFileType, Days
  <1>7. Disk \subseteq Disk'
    BY <1>1, <1>5, <1>6 DEF Disk, OnDisk
  <1>8. logGone' \subseteq Log!Records
    <2>1. \A d \in old : Log!ToSet(logFiles[d]) \subseteq Log!Records
      BY <1>2, <1>5, InSet
    <2> QED
      BY <1>1, <1>2, <2>1 DEF LogTypes
  <1>9. WriterKeeps(y, logOwed[i], Disk') /\ y.mode # "none"
    <2>1. logOwed[i] \subseteq Disk' \cup Log!ToSet(x.ch) \cup Log!ToSet(x.buf)
      BY <1>3, <1>7
    <2>2. WriterKeeps(y, logOwed[i], Disk')
      BY <1>3, <2>1, WriterRecIs DEF LogModes
    <2> QED
      BY <2>2 DEF WriterRec
  <1> QED
    BY <1>1, <1>2, <1>4, <1>6, <1>7, <1>8, <1>9, WriterStepKeeps

\* writeRecord moves a record from the queue to the buffer, the file or away.
LEMMA WriteRecordKeeps ==
  ASSUME LogInv, NEW i \in Log!Writers, Log!WriteRecord(i)
  PROVE  LogInv'
  <1> DEFINE x == logWriters[i]  r == Head(x.ch)  day == Log!Day  sameDay == x.day = day
             buf == Append(IF sameDay THEN x.buf ELSE <<>>, r)
             before == IF sameDay THEN logFiles ELSE Log!Flushed(i)
             full == Len(buf) >= FlushLines
  <1>1. /\ x.mode = "run" /\ x.ch # <<>>
        /\ UNCHANGED <<logHour, logCfg, logMu, logRing, logBuckets, logWriter, logFileOK, logRec,
                       logAdm, logRecent, logCounted, logOwed>>
        /\ \/ /\ logFiles' = IF full THEN [before EXCEPT ![day] = @ \o buf] ELSE before
              /\ logWriters' = [logWriters EXCEPT ![i].ch = Tail(@), ![i].day = day,
                                                  ![i].buf = IF full THEN <<>> ELSE buf]
              /\ UNCHANGED logGone
           \/ /\ ~sameDay
              /\ logFiles' = before /\ logGone' = logGone \cup {r}
              /\ logWriters' = [logWriters EXCEPT ![i].ch = Tail(@), ![i].day = -1, ![i].buf = <<>>]
    BY Zenon DEF Log!WriteRecord, Log!WriterOnly
  <1>2. /\ LogTypes /\ WritersKeep /\ Made(i) /\ day \in Days
        /\ logFiles \in LogFileType /\ logAdm \in [Admins -> LogAdmType] /\ logGone \subseteq Log!Records
    BY <1>1, TodayIsADay DEF LogInv, LogTypes, Made
  <1>3. /\ x = WriterRec(x.mode, x.ch, x.req, x.stop, x.buf, x.day)
        /\ x.mode \in LogModes /\ x.ch \in Seq(Log!Records) /\ x.req \in Seq(Admins)
        /\ x.stop \in BOOLEAN /\ x.buf \in Seq(Log!Records) /\ x.day \in Days \cup {-1}
        /\ logOwed[i] \subseteq Log!Records /\ Len(x.ch) <= QueueSize /\ Len(x.req) <= 1
        /\ x.day = -1 => x.buf = <<>>
        /\ logOwed[i] \subseteq Disk \cup Log!ToSet(x.ch) \cup Log!ToSet(x.buf)
    BY <1>2, WriterFields
  <1>4. /\ r \in Log!Records /\ Tail(x.ch) \in Seq(Log!Records) /\ Len(Tail(x.ch)) <= QueueSize
        /\ Log!ToSet(x.ch) = {r} \cup Log!ToSet(Tail(x.ch))
    <2>1. /\ r \in Log!Records /\ Tail(x.ch) \in Seq(Log!Records) /\ Len(Tail(x.ch)) = Len(x.ch) - 1
          /\ Log!ToSet(x.ch) = {r} \cup Log!ToSet(Tail(x.ch))
      BY <1>1, <1>3, SetOfTail
    <2>2. Len(x.ch) \in Nat /\ QueueSize \in Nat
      BY <1>3, LogNumbers, ConsoleAssumption
    <2> QED
      BY <1>3, <2>1, <2>2
  <1>5. /\ before \in LogFileType /\ buf \in Seq(Log!Records)
        /\ OnDisk(logFiles) \subseteq OnDisk(before)
        /\ OnDisk(before) \cup Log!ToSet(buf) = OnDisk(logFiles) \cup Log!ToSet(x.buf) \cup {r}
        /\ ~sameDay => Log!ToSet(x.buf) \subseteq OnDisk(before)
    <2>1. CASE sameDay
      <3>1. buf = Append(x.buf, r) /\ before = logFiles
        BY <2>1
      <3>2. Append(x.buf, r) \in Seq(Log!Records) /\ Log!ToSet(Append(x.buf, r)) = Log!ToSet(x.buf) \cup {r}
        BY <1>3, <1>4, SetOfAppend
      <3> HIDE DEF buf, before, r, x
      <3> QED
        BY <1>2, <2>1, <3>1, <3>2
    <2>2. CASE ~sameDay
      <3>1. buf = Append(<<>>, r) /\ before = Log!Flushed(i)
        BY <2>2
      <3>3. Append(<<>>, r) \in Seq(Log!Records) /\ Log!ToSet(Append(<<>>, r)) = {r}
        <4> HIDE DEF r
        <4> QED
          BY <1>4, SetOfOne
      <3>4. /\ Log!Flushed(i) \in LogFileType
            /\ OnDisk(Log!Flushed(i)) = OnDisk(logFiles) \cup Log!ToSet(x.buf)
        BY <1>2, FlushedIs
      <3> HIDE DEF buf, before, r, x
      <3> QED
        BY <2>2, <3>1, <3>3, <3>4
    <2> QED
      BY <2>1, <2>2
  <1> HIDE DEF buf, before, day
  <1>6. CASE /\ logFiles' = IF full THEN [before EXCEPT ![day] = @ \o buf] ELSE before
             /\ logWriters' = [logWriters EXCEPT ![i].ch = Tail(@), ![i].day = day,
                                                 ![i].buf = IF full THEN <<>> ELSE buf]
             /\ UNCHANGED logGone
    <2> DEFINE kept == IF full THEN <<>> ELSE buf
               y == WriterRec("run", Tail(x.ch), x.req, x.stop, kept, day)
    <2>1. /\ logWriters'[i] = y /\ DOMAIN logWriters' = Log!Writers
          /\ \A j \in Log!Writers \ {i} : logWriters'[j] = logWriters[j]
      BY <1>1, <1>2, <1>3, <1>6 DEF LogTypes, WriterRec
    <2>2. /\ logFiles' \in LogFileType /\ kept \in Seq(Log!Records)
          /\ OnDisk(before) \subseteq OnDisk(logFiles')
          /\ Log!ToSet(buf) \subseteq OnDisk(logFiles') \cup Log!ToSet(kept)
      <3>1. CASE full
        <4>1. /\ [before EXCEPT ![day] = @ \o buf] \in LogFileType
              /\ OnDisk([before EXCEPT ![day] = @ \o buf]) = OnDisk(before) \cup Log!ToSet(buf)
          BY <1>2, <1>5, Flush
        <4>2. logFiles' = [before EXCEPT ![day] = @ \o buf] /\ kept = <<>>
          BY <1>6, <3>1
        <4>3. <<>> \in Seq(Log!Records)
          OBVIOUS
        <4> HIDE DEF kept
        <4> QED
          BY <4>1, <4>2, <4>3, Zenon
      <3>2. CASE ~full
        <4>1. logFiles' = before /\ kept = buf
          BY <1>6, <3>2
        <4> QED
          BY <1>5, <4>1
      <3> QED
        BY <3>1, <3>2
    <2> HIDE DEF kept, x, r
    <2>3. Disk \subseteq Disk'
      BY <1>5, <1>6, <2>2 DEF Disk
    <2>4. logOwed[i] \subseteq Disk' \cup Log!ToSet(Tail(x.ch)) \cup Log!ToSet(kept)
      BY <1>3, <1>4, <1>5, <1>6, <2>2 DEF Disk
    <2>5. WriterKeeps(y, logOwed[i], Disk')
      <3>1. day # -1
        BY <1>2, LogNumbers, ConsoleAssumption DEF Days
      <3> DEFINE c == Tail(x.ch)
      <3>2. c \in Seq(Log!Records) /\ Len(c) <= QueueSize /\ "run" \in LogModes
        BY <1>4 DEF LogModes
      <3>3. logOwed[i] \subseteq Disk' \cup Log!ToSet(c) \cup Log!ToSet(kept)
        BY <2>4
      <3> HIDE DEF c
      <3>4. WriterKeeps(WriterRec("run", c, x.req, x.stop, kept, day), logOwed[i], Disk')
        BY <1>2, <1>3, <2>2, <3>1, <3>2, <3>3, WriterRecIs
      <3> QED
        BY <3>4 DEF c
    <2>6. y.mode # "none"
      BY DEF WriterRec
    <2>7. logGone' \subseteq Log!Records
      BY <1>2, <1>6
    <2> HIDE DEF y
    <2> QED
      BY <1>1, <1>2, <2>1, <2>2, <2>3, <2>5, <2>6, <2>7, WriterStepKeeps
  <1>7. CASE /\ ~sameDay
             /\ logFiles' = before /\ logGone' = logGone \cup {r}
             /\ logWriters' = [logWriters EXCEPT ![i].ch = Tail(@), ![i].day = -1, ![i].buf = <<>>]
    <2> DEFINE y == WriterRec("run", Tail(x.ch), x.req, x.stop, <<>>, -1)
    <2>1. /\ logWriters'[i] = y /\ DOMAIN logWriters' = Log!Writers
          /\ \A j \in Log!Writers \ {i} : logWriters'[j] = logWriters[j]
      BY <1>1, <1>2, <1>3, <1>7 DEF LogTypes, WriterRec
    <2> HIDE DEF x, r
    <2>2. Disk \subseteq Disk'
      BY <1>5, <1>7 DEF Disk
    <2>3. logOwed[i] \subseteq Disk' \cup Log!ToSet(Tail(x.ch)) \cup Log!ToSet(<<>>)
      BY <1>3, <1>4, <1>5, <1>7 DEF Disk
    <2>4. WriterKeeps(y, logOwed[i], Disk')
      <3> DEFINE c == Tail(x.ch)
      <3>1. PICK e, d : e = <<>> /\ d = -1
        OBVIOUS
      <3>2. c \in Seq(Log!Records) /\ Len(c) <= QueueSize /\ "run" \in LogModes
        BY <1>4 DEF LogModes
      <3>3. e \in Seq(Log!Records) /\ d \in Days \cup {-1}
        BY <3>1
      <3>4. logOwed[i] \subseteq Disk' \cup Log!ToSet(c) \cup Log!ToSet(e)
        BY <2>3, <3>1
      <3> HIDE DEF c
      <3>5. WriterKeeps(WriterRec("run", c, x.req, x.stop, e, d), logOwed[i], Disk')
        BY <1>3, <3>1, <3>2, <3>3, <3>4, WriterRecIs
      <3> QED
        BY <3>1, <3>5 DEF c
    <2>5. y.mode # "none"
      BY DEF WriterRec
    <2>6. logGone' \subseteq Log!Records /\ logFiles' \in LogFileType
      BY <1>2, <1>4, <1>5, <1>7
    <2> HIDE DEF y
    <2> QED
      BY <1>1, <1>2, <2>1, <2>2, <2>4, <2>5, <2>6, WriterStepKeeps
  <1> QED
    BY <1>1, <1>6, <1>7

\* A writer whose buffer went to its file keeps what it owes.
LEMMA EmptiedKeeps ==
  ASSUME LogTypes, WritersKeep, NEW i \in Log!Writers, NEW m \in {"run", "done"}, NEW q \in Seq(Admins),
         Len(q) <= 1, NEW d \in Days \cup {-1}, NEW D, OnDisk(Log!Flushed(i)) \cup logGone \subseteq D,
         m = "done" => logWriters[i].stop /\ logWriters[i].ch = <<>>
  PROVE  /\ WriterKeeps(WriterRec(m, logWriters[i].ch, q, logWriters[i].stop, <<>>, d), logOwed[i], D)
         /\ WriterRec(m, logWriters[i].ch, q, logWriters[i].stop, <<>>, d).mode # "none"
         /\ Disk \subseteq D
  <1> DEFINE x == logWriters[i]
  <1>1. /\ x.ch \in Seq(Log!Records) /\ x.stop \in BOOLEAN
        /\ logOwed[i] \subseteq Log!Records /\ Len(x.ch) <= QueueSize
        /\ logOwed[i] \subseteq Disk \cup Log!ToSet(x.ch) \cup Log!ToSet(x.buf)
    BY WriterFields
  <1>2. OnDisk(Log!Flushed(i)) = OnDisk(logFiles) \cup Log!ToSet(x.buf)
    BY FlushedIs
  <1>3. PICK e : e = <<>>
    OBVIOUS
  <1>4. e \in Seq(Log!Records) /\ m \in LogModes /\ m # "none"
    BY <1>3 DEF LogModes
  <1>5. Log!ToSet(e) = {}
    BY <1>3, NothingInSet
  <1> HIDE DEF x
  <1>6. logOwed[i] \subseteq D \cup Log!ToSet(x.ch) \cup Log!ToSet(e)
    BY <1>1, <1>2 DEF Disk
  <1>7. m = "done" => x.stop /\ logOwed[i] \subseteq D
    <2>1. m = "done" => x.stop /\ Log!ToSet(x.ch) = {}
      BY NothingInSet DEF x
    <2> QED
      BY <1>5, <1>6, <2>1
  <1>8. WriterKeeps(WriterRec(m, x.ch, q, x.stop, e, d), logOwed[i], D)
    BY <1>1, <1>3, <1>4, <1>6, <1>7, WriterRecIs
  <1>9. WriterRec(m, x.ch, q, x.stop, e, d).mode # "none"
    BY <1>4 DEF WriterRec
  <1>10. Disk \subseteq D
    BY <1>2 DEF Disk
  <1> QED
    BY <1>3, <1>8, <1>9, <1>10 DEF x

\* removeFilesLocked flushes, then deletes all files or none.
LEMMA RemoveFilesKeeps ==
  ASSUME LogInv, NEW i \in Log!Writers, Log!RemoveFilesLocked(i)
  PROVE  LogInv'
  <1> DEFINE x == logWriters[i]  all == Log!Flushed(i)  a == Head(x.req)
             y == WriterRec("run", x.ch, Tail(x.req), x.stop, <<>>, -1)
  <1>1. /\ x.mode = "run" /\ x.req # <<>>
        /\ logWriters' = [logWriters EXCEPT ![i].req = Tail(@), ![i].day = -1, ![i].buf = <<>>]
        /\ \/ /\ logFiles' = [d \in DOMAIN logFiles |-> <<>>]
              /\ logGone' = logGone \cup UNION {Log!ToSet(all[d]) : d \in DOMAIN all}
           \/ logFiles' = all /\ UNCHANGED logGone
        /\ logAdm' = [logAdm EXCEPT ![a].pc = "replied"]
        /\ UNCHANGED <<logHour, logCfg, logMu, logRing, logBuckets, logWriter, logFileOK, logRec,
                       logRecent, logCounted, logOwed>>
    BY DEF Log!RemoveFilesLocked
  <1>2. /\ LogTypes /\ WritersKeep /\ Made(i) /\ logFiles \in [Days -> Seq(Log!Records)]
        /\ logGone \subseteq Log!Records /\ logAdm \in [Admins -> LogAdmType]
    BY <1>1 DEF LogInv, LogTypes, Made, LogFileType, Days
  <1>3. /\ x = WriterRec(x.mode, x.ch, x.req, x.stop, x.buf, x.day)
        /\ x.req \in Seq(Admins) /\ Len(x.req) <= 1
    BY <1>2, WriterFields
  <1>4. /\ logWriters'[i] = y /\ DOMAIN logWriters' = Log!Writers
        /\ \A j \in Log!Writers \ {i} : logWriters'[j] = logWriters[j]
    BY <1>1, <1>2, <1>3 DEF LogTypes, WriterRec
  <1>5. Tail(x.req) \in Seq(Admins) /\ Len(Tail(x.req)) <= 1
    BY <1>1, <1>3
  <1>6. logAdm' \in [Admins -> LogAdmType]
    BY <1>1, <1>2 DEF LogAdmType
  <1>7. all \in [Days -> Seq(Log!Records)]
    BY <1>2, FlushedIs DEF LogFileType, Days
  <1>8. /\ logFiles' \in LogFileType /\ logGone' \subseteq Log!Records
        /\ OnDisk(all) \cup logGone \subseteq Disk'
    <2> HIDE DEF all
    <2>1. CASE logFiles' = [d \in DOMAIN logFiles |-> <<>>]
               /\ logGone' = logGone \cup UNION {Log!ToSet(all[d]) : d \in DOMAIN all}
      <3>1. logFiles' \in LogFileType
        BY <1>2, <2>1 DEF LogFileType, Days
      <3>2. \A d \in DOMAIN all : Log!ToSet(all[d]) \subseteq Log!Records
        BY <1>7, InSet
      <3> QED
        BY <1>2, <2>1, <3>1, <3>2 DEF Disk, OnDisk
    <2>2. CASE logFiles' = all /\ logGone' = logGone
      BY <1>2, <1>7, <2>2 DEF Disk, LogFileType, Days
    <2> QED
      BY <1>1, <2>1, <2>2
  <1>9. WriterKeeps(y, logOwed[i], Disk') /\ y.mode # "none" /\ Disk \subseteq Disk'
    <2> DEFINE q == Tail(x.req)
    <2>1. q \in Seq(Admins) /\ Len(q) <= 1 /\ -1 \in Days \cup {-1}
      BY <1>5
    <2> HIDE DEF q
    <2>2. /\ WriterKeeps(WriterRec("run", x.ch, q, x.stop, <<>>, -1), logOwed[i], Disk')
          /\ WriterRec("run", x.ch, q, x.stop, <<>>, -1).mode # "none" /\ Disk \subseteq Disk'
      BY <1>2, <1>8, <2>1, EmptiedKeeps
    <2> QED
      BY <2>2 DEF q
  <1> HIDE DEF y
  <1> QED
    BY <1>1, <1>2, <1>4, <1>6, <1>8, <1>9, WriterStepKeeps

\* The ticker flushes.
LEMMA FlushTickKeeps ==
  ASSUME LogInv, NEW i \in Log!Writers, Log!FlushTick(i)
  PROVE  LogInv'
  <1> DEFINE x == logWriters[i]  d == IF x.day = Log!Day THEN x.day ELSE -1
             y == WriterRec("run", x.ch, x.req, x.stop, <<>>, d)
  <1>1. /\ x.mode = "run" /\ logFiles' = Log!Flushed(i)
        /\ logWriters' = [logWriters EXCEPT ![i].buf = <<>>, ![i].day = IF @ = Log!Day THEN @ ELSE -1]
        /\ UNCHANGED <<logHour, logCfg, logMu, logRing, logBuckets, logWriter, logFileOK, logRec,
                       logAdm, logRecent, logCounted, logOwed, logGone>>
    BY DEF Log!FlushTick, Log!WriterOnly
  <1>2. /\ LogTypes /\ WritersKeep /\ Made(i)
        /\ logGone' \subseteq Log!Records /\ logAdm' \in [Admins -> LogAdmType]
    BY <1>1 DEF LogInv, LogTypes, Made
  <1>3. /\ x = WriterRec(x.mode, x.ch, x.req, x.stop, x.buf, x.day)
        /\ x.req \in Seq(Admins) /\ Len(x.req) <= 1 /\ x.day \in Days \cup {-1} /\ d \in Days \cup {-1}
    BY <1>2, WriterFields
  <1>4. /\ logWriters'[i] = y /\ DOMAIN logWriters' = Log!Writers
        /\ \A j \in Log!Writers \ {i} : logWriters'[j] = logWriters[j]
    BY <1>1, <1>2, <1>3 DEF LogTypes, WriterRec
  <1>5. logFiles' \in LogFileType /\ OnDisk(Log!Flushed(i)) \cup logGone \subseteq Disk'
    BY <1>1, <1>2, FlushedIs DEF Disk
  <1> HIDE DEF d
  <1>6. WriterKeeps(y, logOwed[i], Disk') /\ y.mode # "none" /\ Disk \subseteq Disk'
    BY <1>2, <1>3, <1>5, EmptiedKeeps
  <1> HIDE DEF y
  <1> QED
    BY <1>1, <1>2, <1>4, <1>5, <1>6, WriterStepKeeps

\* A writer ends with an empty queue and a flushed buffer.
LEMMA DrainedKeeps ==
  ASSUME LogInv, NEW i \in Log!Writers, Log!Drained(i)
  PROVE  LogInv'
  <1> DEFINE x == logWriters[i]  y == WriterRec("done", x.ch, x.req, x.stop, <<>>, -1)
  <1>1. /\ x.mode = "run" /\ x.stop /\ x.ch = <<>> /\ logFiles' = Log!Flushed(i)
        /\ logWriters' = [logWriters EXCEPT ![i].mode = "done", ![i].buf = <<>>, ![i].day = -1]
        /\ UNCHANGED <<logHour, logCfg, logMu, logRing, logBuckets, logWriter, logFileOK, logRec,
                       logAdm, logRecent, logCounted, logOwed, logGone>>
    BY DEF Log!Drained, Log!WriterOnly
  <1>2. /\ LogTypes /\ WritersKeep /\ Made(i)
        /\ logGone' \subseteq Log!Records /\ logAdm' \in [Admins -> LogAdmType]
    BY <1>1 DEF LogInv, LogTypes, Made
  <1>3. /\ x = WriterRec(x.mode, x.ch, x.req, x.stop, x.buf, x.day)
        /\ x.req \in Seq(Admins) /\ Len(x.req) <= 1 /\ -1 \in Days \cup {-1}
    BY <1>2, WriterFields
  <1>4. /\ logWriters'[i] = y /\ DOMAIN logWriters' = Log!Writers
        /\ \A j \in Log!Writers \ {i} : logWriters'[j] = logWriters[j]
    BY <1>1, <1>2, <1>3 DEF LogTypes, WriterRec
  <1>5. logFiles' \in LogFileType /\ OnDisk(Log!Flushed(i)) \cup logGone \subseteq Disk'
    BY <1>1, <1>2, FlushedIs DEF Disk
  <1>6. WriterKeeps(y, logOwed[i], Disk') /\ y.mode # "none" /\ Disk \subseteq Disk'
    BY <1>1, <1>2, <1>3, <1>5, EmptiedKeeps
  <1> HIDE DEF y
  <1> QED
    BY <1>1, <1>2, <1>4, <1>5, <1>6, WriterStepKeeps

(* --- the administration calls ---                                        *)

\* initWriterLocked makes the next writer, which owes nothing.
LEMMA NewWriterKeeps ==
  ASSUME LogTypes, WritersKeep, InOrder, Referred, NEW c, Log!InitWriter(c, Log!Used),
         UNCHANGED <<logOwed, logFiles, logGone, logRec>>
  PROVE  /\ WritersKeep' /\ InOrder' /\ Referred'
         /\ DOMAIN logWriters' = Log!Writers /\ logWriter' \in 0 .. MaxWriters
  <1>1. PICK n \in 0 .. MaxWriters : \A i \in Log!Writers : Made(i) <=> i <= n
    BY DEF InOrder
  <1>2. Log!Used = n
    BY <1>1, MadeSoFar
  <1>3. Log!Writers = 1 .. MaxWriters /\ 0 .. MaxWriters = {0} \cup Log!Writers /\ MaxWriters \in Nat
    BY WindowNumbers, LogNumbers, ConsoleAssumption
  <1>4. CASE logWriter' = 0 /\ logFileOK' = FALSE /\ UNCHANGED logWriters
    <2>1. WritersKeep' /\ InOrder' /\ \A j \in Log!Writers : Made(j) <=> Made(j)'
      BY <1>4, WritersStay
    <2>2. Referred'
      BY <1>4, <2>1, ReferredStays
    <2> QED
      BY <1>3, <1>4, <2>1, <2>2 DEF LogTypes
  <1>5. CASE /\ n < MaxWriters /\ logWriter' = n + 1
             /\ logWriters' = [logWriters EXCEPT ![n + 1] = Log!NewWriter]
    <2> DEFINE k == n + 1
    <2>1. k \in Log!Writers /\ ~Made(k)
      BY <1>1, <1>3, <1>5
    <2>2. /\ DOMAIN logWriters' = Log!Writers /\ logWriters'[k] = Log!NewWriter
          /\ \A j \in Log!Writers \ {k} : logWriters'[j] = logWriters[j]
      BY <1>5, <2>1 DEF LogTypes
    <2>3. Log!NewWriter = WriterRec("start", <<>>, <<>>, FALSE, <<>>, -1)
      <3>1. \A e, d, f : [[mode |-> "none", ch |-> e, req |-> e, stop |-> f, buf |-> e, day |-> d]
                           EXCEPT !.mode = "start"] = WriterRec("start", e, e, f, e, d)
        BY DEF WriterRec
      <3> QED
        BY <3>1, Zenon DEF Log!NewWriter, Log!NoWriter
    <2>4. Log!NewWriter.mode = "start"
      BY <2>3 DEF WriterRec
    <2>5. logOwed[k] = {}
      BY <2>1, WriterFields DEF Made
    <2> HIDE DEF k
    <2>6. WriterKeeps(Log!NewWriter, {}, Disk)
      <3>1. PICK e, d, f, o : e = <<>> /\ d = -1 /\ f = FALSE /\ o = {}
        OBVIOUS
      <3>2. /\ e \in Seq(Log!Records) /\ e \in Seq(Admins) /\ d \in Days \cup {-1} /\ "start" \in LogModes
            /\ o \subseteq Log!Records
        BY <3>1 DEF LogModes
      <3>6. f \in BOOLEAN
        BY <3>1, Zenon
      <3>3. Len(e) <= QueueSize /\ Len(e) <= 1
        BY <3>1, LogNumbers, ConsoleAssumption
      <3>5. o \subseteq Disk \cup Log!ToSet(e) \cup Log!ToSet(e)
        BY <3>1
      <3>4. WriterKeeps(WriterRec("start", e, e, f, e, d), o, Disk)
        <4>1. (d = -1 => e = <<>>) /\ ("start" = "none" => o = {}) /\ ("start" = "done" => f /\ o \subseteq Disk)
          BY <3>1
        <4> QED
          BY <3>2, <3>3, <3>5, <3>6, <4>1, WriterRecIs
      <3> QED
        BY <2>3, <3>1, <3>4
    <2>7. WritersKeep'
      <3>1. ASSUME NEW j \in Log!Writers PROVE WriterKeeps(logWriters'[j], logOwed'[j], Disk)
        <4>1. CASE j = k
          BY <2>2, <2>5, <2>6, <4>1
        <4>2. CASE j # k
          BY <2>2, <4>2 DEF WritersKeep, Disk
        <4> QED
          BY <4>1, <4>2
      <3> QED
        BY <3>1 DEF WritersKeep, Disk
    <2>8. \A j \in Log!Writers : Made(j)' <=> Made(j) \/ j = k
      BY <2>2, <2>4 DEF Made
    <2>9. InOrder'
      <3>1. k \in 0 .. MaxWriters /\ \A j \in Log!Writers : j <= k <=> j <= n \/ j = k
        BY <1>3, <2>1 DEF k
      <3> QED
        BY <1>1, <2>8, <3>1 DEF InOrder
    <2>10. Referred'
      <3>1. logWriter' = k
        BY <1>5 DEF k
      <3>2. \A s \in Log!Records : logRec[s].w \in 0 .. MaxWriters
        BY DEF LogTypes, LogRecType
      <3>3. \A s \in Log!Records : logRec'[s].w # 0 => logWriters'[logRec'[s].w].mode # "none"
        BY <1>3, <2>8, <3>2 DEF Referred, Made
      <3> QED
        BY <2>1, <2>8, <3>1, <3>3 DEF Referred, Made
    <2> QED
      BY <1>3, <1>5, <2>1, <2>2, <2>7, <2>9, <2>10 DEF k
  <1> QED
    BY <1>2, <1>4, <1>5 DEF Log!InitWriter

\* A call that stops a writer.
LEMMA StopKeeps ==
  ASSUME LogTypes, WritersKeep, InOrder, Referred, logWriter # 0,
         logWriters' = [logWriters EXCEPT ![logWriter].stop = TRUE],
         UNCHANGED <<logOwed, logFiles, logGone>>
  PROVE  /\ WritersKeep' /\ InOrder' /\ DOMAIN logWriters' = Log!Writers
         /\ \A j \in Log!Writers : Made(j) <=> Made(j)'
  <1> DEFINE i == logWriter  x == logWriters[i]
             y == WriterRec(x.mode, x.ch, x.req, TRUE, x.buf, x.day)
  <1>1. i \in Log!Writers /\ Made(i)
    BY WindowNumbers DEF LogTypes, Referred
  <1>2. /\ x = WriterRec(x.mode, x.ch, x.req, x.stop, x.buf, x.day)
        /\ x.mode \in LogModes /\ x.ch \in Seq(Log!Records) /\ x.req \in Seq(Admins)
        /\ x.stop \in BOOLEAN /\ x.buf \in Seq(Log!Records) /\ x.day \in Days \cup {-1}
        /\ logOwed[i] \subseteq Log!Records /\ Len(x.ch) <= QueueSize /\ Len(x.req) <= 1
        /\ x.day = -1 => x.buf = <<>>
        /\ x.mode = "none" => logOwed[i] = {}
        /\ x.mode = "done" => x.stop /\ logOwed[i] \subseteq Disk
        /\ logOwed[i] \subseteq Disk \cup Log!ToSet(x.ch) \cup Log!ToSet(x.buf)
    BY <1>1, WriterFields
  <1>3. /\ logWriters'[i] = y /\ DOMAIN logWriters' = Log!Writers
        /\ \A j \in Log!Writers \ {i} : logWriters'[j] = logWriters[j]
    BY <1>1, <1>2 DEF LogTypes, WriterRec
  <1>4. Disk' = Disk
    BY DEF Disk
  <1>5. x.mode # "none"
    BY <1>1 DEF Made
  <1> HIDE DEF x
  <1>6. WriterKeeps(y, logOwed[i], Disk')
    BY <1>2, <1>4, WriterRecIs
  <1>7. y.mode # "none"
    BY <1>5 DEF WriterRec
  <1> HIDE DEF y, i
  <1> QED
    BY <1>1, <1>3, <1>4, <1>6, <1>7, OneWriterMoves

\* UpdateConfig resizes the ring and may stop the writer.
LEMMA UpdateConfigKeeps ==
  ASSUME LogInv, NEW a \in Admins, NEW c \in LogConfigs, Log!UpdateConfig(a, c)
  PROVE  LogInv'
  <1> USE DEF LogInv
  <1> DEFINE reinit == (logWriter = 0) # ~c.file \/ (logWriter # 0 /\ logCfg.days # c.days)
  <1>1. /\ logCfg' = c /\ logRing' = Log!Resize(logRing, c.max) /\ logRecent' = Log!Newest(logRecent, c.max)
        /\ UNCHANGED <<logHour, logBuckets, logFiles, logRec, logCounted, logOwed, logGone>>
        /\ \/ logAdm' = [logAdm EXCEPT ![a].pc = "done"] /\ UNCHANGED <<logWriter, logWriters>>
           \/ logAdm' = [logAdm EXCEPT ![a].pc = "done"] /\ Log!InitWriter(c, Log!Used)
           \/ /\ logWriter # 0 /\ logWriters' = [logWriters EXCEPT ![logWriter].stop = TRUE]
              /\ logAdm' = [logAdm EXCEPT ![a].pc = "reinit", ![a].w = logWriter]
              /\ UNCHANGED logWriter
    BY Zenon DEF Log!UpdateConfig
  <1>2. LogRing'
    <2>1. c.max \in Nat \ {0}
      BY LogNumbers, ConsoleAssumption
    <2> QED
      BY <1>1, <2>1, RingResizes DEF LogRing
  <1>3. LogStats'
    BY <1>1, StatsStayHere DEF LogStats, StatsVars
  <1>4. logAdm' \in [Admins -> LogAdmType]
    <2>1. logWriter \in 0 .. MaxWriters
      BY DEF LogTypes
    <2> QED
      BY <1>1, <2>1 DEF LogTypes, LogAdmType
  <1>5. /\ WritersKeep' /\ InOrder' /\ Referred'
        /\ DOMAIN logWriters' = Log!Writers /\ logWriter' \in 0 .. MaxWriters
    <2>1. CASE UNCHANGED <<logWriter, logWriters>>
      <3>1. WritersKeep' /\ InOrder' /\ \A j \in Log!Writers : Made(j) <=> Made(j)'
        BY <1>1, <2>1, WritersStay
      <3>2. Referred'
        BY <1>1, <2>1, <3>1, ReferredStays
      <3> QED
        BY <2>1, <3>1, <3>2 DEF LogTypes
    <2>2. CASE Log!InitWriter(c, Log!Used)
      BY <1>1, <2>2, NewWriterKeeps
    <2>3. CASE /\ logWriter # 0 /\ logWriters' = [logWriters EXCEPT ![logWriter].stop = TRUE]
               /\ UNCHANGED logWriter
      <3>1. /\ WritersKeep' /\ InOrder' /\ DOMAIN logWriters' = Log!Writers
            /\ \A j \in Log!Writers : Made(j) <=> Made(j)'
        BY <1>1, <2>3, StopKeeps
      <3>2. Referred'
        BY <1>1, <2>3, <3>1, ReferredStays
      <3> QED
        BY <2>3, <3>1, <3>2 DEF LogTypes
    <2> QED
      BY <1>1, <2>1, <2>2, <2>3
  <1>6. LogTypes' /\ Addressed'
    BY <1>1, <1>4, <1>5 DEF LogTypes, Addressed
  <1> QED
    BY <1>2, <1>3, <1>5, <1>6 DEF LogStats, LogRing

\* ... and makes a new one when the old one has ended.
LEMMA ReinitKeeps ==
  ASSUME LogInv, NEW a \in Admins, Log!Reinit(a)
  PROVE  LogInv'
  <1> USE DEF LogInv
  <1>1. /\ Log!InitWriter(logCfg, Log!Used) /\ logAdm' = [logAdm EXCEPT ![a].pc = "done", ![a].w = 0]
        /\ UNCHANGED <<logHour, logCfg, logRing, logBuckets, logFiles, logRec, logRecent, logCounted,
                       logOwed, logGone>>
    BY DEF Log!Reinit
  <1>2. logAdm' \in [Admins -> LogAdmType]
    <2>1. PICK v \in 0 .. MaxWriters : v = 0
      BY LogNumbers, ConsoleAssumption
    <2>2. logAdm' = [logAdm EXCEPT ![a].pc = "done", ![a].w = v]
      BY <1>1, <2>1
    <2> QED
      BY <2>2 DEF LogTypes, LogAdmType
  <1>3. /\ WritersKeep' /\ InOrder' /\ Referred'
        /\ DOMAIN logWriters' = Log!Writers /\ logWriter' \in 0 .. MaxWriters
    BY <1>1, NewWriterKeeps
  <1>4. LogTypes' /\ Addressed'
    BY <1>1, <1>2, <1>3 DEF LogTypes, Addressed
  <1>5. LogStats' /\ LogRing'
    BY <1>1, StatsStayHere, RingStays DEF LogStats, StatsVars, LogRing, RingVars
  <1> QED
    BY <1>3, <1>4, <1>5 DEF LogStats, LogRing

\* Clear empties the ring ...
LEMMA ClearKeeps ==
  ASSUME LogInv, NEW a \in Admins, Log!Clear(a)
  PROVE  LogInv'
  <1> USE DEF LogInv
  <1> DEFINE v == IF logFileOK THEN logWriter ELSE 0
  <1>1. /\ logAdm' = [logAdm EXCEPT ![a].pc = "clearStats", ![a].w = v]
        /\ logRing' = Log!EmptyRing(logRing.max) /\ logRecent' = <<>>
        /\ UNCHANGED <<logHour, logCfg, logBuckets, logWriter, logWriters, logFiles, logRec, logCounted,
                       logOwed, logGone>>
    BY DEF Log!Clear
  <1>2. v \in 0 .. MaxWriters
    BY LogNumbers, ConsoleAssumption DEF LogTypes
  <1> HIDE DEF v
  <1>3. logAdm' \in [Admins -> LogAdmType]
    BY <1>1, <1>2 DEF LogTypes, LogAdmType
  <1>4. LogTypes' /\ Addressed'
    BY <1>1, <1>3 DEF LogTypes, Addressed
  <1>5. LogRing'
    <2>1. logRing.max \in Nat \ {0}
      BY DEF RingIsRecent, RingHolds
    <2> QED
      BY <1>1, <2>1, RingEmpties DEF LogRing
  <1>6. LogStats'
    BY <1>1, StatsStayHere DEF LogStats, StatsVars
  <1>7. WritersKeep' /\ InOrder' /\ \A j \in Log!Writers : Made(j) <=> Made(j)'
    BY <1>1, WritersStay
  <1>8. Referred'
    BY <1>1, <1>7, ReferredStays
  <1> QED
    BY <1>4, <1>5, <1>6, <1>7, <1>8 DEF LogStats, LogRing

\* ... and the statistics ...
LEMMA ClearStatsKeeps ==
  ASSUME LogInv, NEW a \in Admins, Log!ClearStats(a)
  PROVE  LogInv'
  <1> USE DEF LogInv
  <1>1. /\ logAdm' = [logAdm EXCEPT ![a].pc = IF logAdm[a].w = 0 THEN "done" ELSE "request"]
        /\ logBuckets' = << >> /\ logCounted' = {}
        /\ UNCHANGED <<logHour, logCfg, logRing, logWriter, logWriters, logFiles, logRec, logRecent,
                       logOwed, logGone>>
    BY DEF Log!ClearStats
  <1>2. logAdm' \in [Admins -> LogAdmType]
    BY <1>1 DEF LogTypes, LogAdmType
  <1>3. LogTypes' /\ Addressed'
    BY <1>1, <1>2 DEF LogTypes, Addressed
  <1>4. LogRing'
    BY <1>1, RingStays DEF LogRing, RingVars
  <1>5. LogStats'
    BY <1>1, NoBuckets DEF LogStats, CountedOnce
  <1>6. WritersKeep' /\ InOrder' /\ \A j \in Log!Writers : Made(j) <=> Made(j)'
    BY <1>1, WritersStay
  <1>7. Referred'
    BY <1>1, <1>6, ReferredStays
  <1> QED
    BY <1>3, <1>4, <1>5, <1>6, <1>7 DEF LogStats, LogRing

\* A call that only moves on.
LEMMA CallMoves ==
  ASSUME LogInv, logAdm' \in [Admins -> LogAdmType],
         UNCHANGED <<logHour, logCfg, logRing, logBuckets, logWriter, logWriters, logFiles, logRec,
                     logRecent, logCounted, logOwed, logGone>>
  PROVE  LogInv'
  <1> USE DEF LogInv
  <1>1. LogTypes' /\ Addressed'
    BY DEF LogTypes, Addressed
  <1>2. LogStats' /\ LogRing'
    BY StatsStayHere, RingStays DEF LogStats, StatsVars, LogRing, RingVars
  <1>3. WritersKeep' /\ InOrder' /\ \A j \in Log!Writers : Made(j) <=> Made(j)'
    BY WritersStay
  <1>4. Referred'
    BY <1>3, ReferredStays
  <1> QED
    BY <1>1, <1>2, <1>3, <1>4 DEF LogStats, LogRing

\* ... and asks the writer to delete its files.
LEMMA RequestKeeps ==
  ASSUME LogInv, NEW a \in Admins, Log!Request(a)
  PROVE  LogInv'
  <1> DEFINE i == logAdm[a].w  x == logWriters[i]
  <1>1. /\ logAdm[a].pc = "request"
        /\ \/ /\ x.req = <<>> /\ logWriters' = [logWriters EXCEPT ![i].req = <<a>>]
              /\ logAdm' = [logAdm EXCEPT ![a].pc = "reply"]
           \/ logAdm' = [logAdm EXCEPT ![a].pc = "done"] /\ UNCHANGED logWriters
        /\ UNCHANGED <<logHour, logCfg, logRing, logBuckets, logWriter, logFiles, logRec, logRecent,
                       logCounted, logOwed, logGone>>
    BY DEF Log!Request
  <1>2. LogTypes /\ WritersKeep /\ logAdm \in [Admins -> LogAdmType]
    BY DEF LogInv, LogTypes
  <1>3. logAdm' \in [Admins -> LogAdmType]
    BY <1>1, <1>2 DEF LogAdmType
  <1>4. CASE UNCHANGED logWriters
    BY <1>1, <1>3, <1>4, CallMoves
  <1>5. CASE /\ i \in Log!Writers
             /\ x.req = <<>> /\ logWriters' = [logWriters EXCEPT ![i].req = <<a>>]
    <2> DEFINE y == WriterRec(x.mode, x.ch, <<a>>, x.stop, x.buf, x.day)
    <2>1. i \in Log!Writers
      BY <1>5
    <2>2. /\ x = WriterRec(x.mode, x.ch, x.req, x.stop, x.buf, x.day)
          /\ x.mode \in LogModes /\ x.ch \in Seq(Log!Records)
          /\ x.stop \in BOOLEAN /\ x.buf \in Seq(Log!Records) /\ x.day \in Days \cup {-1}
          /\ logOwed[i] \subseteq Log!Records /\ Len(x.ch) <= QueueSize
          /\ x.day = -1 => x.buf = <<>>
          /\ x.mode = "none" => logOwed[i] = {}
          /\ x.mode = "done" => x.stop /\ logOwed[i] \subseteq Disk
          /\ logOwed[i] \subseteq Disk \cup Log!ToSet(x.ch) \cup Log!ToSet(x.buf)
      BY <1>2, <2>1, WriterFields
    <2>3. /\ logWriters'[i] = y /\ DOMAIN logWriters' = Log!Writers
          /\ \A j \in Log!Writers \ {i} : logWriters'[j] = logWriters[j]
      BY <1>2, <1>5, <2>1, <2>2 DEF LogTypes, WriterRec
    <2>4. Disk' = Disk
      BY <1>1 DEF Disk
    <2> HIDE DEF x, i
    <2>5. WriterKeeps(y, logOwed[i], Disk')
      <3>1. PICK q : q = <<a>>
        OBVIOUS
      <3>2. q \in Seq(Admins) /\ Len(q) <= 1
        BY <3>1
      <3>3. WriterKeeps(WriterRec(x.mode, x.ch, q, x.stop, x.buf, x.day), logOwed[i], Disk)
        BY <2>2, <3>2, WriterRecIs
      <3> QED
        BY <2>4, <3>1, <3>3
    <2>6. y.mode = x.mode /\ logFiles' \in LogFileType /\ logGone' \subseteq Log!Records
      BY <1>1, <1>2 DEF WriterRec, LogTypes
    <2>7. Made(i) <=> y.mode # "none"
      BY <2>6 DEF Made, x
    <2> HIDE DEF y
    <2> QED
      BY <1>1, <1>3, <2>1, <2>3, <2>4, <2>5, <2>6, <2>7, WriterStepKeeps
  <1>6. CASE i \notin Log!Writers /\ logWriters' = [logWriters EXCEPT ![i].req = <<a>>]
    <2>1. /\ DOMAIN logWriters' = Log!Writers
          /\ \A j \in Log!Writers : logWriters'[j] = logWriters[j]
      BY <1>2, <1>6 DEF LogTypes
    <2>2. 1 \in Log!Writers
      BY LogNumbers, ConsoleAssumption DEF Log!Writers
    <2>3. Disk' = Disk /\ logFiles' \in LogFileType /\ logGone' \subseteq Log!Records
      BY <1>1, <1>2 DEF Disk, LogTypes
    <2>4. WriterKeeps(logWriters[1], logOwed[1], Disk')
      BY <1>2, <2>2, <2>3 DEF WritersKeep, Disk
    <2>5. Made(1) <=> logWriters[1].mode # "none"
      BY DEF Made
    <2> QED
      BY <1>1, <1>3, <2>1, <2>2, <2>3, <2>4, <2>5, WriterStepKeeps
  <1> QED
    BY <1>1, <1>4, <1>5, <1>6

\* The caller has its answer, or the writer has ended.
LEMMA ReplyKeeps ==
  ASSUME LogInv, NEW a \in Admins, Log!Reply(a) \/ Log!Closed(a)
  PROVE  LogInv'
  <1>1. /\ logAdm' = [logAdm EXCEPT ![a].pc = "done"]
        /\ UNCHANGED <<logHour, logCfg, logRing, logBuckets, logWriter, logWriters, logFiles, logRec,
                       logRecent, logCounted, logOwed, logGone>>
    BY DEF Log!Reply, Log!Closed
  <1>2. logAdm' \in [Admins -> LogAdmType]
    BY <1>1 DEF LogInv, LogTypes, LogAdmType
  <1> QED
    BY <1>1, <1>2, CallMoves

\* Close takes the writer away and stops it.
LEMMA CloseKeeps ==
  ASSUME LogInv, NEW a \in Admins, Log!Close(a)
  PROVE  LogInv'
  <1> USE DEF LogInv
  <1> DEFINE pc == IF logWriter = 0 THEN "done" ELSE "closing"
  <1>1. /\ logWriter' = 0
        /\ logWriters' = IF logWriter = 0 THEN logWriters ELSE [logWriters EXCEPT ![logWriter].stop = TRUE]
        /\ logAdm' = [logAdm EXCEPT ![a].pc = pc, ![a].w = logWriter]
        /\ UNCHANGED <<logHour, logCfg, logRing, logBuckets, logFiles, logRec, logRecent, logCounted,
                       logOwed, logGone>>
    BY DEF Log!Close
  <1>2. logAdm' \in [Admins -> LogAdmType]
    <2>1. pc \in {"done", "closing"} /\ logWriter \in 0 .. MaxWriters
      BY DEF LogTypes
    <2> HIDE DEF pc
    <2> QED
      BY <1>1, <2>1 DEF LogTypes, LogAdmType
  <1>3. /\ WritersKeep' /\ InOrder' /\ DOMAIN logWriters' = Log!Writers
        /\ \A j \in Log!Writers : Made(j) <=> Made(j)'
    <2>1. CASE logWriter = 0
      BY <1>1, <2>1, WritersStay DEF LogTypes
    <2>2. CASE logWriter # 0
      BY <1>1, <2>2, StopKeeps
    <2> QED
      BY <2>1, <2>2
  <1>4. Referred'
    BY <1>1, <1>3, ReferredStays
  <1>5. 0 \in 0 .. MaxWriters
    BY LogNumbers, ConsoleAssumption
  <1>6. LogTypes' /\ Addressed'
    BY <1>1, <1>2, <1>3, <1>5 DEF LogTypes, Addressed
  <1>7. LogStats' /\ LogRing'
    BY <1>1, StatsStayHere, RingStays DEF LogStats, StatsVars, LogRing, RingVars
  <1> QED
    BY <1>3, <1>4, <1>6, <1>7 DEF LogStats, LogRing

\* The window moves on with the clock.
LEMMA HourPassesKeeps ==
  ASSUME LogInv, Log!HourPasses
  PROVE  LogInv'
  <1> USE DEF LogInv
  <1>1. /\ logHour < MaxHour /\ logHour' = logHour + 1
        /\ UNCHANGED <<logCfg, logRing, logBuckets, logWriter, logWriters, logFiles, logRec, logAdm,
                       logRecent, logCounted, logOwed, logGone>>
    BY DEF Log!HourPasses
  <1>2. logHour' \in Log!Hours /\ Log!WindowStart' \in Int /\ Log!WindowStart' >= Log!WindowStart
        /\ Log!WindowStart \in Int
    BY <1>1, LogNumbers, ConsoleAssumption DEF LogTypes, Log!Hours, Log!WindowStart
  <1>3. LogTypes' /\ Addressed'
    BY <1>1, <1>2 DEF LogTypes, Addressed
  <1>4. BucketsCount(logBuckets, logCounted, logRec, Log!WindowStart')
    BY <1>2, SameBuckets
  <1>5. LogStats'
    BY <1>1, <1>4 DEF LogStats, CountedOnce
  <1>6. LogRing'
    BY <1>1, RingStays DEF LogRing, RingVars
  <1>7. WritersKeep' /\ InOrder' /\ \A j \in Log!Writers : Made(j) <=> Made(j)'
    BY <1>1, WritersStay
  <1>8. Referred'
    BY <1>1, <1>7, ReferredStays
  <1> QED
    BY <1>3, <1>5, <1>6, <1>7, <1>8 DEF LogStats, LogRing

\* The log starts with nothing to show.
LEMMA LogStarts ==
  ASSUME Log!LogInit
  PROVE  LogInv
  <1>1. /\ logHour = 0 /\ logCfg \in LogConfigs /\ logRing = Log!EmptyRing(logCfg.max) /\ logBuckets = << >>
        /\ logWriter = IF logCfg.file THEN 1 ELSE 0
        /\ logWriters = [i \in Log!Writers |-> IF i = 1 /\ logCfg.file THEN Log!NewWriter ELSE Log!NoWriter]
        /\ logFiles = [d \in 0 .. (MaxHour \div DayHours) |-> <<>>]
        /\ logRec = [r \in Log!Records |-> [pc |-> "idle", hour |-> 0, w |-> 0]]
        /\ logAdm = [a \in Admins |-> [pc |-> "idle", w |-> 0]]
        /\ logRecent = <<>> /\ logCounted = {} /\ logOwed = [i \in Log!Writers |-> {}] /\ logGone = {}
    BY DEF Log!LogInit
  <1>2. /\ logCfg.max \in Nat \ {0} /\ logCfg.file \in BOOLEAN /\ 0 \in Log!Hours /\ 1 \in Log!Writers
        /\ MaxWriters \in Nat /\ Log!Writers = 1 .. MaxWriters
        /\ 0 \in 0 .. MaxWriters /\ 1 \in 0 .. MaxWriters
    BY <1>1, LogNumbers, ConsoleAssumption DEF Log!Hours, Log!Writers
  <1>3. LogTypes
    BY <1>1, <1>2 DEF LogTypes, LogRecType, LogAdmType, LogFileType
  <1>4. logRing.max = logCfg.max /\ RingIsRecent(logRing, logRecent)
    BY <1>1, <1>2, RingEmpties
  <1>5. CountedOnce /\ BucketsCount(logBuckets, logCounted, logRec, Log!WindowStart)
    BY <1>1, NoBuckets DEF CountedOnce
  <1>7. /\ Log!NewWriter = WriterRec("start", <<>>, <<>>, FALSE, <<>>, -1)
        /\ Log!NoWriter = WriterRec("none", <<>>, <<>>, FALSE, <<>>, -1)
    <2>1. Log!NoWriter = WriterRec("none", <<>>, <<>>, FALSE, <<>>, -1)
      BY Zenon DEF Log!NoWriter, WriterRec
    <2>2. PICK e, d, f : e = <<>> /\ d = -1 /\ f = FALSE
      OBVIOUS
    <2>3. [WriterRec("none", e, e, f, e, d) EXCEPT !.mode = "start"] = WriterRec("start", e, e, f, e, d)
      BY DEF WriterRec
    <2>4. Log!NewWriter = [WriterRec("none", e, e, f, e, d) EXCEPT !.mode = "start"]
      BY <2>1, <2>2, Zenon DEF Log!NewWriter
    <2> QED
      BY <2>1, <2>2, <2>3, <2>4, Zenon
  <1>8. ASSUME NEW m \in {"start", "none"}
        PROVE  /\ WriterKeeps(WriterRec(m, <<>>, <<>>, FALSE, <<>>, -1), {}, {})
               /\ WriterRec(m, <<>>, <<>>, FALSE, <<>>, -1).mode = m
    <2>1. PICK e, d, f, o : e = <<>> /\ d = -1 /\ f = FALSE /\ o = {}
      OBVIOUS
    <2>2. /\ e \in Seq(Log!Records) /\ e \in Seq(Admins) /\ d \in Days \cup {-1}
          /\ m \in LogModes /\ o \subseteq Log!Records
      BY <2>1 DEF LogModes
    <2>3. f \in BOOLEAN
      BY <2>1, Zenon
    <2>4. Len(e) <= QueueSize /\ Len(e) <= 1
      BY <2>1, LogNumbers, ConsoleAssumption
    <2>5. o \subseteq {} \cup Log!ToSet(e) \cup Log!ToSet(e)
      BY <2>1
    <2>6. (d = -1 => e = <<>>) /\ (m = "none" => o = {}) /\ (m = "done" => f /\ o \subseteq {})
      BY <2>1
    <2>7. WriterKeeps(WriterRec(m, e, e, f, e, d), o, {})
      BY <2>2, <2>3, <2>4, <2>5, <2>6, WriterRecIs
    <2>8. WriterRec(m, e, e, f, e, d).mode = m
      BY DEF WriterRec
    <2> QED
      BY <2>1, <2>7, <2>8
  <1>9. /\ WriterKeeps(Log!NewWriter, {}, {}) /\ Log!NewWriter.mode = "start"
        /\ WriterKeeps(Log!NoWriter, {}, {}) /\ Log!NoWriter.mode = "none"
    BY <1>7, <1>8
  <1>10. WritersKeep
    <2>1. ASSUME NEW i \in Log!Writers PROVE WriterKeeps(logWriters[i], logOwed[i], Disk)
      <3>1. WriterKeeps(logWriters[i], logOwed[i], {})
        BY <1>1, <1>9
      <3> QED
        BY <3>1, DiskGrows
    <2> QED
      BY <2>1 DEF WritersKeep, Disk
  <1>11. \A i \in Log!Writers : Made(i) <=> i = 1 /\ logCfg.file
    BY <1>1, <1>9 DEF Made
  <1>12. InOrder
    <2>1. CASE logCfg.file
      <3>1. \A i \in Log!Writers : Made(i) <=> i <= 1
        BY <1>2, <1>11, <2>1
      <3> QED
        BY <1>2, <3>1 DEF InOrder
    <2>2. CASE ~logCfg.file
      <3>1. \A i \in Log!Writers : Made(i) <=> i <= 0
        BY <1>2, <1>11, <2>2
      <3> QED
        BY <1>2, <3>1 DEF InOrder
    <2> QED
      BY <2>1, <2>2
  <1>13. Referred /\ Addressed
    BY <1>1, <1>2, <1>11 DEF Referred, Addressed
  <1> QED
    BY <1>3, <1>4, <1>5, <1>10, <1>12, <1>13 DEF LogInv

\* Every step of the log keeps its invariant.
LEMMA LogStepKeeps ==
  ASSUME LogInv, Log!LogNext
  PROVE  LogInv'
  <1>1. ASSUME NEW r \in Log!Records, Log!Snapshot(r) \/ Log!RecordStep(r) PROVE LogInv'
    BY <1>1, SnapshotKeeps, AppendRingKeeps, RecordStatsKeeps, EnqueueKeeps DEF Log!RecordStep
  <1>2. ASSUME NEW i \in Log!Writers, Log!WriterStep(i) \/ Log!Drained(i) PROVE LogInv'
    BY <1>2, CleanupKeeps, WriteRecordKeeps, RemoveFilesKeeps, FlushTickKeeps, DrainedKeeps DEF Log!WriterStep
  <1>3. ASSUME NEW a \in Admins, Log!Begins(a) PROVE LogInv'
    BY <1>3, ClearKeeps, CloseKeeps, UpdateConfigKeeps DEF Log!Begins
  <1>4. ASSUME NEW a \in Admins, Log!AdminStep(a) PROVE LogInv'
    BY <1>4, ReinitKeeps, ClearStatsKeeps, RequestKeeps, ReplyKeeps DEF Log!AdminStep
  <1>5. ASSUME Log!HourPasses PROVE LogInv'
    BY <1>5, HourPassesKeeps
  <1> QED
    BY <1>1, <1>2, <1>3, <1>4, <1>5 DEF Log!LogNext

-----------------------------------------------------------------------------
(* What the invariant of the log says of its pages, its summary and its    *)
(* files.                                                                  *)

\* The invariant says that the pages, the summary and the files are exact.
LEMMA LogShowsExactly ==
  ASSUME LogInv
  PROVE  /\ Log!LogTypeOK /\ Log!PagesAreTheHistory /\ Log!SummaryIsExact /\ Log!StoppedWriterHasWritten
  <1> USE DEF LogInv
  <1>1. PICK m, b, st, n : logRing = RingRec(b, st, n, m) /\ RingHolds(b, st, n, m, logRecent)
    BY DEF RingIsRecent
  <1>2. /\ m \in Nat \ {0} /\ st \in 0 .. m - 1 /\ n \in 0 .. m
        /\ logRecent \in Seq(Nat) /\ Len(logRecent) = n
        /\ \A i \in 1 .. n : logRecent[i] = b[Slot(st, i - 1, m)]
    BY <1>1 DEF RingHolds
  <1>3. logRing.buf = b /\ logRing.start = st /\ logRing.size = n /\ logRing.max = m
    BY <1>1 DEF RingRec
  <1>4. Log!Contents(logRing) = logRecent
    <2>1. ASSUME NEW i \in 1 .. n PROVE Log!At(logRing, i - 1) = logRecent[i]
      <3>1. i - 1 \in 0 .. m
        BY <1>2
      <3>2. (st + (i - 1)) % m = Slot(st, i - 1, m)
        BY <1>2, <3>1, Wraps
      <3> QED
        BY <1>2, <1>3, <3>2 DEF Log!At
    <2>2. Log!Contents(logRing) = [i \in 1 .. n |-> logRecent[i]]
      BY <1>3, <2>1 DEF Log!Contents
    <2>3. logRecent = [i \in 1 .. n |-> logRecent[i]]
      BY <1>2
    <2> QED
      BY <2>2, <2>3
  <1>5. Log!PagesAreTheHistory
    BY <1>4 DEF Log!PagesAreTheHistory, Log!MemorySearch, Log!SearchAll
  <1>6. Log!SummaryIsExact
    <2>1. \A r \in logCounted : logRec[r].hour \in Log!Hours
      BY DEF CountedOnce, LogTypes, LogRecType
    <2> QED
      BY <2>1, SummaryFollows DEF CountedOnce, LogTypes
  <1>7. Log!StoppedWriterHasWritten
    BY WriterFields DEF Log!StoppedWriterHasWritten, Disk, OnDisk
  <1>8. Log!LogTypeOK
    <2>1. \A i \in Log!Writers : Len(logWriters[i].ch) <= QueueSize /\ Len(logWriters[i].req) <= 1
      BY WriterFields
    <2>2. logWriter \in Log!Writers \cup {0}
      BY WindowNumbers DEF LogTypes
    <2>3. DOMAIN logBuckets \subseteq Log!Hours
      BY DEF BucketsCount
    <2> QED
      BY <1>2, <1>3, <2>1, <2>2, <2>3 DEF Log!LogTypeOK, LogTypes
  <1> QED
    BY <1>5, <1>6, <1>7, <1>8

-----------------------------------------------------------------------------
(* The hub.                                                                *)

\* The hub starts without pages.
LEMMA HubStarts ==
  ASSUME Hub!WebInit
  PROVE  HubInv
  BY DEF Hub!WebInit, Hub!NewSub, HubInv, SubType

\* Every step of the hub, the handlers and the pumps keeps its invariant.
LEMMA HubStepKeeps ==
  ASSUME HubInv, Hub!HubNext
  PROVE  HubInv'
  <1> USE DEF HubInv
  <1>1. CASE Hub!Broadcast
    BY <1>1 DEF Hub!Broadcast, SubType
  <1>2. CASE Hub!HubBroadcast
    <2>1. ASSUME NEW c \in Pages
          PROVE  /\ hubSub'[c] \in SubType
                 /\ hubSub'[c].closed = hubSub[c].closed /\ hubSub'[c].handler = hubSub[c].handler
      BY <1>2 DEF Hub!HubBroadcast, SubType
    <2>2. hubSub' = [c \in Pages |-> hubSub'[c]] /\ hubPages' = hubPages /\ ~hubPanicked'
      BY <1>2 DEF Hub!HubBroadcast
    <2> QED
      BY <2>1, <2>2
  <1>3. CASE Hub!HubStop
    <2>1. ASSUME NEW c \in Pages
          PROVE  /\ hubSub'[c] \in SubType
                 /\ hubSub'[c].closed => c \in hubPages \/ hubSub[c].closed
                 /\ hubSub'[c].handler = hubSub[c].handler
      BY <1>3 DEF Hub!HubStop, Hub!CloseSend, SubType
    <2>2. hubSub' = [c \in Pages |-> hubSub'[c]] /\ hubPages' = {} /\ ~hubPanicked'
      BY <1>3 DEF Hub!HubStop
    <2> QED
      BY <2>1, <2>2
  <1>4. CASE Hub!Shutdown
    BY <1>4 DEF Hub!Shutdown, SubType
  <1>5. ASSUME NEW c \in Pages, Hub!HandleEvents(c) PROVE HubInv'
    BY <1>5 DEF Hub!HandleEvents, SubType
  <1>6. ASSUME NEW c \in Pages, Hub!HubRegister(c) PROVE HubInv'
    <2> DEFINE x == [hubSub[c] EXCEPT !.handler = "done", !.read = "run", !.write = "run"]
    <2>1. hubSub' = [hubSub EXCEPT ![c] = x]
      BY <1>6 DEF Hub!HubRegister
    <2>2. x \in SubType /\ x.handler = "done" /\ x.closed = hubSub[c].closed
      BY DEF SubType
    <2> HIDE DEF x
    <2>3. /\ hubSub' \in [Pages -> SubType] /\ hubSub'[c] = x
          /\ \A b \in Pages \ {c} : hubSub'[b] = hubSub[b]
      BY <2>1, <2>2
    <2>4. hubPages' = hubPages \cup {c} /\ ~hubPanicked' /\ ~hubSub[c].closed
      BY <1>6 DEF Hub!HubRegister
    <2> QED
      BY <2>2, <2>3, <2>4
  <1>7. ASSUME NEW c \in Pages, Hub!RefuseLate(c) PROVE HubInv'
    <2> DEFINE x == [hubSub[c] EXCEPT !.handler = "done", !.conn = FALSE]
    <2>1. hubSub' = [hubSub EXCEPT ![c] = x] /\ hubPages' = hubPages /\ ~hubPanicked'
      BY <1>7 DEF Hub!RefuseLate
    <2>2. x \in SubType /\ x.handler = "done" /\ x.closed = hubSub[c].closed
      BY DEF SubType
    <2> HIDE DEF x
    <2>3. /\ hubSub' \in [Pages -> SubType] /\ hubSub'[c] = x
          /\ \A b \in Pages \ {c} : hubSub'[b] = hubSub[b]
      BY <2>1, <2>2
    <2> QED
      BY <2>1, <2>2, <2>3
  <1>8. ASSUME NEW c \in Pages, Hub!HubUnregister(c) PROVE HubInv'
    <2> DEFINE after == IF c \in hubPages THEN Hub!CloseSend(c) ELSE hubSub[c]
    <2>1. /\ \/ hubSub' = [hubSub EXCEPT ![c] = [after EXCEPT !.read = "end"]]
             \/ hubSub' = [hubSub EXCEPT ![c] = [after EXCEPT !.slow = @ - 1]]
          /\ hubPages' = hubPages \ {c} /\ ~hubPanicked'
      BY <1>8 DEF Hub!HubUnregister
    <2>2. after \in SubType /\ after.handler = hubSub[c].handler
          /\ (after.closed => c \in hubPages \/ hubSub[c].closed)
      BY DEF Hub!CloseSend, SubType
    <2> HIDE DEF after
    <2>3. /\ hubSub' \in [Pages -> SubType] /\ hubSub'[c].handler = after.handler
          /\ hubSub'[c].closed = after.closed
          /\ \A b \in Pages \ {c} : hubSub'[b] = hubSub[b]
      BY <2>1, <2>2 DEF SubType
    <2> QED
      BY <2>1, <2>2, <2>3
  <1>9. ASSUME NEW c \in Pages,
               Hub!PeerGone(c) \/ Hub!ReadPump(c) \/ Hub!ReadEnds(c) \/ Hub!SlowEnds(c) \/ Hub!WritePump(c)
        PROVE  HubInv'
    <2>1. CASE Hub!PeerGone(c)
      BY <2>1 DEF Hub!PeerGone, Hub!SubOnly, SubType
    <2>2. CASE Hub!ReadPump(c)
      BY <2>2 DEF Hub!ReadPump, Hub!SubOnly, SubType
    <2>3. CASE Hub!ReadEnds(c)
      BY <2>3 DEF Hub!ReadEnds, Hub!SubOnly, SubType
    <2>4. CASE Hub!SlowEnds(c)
      BY <2>4 DEF Hub!SlowEnds, Hub!SubOnly, SubType
    <2>5. CASE Hub!WritePump(c)
      BY <2>5 DEF Hub!WritePump, Hub!SubOnly, SubType
    <2> QED
      BY <1>9, <2>1, <2>2, <2>3, <2>4, <2>5
  <1> QED
    BY <1>1, <1>2, <1>3, <1>4, <1>5, <1>6, <1>7, <1>8, <1>9 DEF Hub!HubNext

-----------------------------------------------------------------------------
\* Whatever the administrators change, clear or close, and however writers,
\* records, pages and the hub interleave, the log shows exactly what happened
\* and no closed channel is used, for any number of records, hours, writers,
\* calls and pages (querylog/querylog.go, ring.go, stats.go, writer.go,
\* ipc/server_ws.go).
THEOREM LogShowsWhatHappened == ConsoleSpec => []LogIsExact
  <1>1. ConsoleInit => ConsoleInv
    BY LogStarts, HubStarts DEF ConsoleInit, ConsoleInv
  <1>2. ConsoleInv /\ [ConsoleNext]_<<shown, logVars, hubVars>> => ConsoleInv'
    <2> SUFFICES ASSUME ConsoleInv, [ConsoleNext]_<<shown, logVars, hubVars>> PROVE ConsoleInv'
      OBVIOUS
    <2>1. UNCHANGED logVars \/ Log!LogNext
      BY DEF ConsoleNext
    <2>2. UNCHANGED hubVars \/ Hub!HubNext
      BY DEF ConsoleNext
    <2>3. UNCHANGED logVars => LogInv'
      <3> SUFFICES ASSUME UNCHANGED logVars PROVE LogInv'
        OBVIOUS
      <3>1. /\ logAdm' \in [Admins -> LogAdmType]
            /\ UNCHANGED <<logHour, logCfg, logRing, logBuckets, logWriter, logWriters, logFiles, logRec,
                           logRecent, logCounted, logOwed, logGone>>
        BY DEF ConsoleInv, LogInv, LogTypes, logVars
      <3> QED
        BY <3>1, CallMoves DEF ConsoleInv
    <2>4. LogInv'
      BY <2>1, <2>3, LogStepKeeps DEF ConsoleInv
    <2>5. HubInv'
      BY <2>2, HubStepKeeps DEF ConsoleInv, HubInv, hubVars
    <2> QED
      BY <2>4, <2>5 DEF ConsoleInv
  <1>3. ConsoleInv => LogIsExact
    BY LogShowsExactly DEF ConsoleInv, HubInv, LogIsExact, Hub!HubNeverPanics
  <1> QED
    BY <1>1, <1>2, <1>3, PTL DEF ConsoleSpec
=============================================================================
