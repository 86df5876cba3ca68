----------------------------- MODULE RuleEngine -----------------------------
(***************************************************************************)
(* The rule engine of the desktop service (internal/core/rule_*.go,        *)
(* filter_native.go, service_schedule.go) and the handlers that change it  *)
(* (cmd/service/controller_{filter,schedule,services,client_groups}.go).   *)
(*                                                                         *)
(* The index is rebuilt from the user's rules, the built-in services and   *)
(* the cache files of the subscribed lists, and queries read it in several *)
(* short read locks while handlers, the hourly ticker, pauses and restarts *)
(* change what it was built from.                                          *)
(*                                                                         *)
(* A rule says what happens to a name: [name, kind], kind in Kinds.  What  *)
(* a list holds is a set of rules that depends on where and when it was    *)
(* downloaded.  Handlers hold p.mu, so one of them runs at a time; the     *)
(* engine's lock e.mu is held over whole calls, downloads included.        *)
(***************************************************************************)
EXTENDS Naturals, FiniteSets, TLC

CONSTANTS
  Lists,        \* IDs of subscriptions
  Urls,         \* where lists are downloaded from
  Dated,        \* the URLs whose servers only compare Last-Modified
  Content,      \* [url, ver] -> the rules published there
  Default,      \* the ID and the URL of the default subscription
  Names,        \* the names rules are about
  Asked,        \* queries: the name asked for and a name its answer leads to
  Custom,       \* the rules the user may add
  Service,      \* the rules of the one built-in service
  Chosen,       \* RuleListIDs of the one client group; empty is all
  GroupConfigs, \* what ConfigureClientGroups is called with
  Windows,      \* schedules: sets of times, compiled by NormalizeSchedule
  MaxVersion,   \* bound on what a URL publishes
  MaxTime,      \* bound on the clock
  MaxOps,       \* bound on handler calls
  MaxFaults     \* bound on crashes, failed builds and failed saves

Kinds == {"rewrite", "iallow", "iblock", "allow", "block"}
None  == [url |-> "none", ver |-> 0]
Stamp == [url : Urls, ver : 1 .. MaxVersion] \cup {None}
Statuses == {"new", "ok", "unchanged", "cached", "failed"}
ListRec  == [url : Urls, on : BOOLEAN, tag : Stamp, upd : 0 .. MaxTime, status : Statuses]

ASSUME RuleAssumption ==
  /\ MaxVersion \in Nat \ {0} /\ MaxTime \in Nat /\ MaxOps \in Nat /\ MaxFaults \in Nat
  /\ Dated \subseteq Urls /\ Chosen \subseteq Lists
  /\ Default.list \in Lists /\ Default.url \in Urls
  /\ Lists \cap {"custom", "service", "allowlist", "none"} = {}
  /\ \A u \in Urls : 1 \in DOMAIN Content[u] /\ DOMAIN Content[u] \subseteq 1 .. MaxVersion
  /\ \A u \in Urls : \A v \in DOMAIN Content[u] : Content[u][v] \subseteq [name : Names, kind : Kinds]

VARIABLES
  cfg,      \* e.cfg: enabled, custom, service, lists, allowOnly, window
  grp,      \* e.groupCfg: its switch, the group's own switch, its mode and window
  matcher,  \* e.matcher: the rules in force, each with its source
  gmatcher, \* e.groupMatchers, for the one group; NoIndex when its build failed
  file,     \* the cache files: where and when their content is from
  mem,      \* p.cfg.Filter
  disk,     \* config.json: the filter and the groups
  web,      \* what each URL publishes now
  now,      \* the clock
  pause,    \* e.pausedUntil: 0 is not paused, Forever is until resumed
  lock,     \* e.mu: who holds it to write, whether a reader waits inside it and a writer outside
  job,      \* the downloads that run under the lock
  admin,    \* the handler that runs
  query,    \* the query in the filter
  left,     \* calls and faults that are left, and whether the ticker has fired
  stale,    \* history: a call changed the configuration and built no index
  apart     \* history: a call failed after it changed the configuration

vars == <<cfg, grp, matcher, gmatcher, file, mem, disk, web, now, pause, lock, job,
          admin, query, left, stale, apart>>

Forever == MaxTime + 1
Always  == 0 .. MaxTime
NoJob   == [kind |-> "none", todo |-> {}, changed |-> FALSE, err |-> FALSE]
NoQuery == [at |-> "idle", name |-> "none", grp |-> "none", side |-> "request",
            res |-> [act |-> "pass", src |-> "none"], live |-> {}, alias |-> "none"]
Free    == lock.writer = "none"
CanRead == Free /\ ~lock.queued
CanLock == Free /\ lock.reader = 0

-----------------------------------------------------------------------------
(* Building the index.                                                     *)
Tagged(rules, source) == {[name |-> r.name, kind |-> r.kind, src |-> source] : r \in rules}

(* What a list's cache file contributes; a missing file contributes nothing. *)
FileRules(l, f) == IF f[l] = None THEN {} ELSE Tagged(Content[f[l].url][f[l].ver], l)

CustomRules(c)  == Tagged(c.custom, "custom")
ServiceRules(c) == IF c.service THEN Tagged(Service, "service") ELSE {}
LoadLists(c, f) == UNION {FileRules(l, f) : l \in {k \in DOMAIN c.lists : c.lists[k].on}}

LoadAllRules(c, f) == CustomRules(c) \cup ServiceRules(c) \cup LoadLists(c, f)

(* Mutant: the group's choice of lists also drops the user's own rules.    *)
MutCompileGroup(g, c, f) ==
  IF g.enabled /\ g.on
    THEN {r \in LoadAllRules(c, f) : Chosen = {} \/ r.src \in Chosen} ELSE {}

(* compileGroupMatchersUnlocked: an enabled group sees the lists it chose, *)
(* and the user's rules and the services whatever it chose.                *)
CompileGroup(g, c, f) ==
  IF g.enabled /\ g.on
    THEN {r \in LoadAllRules(c, f) : Chosen = {} \/ r.src \in Chosen \cup {"custom", "service"}}
    ELSE {}

(* The kernel may refuse the group's index, while faults are left: then    *)
(* the group has none.                                                     *)
NoIndex == {[name |-> "none", kind |-> "none", src |-> "custom"]}
GroupIndexes(g, c, f) ==
  {CompileGroup(g, c, f)} \cup (IF g.enabled /\ g.on /\ left.faults > 0 THEN {NoIndex} ELSE {})

(* rebuildUnlocked: both indexes, or neither when the kernel refuses the   *)
(* first.                                                                  *)
Rebuild(ok) ==
  IF ok THEN /\ matcher' = LoadAllRules(cfg', file') /\ gmatcher' \in GroupIndexes(grp, cfg', file')
             /\ stale' = FALSE
        ELSE stale' = TRUE /\ UNCHANGED <<matcher, gmatcher>>

-----------------------------------------------------------------------------
(* Match: a rewrite answers first, then important exceptions, important    *)
(* blocks, exceptions and blocks; the first rule of the winning kind names *)
(* the source.                                                             *)
First(rs) == IF \E r \in rs : r.src = "custom" THEN "custom"
             ELSE IF \E r \in rs : r.src = "service" THEN "service"
             ELSE (CHOOSE r \in rs : TRUE).src
Winner(m, n) ==
  LET of(k)  == {r \in m : r.name = n /\ r.kind = k}
      has(k) == of(k) # {}
  IN  IF has("rewrite") THEN [act |-> "rewrite", src |-> First(of("rewrite"))]
      ELSE IF has("iallow") THEN [act |-> "allow", src |-> First(of("iallow"))]
      ELSE IF has("iblock") THEN [act |-> "block", src |-> First(of("iblock"))]
      ELSE IF has("allow") THEN [act |-> "allow", src |-> First(of("allow"))]
      ELSE IF has("block") THEN [act |-> "block", src |-> First(of("block"))]
      ELSE [act |-> "pass", src |-> "none"]

(* getGroupMatcher: a group without an index of its own uses the default.  *)
GroupMatcher(g) ==
  IF g = "group" /\ grp.enabled /\ grp.on /\ gmatcher # NoIndex THEN gmatcher ELSE matcher

(* IsEnabled: the switch, unless blocking is paused.                       *)
IsEnabled == cfg.enabled /\ ~(now < pause)

(* groupByIDUnlocked does not ask whether the group itself is enabled.     *)
GroupById(g) == g = "group" /\ grp.enabled

(* IsBlockingActiveForGroup: the group's schedule before the global one.   *)
IsBlockingActive(g) ==
  IF GroupById(g) /\ grp.window # {} THEN now \in grp.window ELSE now \in cfg.window

(* IsAllowlistOnlyForGroup: a group decides for itself.                    *)
AllowlistOnly(g) == IF GroupById(g) THEN grp.allowOnly ELSE cfg.allowOnly

ApplyAllowlistOnly(res) ==
  IF res.act \in {"block", "allow", "rewrite"} THEN res ELSE [act |-> "block", src |-> "allowlist"]

(* The schedule of the built-in service; other sources have none.          *)
ServiceScheduleBlocks(src) == src = "service" => now \in cfg.svcWindow

-----------------------------------------------------------------------------
(* History: the lists that were on at some time since the query came in.   *)
OnLists(c, s) == IF s THEN Lists ELSE {l \in DOMAIN c.lists : c.lists[l].on}
Live(q) == [q EXCEPT !.live = IF q.at \in {"idle", "done"} THEN @ ELSE @ \cup OnLists(cfg', stale')]
KeepQuery == query' = Live(query)

(* MatchForGroup and MatchResponse, one read lock per step; the counters   *)
(* are left out.  One query stands for all: queries change nothing.        *)
Engine == <<cfg, grp, matcher, gmatcher, file, mem, disk, web, now, pause, lock, job,
            admin, left, stale, apart>>
Pass   == [act |-> "pass", src |-> "none"]
Verdict(res) == query' = [NoQuery EXCEPT !.at = "done", !.res = res,
                                         !.live = IF res.act = "block" THEN query.live ELSE {}]

Ask ==
  /\ query.at = "idle"
  /\ \E a \in Asked, g \in {"default"} \cup (IF grp.enabled THEN {"group"} ELSE {}) :
       query' = [NoQuery EXCEPT !.at = "enabled", !.name = a.name, !.alias = a.alias, !.grp = g,
                                !.side = IF a.alias = a.name THEN "request" ELSE "response",
                                !.live = OnLists(cfg, stale)]
  /\ UNCHANGED Engine

CheckEnabled ==
  /\ query.at = "enabled"
  /\ IF IsEnabled THEN query' = [query EXCEPT !.at = "schedule"] ELSE Verdict(Pass)

CheckSchedule ==
  /\ query.at = "schedule"
  /\ IF IsBlockingActive(query.grp) THEN query' = [query EXCEPT !.at = "match"] ELSE Verdict(Pass)

MatchRequest ==
  /\ query.at = "match" /\ query.side = "request"
  /\ query' = [query EXCEPT !.at = "allowlist", !.name = "none", !.alias = "none",
                            !.res = Winner(GroupMatcher(query.grp), query.name)]

(* The response side looks at the other names the answer leads to, and     *)
(* only a block counts.                                                    *)
MatchResponse ==
  /\ query.at = "match" /\ query.side = "response"
  /\ LET res == Winner(GroupMatcher(query.grp), query.alias)
     IN  Verdict(IF res.act = "block" THEN res ELSE Pass)

CheckAllowlist ==
  /\ query.at = "allowlist"
  /\ LET res == IF AllowlistOnly(query.grp) THEN ApplyAllowlistOnly(query.res) ELSE query.res
     IN  IF res.act = "block" THEN query' = [query EXCEPT !.at = "service", !.res = res]
                              ELSE Verdict(res)

CheckService ==
  /\ query.at = "service"
  /\ Verdict(IF ServiceScheduleBlocks(query.res.src) THEN query.res ELSE Pass)

QueryStep ==
  /\ CanRead
  /\ \/ CheckEnabled \/ CheckSchedule \/ MatchRequest \/ MatchResponse
     \/ CheckAllowlist \/ CheckService
  /\ UNCHANGED Engine

-----------------------------------------------------------------------------
(* The handlers.  Each holds p.mu, and e.mu for one call of the engine.    *)
Call == /\ admin = "idle" /\ CanLock /\ left.ops > 0
        /\ lock' = [lock EXCEPT !.queued = FALSE]
        /\ UNCHANGED <<grp, mem, disk, web, now, pause, job>>

(* What the call costs: one of the calls, and a fault if the build failed. *)
Spend(ok) == left' = [left EXCEPT !.ops = @ - 1, !.faults = IF ok THEN @ ELSE @ - 1]
Built     == IF left.faults > 0 THEN {TRUE, FALSE} ELSE {TRUE}

(* After a call that succeeded the handler copies the engine's             *)
(* configuration; after one that failed it returns at once.                *)
Return(ok) == admin' = (IF ok THEN "copy" ELSE "idle") /\ apart' = (apart \/ ~ok)
Reload     == \E ok \in Built : Rebuild(ok) /\ Spend(ok) /\ Return(ok) /\ KeepQuery

(* Mutant: lists are compared by their number only.                        *)
MutInputsUnchanged(old, new) ==
  /\ matcher # {} /\ old.custom = new.custom /\ old.service = new.service
  /\ Cardinality(DOMAIN old.lists) = Cardinality(DOMAIN new.lists)

(* matcherInputsUnchanged: whether the index may be kept.  The code does   *)
(* not compare DataDir (rule_engine.go:153); the model has one directory.  *)
InputsUnchanged(old, new) ==
  /\ matcher # {} /\ old.custom = new.custom /\ old.service = new.service
  /\ DOMAIN old.lists = DOMAIN new.lists
  /\ \A l \in DOMAIN old.lists : /\ old.lists[l].url = new.lists[l].url
                                 /\ old.lists[l].on = new.lists[l].on

WithList(c, l, r) ==
  [c EXCEPT !.lists = [k \in DOMAIN c.lists \cup {l} |-> IF k = l THEN r ELSE c.lists[k]]]
Without(c, l) == [c EXCEPT !.lists = [k \in DOMAIN c.lists \ {l} |-> c.lists[k]]]

(* What UpdateFilterConfig and ConfigureBlockingSchedule are called with:  *)
(* one change of what GetConfig returned.                                  *)
Edits(c) ==
  {Without(c, l) : l \in DOMAIN c.lists}
  \cup {WithList(c, l, [c.lists[l] EXCEPT !.on = ~@]) : l \in DOMAIN c.lists}
  \cup {[c EXCEPT !.window = w] : w \in Windows}
  \cup {[c EXCEPT !.enabled = ~@], [c EXCEPT !.allowOnly = ~@]}

(* ConfigureBlockedServices starts from the handler's copy, which is older *)
(* than the engine's after a refresh or a failed call.                     *)
ServiceEdits == {[mem EXCEPT !.service = ~@]} \cup {[mem EXCEPT !.svcWindow = w] : w \in Windows}

UpdateConfig ==
  /\ Call /\ UNCHANGED file
  /\ \E c \in Edits(cfg) \cup ServiceEdits :
       /\ cfg' = c
       /\ \/ /\ InputsUnchanged(cfg, c)
             /\ UNCHANGED <<matcher, gmatcher, stale>> /\ Spend(TRUE) /\ Return(TRUE) /\ KeepQuery
          \/ /\ ~InputsUnchanged(cfg, c)
             /\ Reload

SetCustomRules ==
  /\ Call /\ UNCHANGED file
  /\ \E rules \in {{}, Custom} \ {cfg.custom} : cfg' = [cfg EXCEPT !.custom = rules]
  /\ Reload

(* Mutant: the list is changed and the index kept.                         *)
MutUpdateFilterList ==
  /\ Call /\ UNCHANGED <<file, matcher, gmatcher, stale>> /\ Spend(TRUE) /\ Return(TRUE)
  /\ \E l \in DOMAIN cfg.lists, u \in Urls, on \in BOOLEAN :
       /\ <<u, on>> # <<cfg.lists[l].url, cfg.lists[l].on>>
       /\ cfg' = WithList(cfg, l, [cfg.lists[l] EXCEPT !.url = u, !.on = on])
  /\ KeepQuery

(* A new URL keeps the validators and the cache file of the old one.       *)
UpdateFilterList ==
  /\ Call /\ UNCHANGED file
  /\ \E l \in DOMAIN cfg.lists, u \in Urls, on \in BOOLEAN :
       /\ <<u, on>> # <<cfg.lists[l].url, cfg.lists[l].on>>
       /\ cfg' = WithList(cfg, l, [cfg.lists[l] EXCEPT !.url = u, !.on = on])
  /\ Reload

RemoveFilterList ==
  /\ Call
  /\ \E l \in DOMAIN cfg.lists : cfg' = Without(cfg, l) /\ file' = [file EXCEPT ![l] = None]
  /\ Reload

(* SetClientGroups builds the group's index only; the handler then writes  *)
(* its own copy of the filter configuration with the groups.               *)
ConfigureClientGroups ==
  /\ admin = "idle" /\ CanLock /\ left.ops > 0
  /\ lock' = [lock EXCEPT !.queued = FALSE]
  /\ \E g \in GroupConfigs : grp' = g
  /\ gmatcher' \in GroupIndexes(grp', cfg, file)
  /\ admin' = "save" /\ Spend(TRUE)
  /\ UNCHANGED <<cfg, matcher, file, mem, disk, web, now, pause, job, query, stale, apart>>

(* Mutant: p.cfg keeps the filter it was started with.                     *)
MutCopied == mem
Copied    == IF admin = "copy" THEN cfg ELSE mem

(* The handler's copy and the file; an error of SaveConfig is not looked   *)
(* at.  A crash in between is the same as a save that failed.              *)
Save ==
  /\ admin \in {"copy", "save"} /\ (admin = "copy" => CanRead)
  /\ mem' = Copied
  /\ \E ok \in Built : /\ disk' = IF ok THEN [filter |-> mem', grp |-> grp] ELSE disk
                       /\ left' = [left EXCEPT !.faults = IF ok THEN @ ELSE @ - 1]
  /\ admin' = "idle"
  /\ apart' = (apart /\ admin = "save")
  /\ UNCHANGED <<cfg, grp, matcher, gmatcher, file, web, now, pause, lock, job, query, stale>>

-----------------------------------------------------------------------------
(* Downloads.  AddFilterList, RefreshList, RefreshAllLists and the ticker  *)
(* hold e.mu to write until the last list is answered for.                 *)
NewList(u) == [url |-> u, on |-> TRUE, tag |-> None, upd |-> 0, status |-> "new"]
On         == {l \in DOMAIN cfg.lists : cfg.lists[l].on}
Due        == {l \in On : now > cfg.lists[l].upd}

Begin(kind, lists, c) ==
  /\ CanLock
  /\ cfg' = c /\ lock' = [lock EXCEPT !.writer = kind, !.queued = FALSE]
  /\ job' = [kind |-> kind, todo |-> lists, changed |-> FALSE, err |-> FALSE]
  /\ UNCHANGED <<grp, matcher, gmatcher, file, mem, disk, web, now, pause, stale, apart>>
  /\ KeepQuery

BeginCall(kind, lists, c) ==
  /\ admin = "idle" /\ left.ops > 0 /\ Spend(TRUE) /\ admin' = "engine" /\ Begin(kind, lists, c)

AddFilterList == \E l \in Lists \ DOMAIN cfg.lists, u \in Urls : BeginCall("add", {l}, WithList(cfg, l, NewList(u)))
RefreshList   == \E l \in DOMAIN cfg.lists : BeginCall("one", {l}, cfg)
RefreshAllLists == BeginCall("all", On, cfg)
RunUpdateTicker ==
  /\ left.hour /\ left' = [left EXCEPT !.hour = FALSE]
  /\ Due # {} /\ Begin("ticker", Due, cfg) /\ UNCHANGED admin

(* What a server may answer to a request with the validator tag.           *)
NotModified(u, tag) ==
  tag # None /\ \/ tag = [url |-> u, ver |-> web[u]]
                \/ u \in Dated /\ web[u] <= tag.ver
FetchListContentConditional(u, tag) ==
  {"transport", "http", "ok"} \cup (IF NotModified(u, tag) THEN {"304"} ELSE {})

(* Mutant: a list that cannot be refreshed loses its rules.                *)
MutKeptFile(l, r) == IF r = "ok" THEN [url |-> cfg.lists[l].url, ver |-> web[cfg.lists[l].url]] ELSE None

(* Only new content replaces the cache file, by a rename.                  *)
KeptFile(l, r) ==
  IF r = "ok" THEN [url |-> cfg.lists[l].url, ver |-> web[cfg.lists[l].url]] ELSE file[l]

(* A transport error with a cache file is no error.                        *)
ListStatus(l, r) == CASE r = "ok" -> "ok" [] r = "304" -> "unchanged"
                      [] r = "transport" /\ file[l] # None -> "cached" [] OTHER -> "failed"

(* The list's entry after the answer r.                                    *)
Answered(l, r) ==
  [cfg.lists[l] EXCEPT !.status = ListStatus(l, r),
                       !.upd = IF r \in {"ok", "304"} THEN now ELSE @,
                       !.tag = IF r = "ok" THEN KeptFile(l, r) ELSE @]

ListDone(l, r) ==
  /\ file' = [file EXCEPT ![l] = KeptFile(l, r)]
  /\ cfg' = WithList(cfg, l, Answered(l, r))
  /\ job' = [job EXCEPT !.todo = @ \ {l}, !.changed = @ \/ r = "ok",
                        !.err = @ \/ ListStatus(l, r) = "failed"]

(* The lists are answered for in a fixed order.                            *)
Turn == CHOOSE l \in job.todo : TRUE

(* refreshListUnlocked: the next list of the download is answered for.     *)
RefreshListUnlocked ==
  /\ job.kind # "none" /\ job.todo # {}
  /\ \E r \in FetchListContentConditional(cfg.lists[Turn].url, cfg.lists[Turn].tag) : ListDone(Turn, r)
  /\ UNCHANGED <<grp, matcher, gmatcher, mem, disk, web, now, pause, lock, admin, left, stale, apart>>
  /\ KeepQuery

(* One list: rebuild unless it failed.  All lists, and the ticker: rebuild *)
(* if one of them changed.                                                 *)
NeedsRebuild == IF job.kind \in {"add", "one"} THEN ~job.err ELSE job.changed

(* Mutant: a return path that forgets the unlock.                          *)
MutRelease == job' = NoJob /\ (IF job.changed THEN lock' = [lock EXCEPT !.writer = "none"] ELSE UNCHANGED lock)
Release == job' = NoJob /\ lock' = [lock EXCEPT !.writer = "none"]

FinishRefresh ==
  /\ job.kind # "none" /\ job.todo = {}
  /\ \E ok \in Built :
       /\ ~NeedsRebuild => ok
       /\ UNCHANGED <<cfg, file>>
       /\ IF NeedsRebuild THEN Rebuild(ok)
            ELSE /\ stale' = (stale \/ job.kind = "add" \/ job.changed) /\ UNCHANGED <<matcher, gmatcher>>
       /\ IF job.kind = "ticker" THEN UNCHANGED <<admin, apart>>
            ELSE Return(ok /\ (job.kind \in {"add", "one"} => ~job.err))
       /\ left' = [left EXCEPT !.faults = IF ok THEN @ ELSE @ - 1]
  /\ Release
  /\ KeepQuery
  /\ UNCHANGED <<grp, mem, disk, web, now, pause>>

-----------------------------------------------------------------------------
(* SetFilterPause calls the engine without p.mu.                           *)
PauseFor ==
  /\ CanLock /\ left.ops > 0 /\ Spend(TRUE)
  /\ \E until \in {Forever, now + 1} : pause' = until
  /\ lock' = [lock EXCEPT !.queued = FALSE]
  /\ UNCHANGED <<cfg, grp, matcher, gmatcher, file, mem, disk, web, now, job, admin, query, stale, apart>>

ResumePause ==
  /\ CanLock /\ pause # 0 /\ pause' = 0 /\ left.ops > 0 /\ Spend(TRUE)
  /\ lock' = [lock EXCEPT !.queued = FALSE]
  /\ UNCHANGED <<cfg, grp, matcher, gmatcher, file, mem, disk, web, now, job, admin, query, stale, apart>>

(* GetBlockedServices, under p.mu: ServiceScheduleStates reads the clock,  *)
(* which takes the read lock again, inside the one it holds.               *)
ServiceScheduleStates ==
  /\ \/ /\ admin = "idle" /\ CanRead /\ left.ops > 0 /\ Spend(TRUE)
        /\ admin' = "states" /\ lock' = [lock EXCEPT !.reader = 1]
     \/ /\ admin = "states" /\ CanRead
        /\ admin' = "idle" /\ lock' = [lock EXCEPT !.reader = 0] /\ UNCHANGED left
  /\ UNCHANGED <<cfg, grp, matcher, gmatcher, file, mem, disk, web, now, pause, job, query, stale, apart>>

(* A writer (the ticker, SetFilterPause) that finds a reader inside waits, *)
(* and no reader gets in before it: sync.RWMutex.                          *)
WriterQueues ==
  /\ lock.reader > 0 /\ ~lock.queued
  /\ lock' = [lock EXCEPT !.queued = TRUE]
  /\ UNCHANGED <<cfg, grp, matcher, gmatcher, file, mem, disk, web, now, pause, job, admin, query, left, stale, apart>>

-----------------------------------------------------------------------------
(* The world: time passes, lists are published, the process dies and is    *)
(* started again with what is on disk; a pause does not survive.           *)
Tick ==
  /\ now < MaxTime /\ now' = now + 1 /\ left' = [left EXCEPT !.hour = TRUE]
  /\ UNCHANGED <<cfg, grp, matcher, gmatcher, file, mem, disk, web, pause, lock, job, admin, query, stale, apart>>

\* Only a download sees what is published, so the step is taken while one is
\* under way.  Bound: by the ticker, and out of the budget of faults.
Publish ==
  /\ job.kind = "ticker" /\ left.faults > 0 /\ left' = [left EXCEPT !.faults = @ - 1]
  /\ \E u \in Urls : /\ web[u] + 1 \in DOMAIN Content[u]
                    /\ web' = [web EXCEPT ![u] = @ + 1]
  /\ UNCHANGED <<cfg, grp, matcher, gmatcher, file, mem, disk, now, pause, lock, job, admin, query, stale, apart>>

Unlocked == [writer |-> "none", reader |-> 0, queued |-> FALSE]

(* NewRuleEngine goes on with an empty index when the first build fails.   *)
CrashRestart ==
  /\ left.faults > 0 /\ left' = [left EXCEPT !.faults = @ - 1]
  /\ cfg' = disk.filter /\ mem' = disk.filter /\ grp' = disk.grp
  /\ \E ok \in BOOLEAN : matcher' = (IF ok THEN LoadAllRules(cfg', file) ELSE {}) /\ stale' = ~ok
  /\ gmatcher' \in GroupIndexes(grp', cfg', file)
  /\ apart' = FALSE /\ pause' = 0 /\ lock' = Unlocked /\ job' = NoJob /\ admin' = "idle"
  /\ query' = NoQuery
  /\ UNCHANGED <<file, disk, web, now>>

(* A service that has downloaded the default subscription.                 *)
Init ==
  /\ LET stamp == [url |-> Default.url, ver |-> 1]
         entry == [NewList(Default.url) EXCEPT !.tag = stamp, !.status = "ok"]
     IN  /\ file = [l \in Lists |-> IF l = Default.list THEN stamp ELSE None]
         /\ cfg = [enabled |-> TRUE, custom |-> {}, service |-> FALSE, allowOnly |-> FALSE,
                   window |-> Always, svcWindow |-> Always, lists |-> [l \in {Default.list} |-> entry]]
  /\ grp = [enabled |-> FALSE, on |-> FALSE, allowOnly |-> FALSE, window |-> {}]
  /\ matcher = LoadAllRules(cfg, file) /\ gmatcher = {}
  /\ mem = cfg /\ disk = [filter |-> cfg, grp |-> grp]
  /\ web = [u \in Urls |-> 1] /\ now = 0 /\ pause = 0
  /\ lock = Unlocked /\ job = NoJob /\ admin = "idle" /\ query = NoQuery
  /\ left = [ops |-> MaxOps, faults |-> MaxFaults, hour |-> FALSE] /\ stale = FALSE /\ apart = FALSE

Handler == \/ UpdateConfig \/ SetCustomRules \/ UpdateFilterList \/ RemoveFilterList
           \/ ConfigureClientGroups \/ AddFilterList \/ RefreshList \/ RefreshAllLists

Next == \/ Ask \/ QueryStep \/ Handler \/ Save
        \/ RunUpdateTicker \/ RefreshListUnlocked \/ FinishRefresh
        \/ PauseFor \/ ResumePause \/ ServiceScheduleStates \/ WriterQueues
        \/ Tick \/ Publish \/ CrashRestart

Spec == Init /\ [][Next]_vars

(* A query, a download and the handler that waits for it go on: http.Client *)
(* has a time limit and the scheduler starves no goroutine.                *)
FairSpec == Spec /\ WF_vars(QueryStep) /\ WF_vars(RefreshListUnlocked) /\ WF_vars(FinishRefresh)
                 /\ WF_vars(admin = "states" /\ ServiceScheduleStates)

-----------------------------------------------------------------------------
(* The shape of the state.                                                 *)
TypeOK ==
  /\ DOMAIN cfg.lists \subseteq Lists /\ \A l \in DOMAIN cfg.lists : cfg.lists[l] \in ListRec
  /\ file \in [Lists -> Stamp] /\ web \in [Urls -> 1 .. MaxVersion]
  /\ now \in 0 .. MaxTime /\ pause \in 0 .. MaxTime + 1
  /\ lock \in [writer : {"none", "add", "one", "all", "ticker"}, reader : {0, 1}, queued : BOOLEAN]
  /\ (job.kind # "none") <=> (lock.writer # "none")
  /\ admin \in {"idle", "engine", "copy", "save", "states"}
  /\ query.at \in {"idle", "enabled", "schedule", "match", "allowlist", "service", "done"}
  /\ left.ops \in 0 .. MaxOps /\ left.faults \in 0 .. MaxFaults

(* Between calls the indexes are exactly what the configuration and the    *)
(* cache files say, although most changes skip the rebuild; only a call    *)
(* that failed half way, or a first build that failed, leaves them behind; *)
(* the group's index may be missing, never be another.                     *)
MatcherInStep ==
  Free /\ ~stale => /\ matcher = LoadAllRules(cfg, file)
                    /\ gmatcher \in {CompileGroup(grp, cfg, file), NoIndex}

(* A query is blocked by a list only if that list was switched on at some  *)
(* time while the query was in the filter.                                 *)
BlocksOnlyLive ==
  query.at = "done" /\ query.res.act = "block" /\ query.res.src \in Lists
    => query.res.src \in query.live

(* While no handler runs, the configuration the handlers start from names  *)
(* the lists, the rules and the services the engine works with, unless a   *)
(* call failed: a later ConfigureBlockedServices undoes nothing.           *)
SavedFollowsEngine ==
  admin = "idle" /\ Free /\ ~apart =>
    /\ DOMAIN mem.lists = DOMAIN cfg.lists /\ mem.custom = cfg.custom /\ mem.service = cfg.service
    /\ \A l \in DOMAIN cfg.lists : /\ mem.lists[l].url = cfg.lists[l].url
                                   /\ mem.lists[l].on = cfg.lists[l].on

(* Refreshing never takes rules away: a step in which a list that stays on *)
(* loses its content is the deletion of that list or a restart.            *)
RefreshKeepsRules ==
  [][\A l \in Lists : file[l] # None /\ file'[l] = None => l \notin DOMAIN cfg'.lists]_vars

(* Every query gets its verdict, however long lists are downloaded, unless *)
(* ServiceScheduleStates has shut the lock behind itself.                  *)
Decided == query.at \in {"idle", "done"}
EveryQueryDecided == []<>(Decided \/ (lock.queued /\ admin = "states"))

(* The indexes, the configuration of the engine and the one the handlers   *)
(* start from say the same.                                                *)
EngineInStep == TypeOK /\ MatcherInStep /\ SavedFollowsEngine

(* The filter goes on through refreshes: no rules are lost, no query waits *)
(* for ever.                                                               *)
FilterGoesOn == RefreshKeepsRules /\ EveryQueryDecided
=============================================================================
