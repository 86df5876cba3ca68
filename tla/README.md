# DITING in TLA+

DITING is a local DNS accelerator and filter. A desktop service answers DNS on
this machine, forwards to encrypted upstreams, filters and caches, and can *take
over* the system's DNS: it points every network adapter at 127.0.0.1 / ::1 and
puts the original servers back later. An Android application does the same job
behind a VPN interface. This directory holds TLA+ models of both programs, the
TLC configurations that check them and machine-checked proofs of their safety
properties.

## 1. Inventory

Paths are relative to the repository; `svc` stands for `desktop/service`.

| component | where | state it keeps | what makes it correct |
|---|---|---|---|
| Takeover managers | `svc/internal/platform/{windows,linux}` | `active`, `adapters` (snapshots) under `m.mu`; the adapters, `/etc/resolv.conf` and its backups | an adapter that has lost its configuration can always be put back |
| State store | `svc/internal/platform/state.go` | `dns_state.json` | the record survives a crash and is given up only when not needed |
| Service controller | `svc/cmd/service` | `dnsRunning`, `server`, `ipcServer`, `cfg` under `p.mu` | adapters never point at a stopped listener; no call blocks for ever |
| Configuration | `svc/internal/config`, the Configure* handlers | `p.cfg`, the engines' copies, `config.json` | a restart changes nothing |
| DNS server | `svc/internal/dns/server*.go` | plain, DoT, DoH and DoQ listeners, their connections | listeners are those configured; a closed one keeps no connection |
| Middleware pipeline | `svc/internal/dns`, `controller_pipeline.go` | one query in 26 middlewares | what an early middleware refuses no later one serves |
| Answer cache | `svc/internal/core/cache*.go`, `cache_middleware.go` | entries, LRU, flights, refreshes, file | no foreign or older answer; every waiter is woken |
| Resolver | `svc/internal/core/resolver*.go`, `scheduler*.go` | providers, health, routes, group upstreams, pools | a query ends, on its path, and blames only what failed |
| Bootstrap resolver | `svc/internal/core/bootstrap*.go` | servers, their health, addresses | fails only when every server was asked |
| Rule engine | `svc/internal/core/rule_*.go`, `service_schedule.go` | indexes, lists and their files, groups, pauses, schedules | the index is the one of the configuration; a failed refresh loses nothing |
| Local zones | `svc/internal/core/custom_zone.go` | merged records of the zones | the deepest zone answers; chains end |
| Client names | `svc/internal/core/client_resolver.go` | counters, aliases, names, lookups in flight | one lookup for an address, bounded tables |
| Rate limiter | `svc/internal/core/rate_limiter.go`, `rust/diting-ratelimit-core` | token buckets | never more than burst + rate * t |
| Authentication | `svc/internal/auth` | password, sessions, failures, lockouts | lockout after the limit, sessions end with the password |
| Certificates | `svc/internal/core/cert_*.go` | two pairs of files, the loaded pair | what is served is a pair from the files |
| Query log | `svc/internal/querylog` | ring, statistics, writer queue, files | pages and sums are exact; what was accepted is written |
| Console server | `svc/internal/ipc`, `controller_web.go` | HTTP server, event hub, pages | no closed channel is used; pumps end |
| Android session | `android/engine/engine*.go` | VPN or DNS session under `e.mu` | a start that overlaps a stop leaves nothing behind |
| Android resolver | `android/engine/resolver*.go` | provider snapshots, pins | nothing is used after it was closed |
| Android DNS path | `android/engine/engine_*.go`, `dns_cache*.go` | cache, flights, address grants | refused names are not served, allowed ones are reachable |
| Android flows | `android/engine/flow*.go`, `mitm*.go` | flows, leaf certificates, blacklist, rule handles | every flow passes the same gates and ends |
| Android telemetry | `log_aggregator.go`, `traffic_tracker.go`, `tun_link_endpoint.go`, `policy_*.go` | queues, counters, native handles | each byte once, no freed handle |
| Rust crates | `rust/*` | matchers, tables and parsers behind a C interface | one call, one result |
| Platform services, toolbox, user interfaces | `svc/internal/platform/*/*_mgr.go`, `desktop/toolbox`, `desktop/app`, `android/app`, `shared` | operating system objects, view state | not modelled |

Interactions. The HTTP API calls the controller; each request is a goroutine of
its own. The controller calls the takeover manager, which takes `m.mu`; its own
`p.mu` protects `dnsRunning`, the listener and the configuration, and the
middlewares of every query take it too. The manager, the self-heal at start and
the emergency restore share the adapters and the state file, and the last two do
*not* take `m.mu`. A query passes the server, the pipeline, the cache and the
resolver, which asks the bootstrap resolver for the addresses of its upstreams;
the engines of the pipeline (rules, zones, client names, rate limiter) are
changed by handlers while it runs. On Android, Kotlin starts and stops sessions
from any thread, and DNS queries and flows meet in the address grants.

Hard behaviours: crashes between two writes; half-written adapters, pairs and
files; rollbacks that fail; locks held over downloads and over waits for
handlers; values read under a lock and used after it; snapshots retired under
their users; late answers; queues and tables at their limit.

## 2. Modules

Every module describes its state and its actions in its comments, and `map` in
`PROJECT.json` gives the source lines of each definition. Actions are cut where
the code lets go of a lock, waits, or makes a call that may fail.

| module | models | notes on the abstraction |
|---|---|---|
| `TakeoverState`, `StateStore` | adapter configurations, snapshots, the loopback filter; Save and Clear of `dns_state.json` with their faults | a stack is a static list, DHCP or the loopback |
| `WinTakeover` | the Windows manager, self-heal, emergency restore, crash and restart | one step per adapter or file write (2.1) |
| `LinuxTakeover` | the Linux manager over its three backends, backups, `restore-dns.sh` | extends `StateStore`; a configuration is what the scanner reads |
| `TakeoverContract` | what a takeover promises on any platform (abstract) | implemented by `WinTakeover` (2.2) |
| `WinTakeoverProofs`, `DnsServerProofs`, `DnsCacheProofs`, `DnsPipelineProofs`, `ResolverProofs`, `AndroidProofs` | TLAPS proofs about the module each is named after | section 5 |
| `ServiceProofs` | TLAPS proofs about `ServiceController`, `LinuxTakeover` and the parts in `ServiceParts` | section 5 |
| `RulesAndConsoleProofs` | TLAPS proofs about `RuleEngine` and, in its second half, `Console` | section 5 |
| `ServiceController` | StartDNS, StopDNS, takeover calls, ConfigureLAN, GetStatus, run, Stop, with `p.mu` and `m.mu` | a goroutine is the list of steps it still has to make |
| `ConfigPlane` | memory, engines and file under the Configure* handlers, password and query-log changes, crash and load | a section is a small number; one form of handler per section |
| `CertManager` | self-signed and imported pair, renewal, reload, torn files | a pair is a number |
| `AuthManager` | account, sessions, lockout, pruning | |
| `WebServer` | event hub and its pumps; restart in ConfigureWeb | |
| `QueryLog` | ring, hourly statistics, writers, day files, search | a record is its number |
| `DnsServer` | start, stop, reload of encrypted listeners, connections | messages are single, other or none |
| `DnsPipeline` | every middleware, down and up, refresh in the background | a name is what the engines know of it, an answer what the chain looks for |
| `DnsCache` | one shard, single flight, stale refresh, prefetch, cleaner, file | moments are fresh, stale or dead instead of TTLs |
| `Resolver` | the four modes, fallback, groups, routes, pools, Configure, Close | health as counters, scores as an order; of groups with one ID the first counts, of providers with one ID the last, and "default" is reserved |
| `Bootstrap` | server choice, health, cooldown, address cache | any order a weight can give |
| `RuleEngine` | indexes, list refresh, groups, schedules, pauses, handlers, crash | a rule is a name and a kind |
| `ZoneEngine` | parsing under limits, replacement, Lookup with chains; `LookupAgrees` compares it with a reference definition over reachability | a name is a sequence of labels |
| `ClientTracking` | counting, aliases, reverse lookups | |
| `RateLimiter` | token buckets, eviction, janitor, reconfiguration | a unit of time refills `rate` tokens |
| `AndroidEngine`, `AndroidTelemetry`, `AndroidResolver`, `AndroidDns`, `AndroidFlow` | the Android engine, by part | scores and matchers of the native library are any result they can give |
| `ServiceParts` | `AuthManager`, `WebServer` (the restart), `ClientTracking`, `Bootstrap` and `RateLimiter` side by side, and their properties | see below |
| `Android` | the five Android modules side by side, and their properties | see below |
| `Console` | `QueryLog` and `WebServer` (the hub) side by side, and their property | see below |
| `MC...` | instances for TLC; `MCTakeover`, `MCService`, `MCConsole` and `MCAndroid` put several components into one run | see below |

Components that share a variable are in one module. Those that share none are
put side by side, by an MC module or, where something is proved about them, by a
module that the MC module extends (`ServiceParts`, `Android`, `Console`): a
variable (`part`, `side` or `shown`) picks one component for the behaviour, and
the others keep an initial value, so that the state graph is the union of the
components' graphs and not their product. This loses nothing, since a step of
one such component neither reads nor writes the others' variables.

Operators named `Mut...` stand before the definition they are a plausible bug of.
`PROJECT.json` lists one for each property of a run; the others break the further
conjuncts of the same properties.

### 2.1 WinTakeover

`orig` is what each adapter had before DITING, `sys` what it has now, `file` the
state file, `active` and `mem` are `m.active` and `m.adapters`. The code's
`CleanAdapterState` is the operator of that name, not the identity: a loopback
stack becomes DHCP. An operation is a *job* of one of two processes. `mgr` is
whoever holds `m.mu`; `heal` is CheckAndSelfHeal, called at a start of the
service and by the emergency restore, which does not take `m.mu`.

| step (`job.pc`) | action | code |
|---|---|---|
| `save` | `SaveBeforeTakeover` | Save before the first adapter is written |
| `apply` | `Apply(a)` | one adapter to the loopback; a failure may leave one stack written and starts the rollback |
| `restore` | `RestoreAdapter(p, a)` | one adapter back to its snapshot; a failure is collected |
| `sweep` | `Sweep(p)` | failed adapters pulled to DHCP |
| `resave` | `Resave` | the file and memory of an operation that still has something to remember |
| `clear` | `ClearFile(p)` | the file removed, memory reset |
| `residual` | `ResetResidualLoopbackDNS(p)` | every loopback left on the machine to DHCP |

`Crash` may come between any two of them; `Start` restarts the service. The code
works under three conditions that its callers keep or break; each is a member of
`Discipline`, and none is enforced by the code: `settled` (after a rollback that
failed, nothing but a restore is called until the adapters are back), `notTwice`
(an adapter that is taken over is not taken over again) and `noOverlap` (an
emergency restore does not run beside a manager operation). `LinuxTakeover` has
one switch, `Disciplined`, for the same three.

### 2.2 TakeoverContract

Two actions: the set of recorded adapters is rewritten, but never drops one that
is off its configuration; and recorded adapters are reconfigured, each stack to
the loopback, to DHCP or back. `WinTakeover` implements it with `record` as the
adapters that the file would restore correctly.

## 3. Runs

| run | module | properties | instance | states |
|---|---|---|---|---|
| `win` | `MCWinTakeover` | `TypeOK`, `Recoverable`, `MemoryIsTrue`, `ForgetOnlyRestored`, `ImplementsContract`, `Progress` | 2 adapters of one display name, 2 stacks, all calls, 4 faults of 6 kinds | 93,131 |
| `takeover` | `MCTakeover` | `NeverCutOff`, `EveryoneReturns`; `LinuxWayBack`, `LinuxCrashIsHealed` | controller: 2 goroutines, 1 query, the calls that do not stop the listener; Linux: 2 interfaces, 3 backends, 2 faults | 63,702 |
| `service` | `MCService` | `LocksMatchSteps`, `ListenerFollowsConfig`, `DefencesHold`, `NamesHold`, `ServesWhatIsSaved` | controller: 2 goroutines, 1 query, all calls and faults; eight further components | 1,101,550 |
| `cache_safety` | `MCDnsCache` | `LruMatchesMap`, `GroupsStayApart`, `SharedNotOlder`, `OnlyYounger` | 2 queries and the cleaner, 2 groups, capacity 1 or 2 | 546,368 |
| `cache_live` | `MCDnsCache` | `QueriesEnd` | 2 queries, a refresher and the cleaner, 2 names, capacity 1, save, load and restart | 273,870 |
| `pipeline` | `MCDnsPipeline` | `PolicyHolds`, `NoPrivateAddress`, `NoLeak`, `EveryQueryAnswered` | 2 queries one after the other, 3 clients, 2 groups, one name for each thing the chain looks for, 1 change, 1 expiry | 653,134 |
| `server` | `MCDnsServer` | `ListenersAccounted`, `ClosedListenerKeepsNoConn`, `CallsReturn` | 2 callers, 3 calls, 2 starts, 1 connection, 3 configurations | 321,193 |
| `resolver` | `MCResolver` | `PathsHold`, `FailuresAreFair`, `EveryQueryEnds` | 2 queries, 4 servers, all modes, 1 reconfiguration, close | 449,044 |
| `rules` | `MCRuleEngine` | `EngineInStep`, `BlocksOnlyLive`, `FilterGoesOn` | 2 lists, 2 addresses, 2 names, 2 operations, 1 fault, crash | 1,504,940 |
| `android` | `MCAndroid` | `SessionIsClean`, `NoUseAfterClose`, `FilteringHolds`, `TrafficIsExact`, `AndroidProgress` | 2 starts, 2 stops; 2 providers, 2 snapshots; 2 queries, 1 refresh; 2 flows | 284,261 |
| `console` | `MCConsole` | `LogIsExact`, `ConsoleProgress` | 3 records, 2 writers, 2 administrators, 4 hours; 2 pages, 3 events | 398,837 |
| `svc_stopTakeover` | `ServiceController` | `StopReturns`, violated | 2 goroutines, EnableTakeover and StopDNS | |

`svc_stopTakeover` shows a disagreement between the code and its comment and
test: StopDNS with an active takeover calls currentIPCServer with `p.mu` held,
and that locks `p.mu` again (`svc/cmd/service/controller_dns.go:90`).

What the compound properties say:

* `DefencesHold`: sessions belong to the current password, at most the allowed
  guesses get through between two lockouts, the tables stay bounded; no bucket
  gives more than burst + rate * t, although times arrive out of order, and one
  janitor at most runs; the console listens where it is configured.
* `NamesHold`: an address marked as looked up is looked up, once, and the table of
  names is bounded; a bootstrap resolution fails only when every server was asked,
  and only a failing server cools down.
* `ServesWhatIsSaved`: when no handler runs and the last save worked, a restart
  would give every engine what it has; `Lookup` of the local zones gives what the
  reference definition gives, for every name and type of every configuration, and
  records stay in the budget; the loaded pair is the one in the files; a
  usable self-signed pair is replaced only because it expires or was asked to be;
  a start repairs what a crash left.
* `LogIsExact`: the ring is the newest records in order, the summary counts each
  record of the window once, a writer that ended has written what it accepted;
  the hub sends on no closed channel and closes none twice.
* `SessionIsClean`: whatever order StartFull, Stop, ReleaseTun and the standalone
  calls take, ended calls own no stack, writer, descriptor or resolver.
* `FilteringHolds`: no answer whose chain target was blocked throughout the
  query, fresh, stale or shared; a granted app can connect to what it resolved
  and holds no grant its allowlist does not give; flows pass the same gates in
  all three handlers.

**Bounds.** Two adapters are the least for a partial takeover, a partial
rollback and a shared display name; two stacks the least for a half-written
adapter. Four faults allow a failed apply, a failed restore in its rollback, a
failed sweep and a crash in one behaviour. Two goroutines cover every pair of
calls of the controller, the server and the log: the interleavings are between a
lock's holder and one other. In the cache two groups and a capacity of one or two
make eviction, resizing and a foreign group's key possible; `MaxStarts` (3) is
enough for a leader, a waiter and a third that meets what they left. Two queries
one after the other let the second meet what the first left in the cache. Two
lists, two of everything on Android and three records over two writers are the
least for one thing to replace another while a third step holds the old one; a
record more than the ring holds makes it wrap. The bounds in guards are named
constants (`MaxStarts`, `MaxEdits`, `MaxFaults`, ...), and `QueryLog` says at its
guards which calls it leaves out of the instance without files.

**What the passing runs leave out.** `takeover` leaves out StopDNS, ConfigureLAN
and Stop, because of `svc_stopTakeover` and the race of EnableTakeover with
StopDNS (section 4), and TakeoverSingle, which never asks for the listener.
`cache_safety` leaves out the optimistic refresh, the fallback of a group's query
to the default upstream and the file. `server` runs queries on the encrypted
entries only, `console` and `service` leave out overlapping restarts of the
console from what they promise, `win` and `takeover` keep the disciplines. The
reason is in section 4 each time. Conditions of this kind that are history
variables (`stale`, `apart`, `raced`, `overlap`, `dirty`) are set by the action
that breaks the promise, never by the checker.

**Deadlock** is checked in `win` and `takeover`. Elsewhere a bounded number of
starts, calls or edits is used up, and the state where nobody calls is an end; in
`service` the deadlock of `svc_stopTakeover` is itself reachable.

**Fairness.** Managers: a job that has begun goes on (it holds `m.mu` and calls
nothing that waits for another job), and the service manager restarts a stopped
service; both weak. `Progress` and `LinuxCrashIsHealed` speak of the time when no
fault is left, since a restore that always fails can heal nothing.
`ServiceController`: strong fairness for each goroutine, because a Go mutex hands
itself to a waiter that has starved for a millisecond. Everywhere else weak
fairness for each goroutine that is inside a call; network calls, handshakes and
downloads end with a result or at their deadline. Nobody has to make a call, no
peer has to send, and no clock has to advance.

## 4. Disagreements that have no run

Met while modelling, each between two places of the code or between the code and
one of its comments; file names without a directory are those of the component.
The models have the behaviour unless stated, and the properties are stated so
that they do not depend on it, or are checked where it cannot occur.

**Takeover** (`svc/internal/platform`, `svc/cmd/service`).

* A second takeover records the loopback it finds, cleaned to DHCP, over the
  user's servers (`windows/takeover.go:158`; `types.go:28`: the configuration
  from before the takeover). Needs `notTwice` dropped.
* After a rollback that failed, a takeover of another adapter saves a file
  without the stranded one (`windows/takeover.go:100`; `:116`: the file is the
  only basis of the next self-heal). Needs `settled` dropped.
* Save removes the old file before it renames the new one (`state.go:56`; `:35`:
  atomic). The fault kind `rename` of `StateStore` is this; no run has it.
* EnableTakeover reads `dnsRunning`, releases `p.mu` and takes over; a StopDNS in
  between finds no takeover and closes the listener (`controller_dns.go:107`;
  `:85`: the network must never be cut off).
* StopDNS waits for queries in flight with `p.mu` held while they wait for it
  (`controller_dns.go:96`; `dns/server.go:412` speaks of a time limit,
  `controller_dot.go:94` asks that `p.mu` be released first): the DNS library's
  own Shutdown has no limit for the plain listeners.
* After an emergency restore the manager still says it is active
  (`controller_emergency.go:24`; `windows/takeover.go:48`).
* RestoreSingle by display name restores every adapter with the name
  (`windows/takeover.go:313`; `:305`: only if unique).
* GetStatus reads adapters and flag in two sections of `m.mu`
  (`controller_dns.go:210`; `:219`).
* SetAdapterTakeover asks nobody whether the listener runs (`controller.go:294`).
* Linux: Restore clears the file although a backend failed (`linux/takeover.go:192`),
  as does TakeoverSingle after a rollback that failed (`:156`; `:98` says it must
  not); a second Apply of resolv.conf overwrites its own backup
  (`backend_resolvconf.go:32`), and an Apply or crash before the backup makes the
  restore write public servers over an untouched file (`:52`); NetworkManager's
  single calls touch every active connection (`backend_networkmanager.go:38,60`);
  the scan pins servers that came from DHCP (`adapter.go:57`).

**Server.** ReloadEncrypted checks `closed` before its lock, so a Shutdown in
between leaves listeners on a closed server (`server.go:96`; `:400`); two
ConfigureEncryptedDNS calls may reload in the other order and leave the older
configuration (`controller_dot.go:98`); encrypted entries pass messages with
several questions on (`server.go:286` says they are refused).

**Pipeline.** Bogus answers that were cached before the matcher was switched on,
or that came by refresh, prefetch or DNS64, are not corrected
(`cache_middleware.go:64`; `bogus_nxdomain_middleware.go:16`); private addresses
under a custom DNS64 prefix are not detected (`rebind_middleware.go:107`), so the
run has the well-known prefix; a refused answer is removed under the group the
client has now, not the one it was cached for (`filter_response_middleware.go:84`);
"stale_fallback" answers carry no extended error (`ede_middleware.go:116`).

**Cache.** The refresh of a stale answer asks the default upstream and stores
under the client's group (`cache_middleware.go:64`; `cache_policy.go:82`: groups
must be apart); a group's query falls back to the default upstream
(`upstream_route_middleware.go:47`; `resolver_groups.go:100`); an entry loses its
group in the file (`cache_persist.go:159`; `cache_prefetch.go:112`); an excluded
name is still prefetched (`cache_prefetch.go:103`; `cache_middleware.go:33`); a
load at run time replaces newer entries (`cache_persist.go:238`); an answer
fetched before Clear is put after it (`cache.go:254`).

**Resolver.** Pooled connections outlive a change of pins (`resolver_dot.go:88`);
a provider expanded from a stamp loses its identifier
(`resolver_providers.go:104`; `resolver_groups.go:11`); Configure empties the
routes before it fills them (`resolver.go:270`); a valid NXDOMAIN is lost when
the fallback fails (`scheduler_fallback.go:95`); an exchange on a closed pool
blames the provider; a failed bootstrap falls back to the system's DNS, which is
this service during a takeover (`resolver_doq.go:126`). Bootstrap: an answer of
the old servers is cached after UpdateConfig (`bootstrap.go:302` against `:93`);
health is kept by position in one place and by address in another (`:297`, `:166`).

**Rules.** ServiceScheduleStates takes the read lock twice and can deadlock with
a writer between (`service_schedule.go:132`; `rule_engine.go:192` warns of it):
`EveryQueryDecided` excuses that state; a 304 for a list whose address was changed
keeps the other address's rules (`rule_list_fetch.go:20`); downloads hold `e.mu`
(`rule_engine_lists.go:165`), and during a takeover resolve through this service;
a build that failed leaves the new configuration in place, so that a retry is
skipped (`rule_engine.go:153`); AddFilterList that failed leaves the list in the
engine only; ConfigureBlockedServices starts from `p.cfg.Filter`
(`controller_services.go:58`); responses are not checked against schedules
(`rule_engine_response.go:77`).

**Configuration, certificates, account, console.** SaveConfig removes before it
renames (`store.go:73`: atomic), so a crash between the two loses the whole
configuration, which `RestartChangesNothing` excuses;
ConfigurePrivacy changes fields before the engine refuses
(`controller_security.go:111`; `:128`: must fail whole); a UUID is handed out
though its save failed (`controller_mobileconfig.go:64`); GetEncryptedDNS reloads
beside a writer and may leave the old pair or an error
(`cert_manager.go:89`); a torn import destroys the old imported pair, which no
start heals (`:289`); pruning of login counters evicts any, not the oldest
(`auth.go:198`); overlapping ConfigureWeb calls restart the same old server and
leak or miss a listener (`controller_web.go:118`).

**Query log.** Search puts file hits before memory (`querylog.go:118`; `:117`),
and the total differs with the offset (`:111`; `:136`); a lower time bound stops
at the first older record, although appends may be out of order (`ring.go:132`);
records queued before Clear are written after it; a clear that meets a stopped
writer reports success and deletes nothing (`writer.go:261`); UpdateConfig holds
`q.mu` while the writer drains; two UpdateQueryLogConfig calls may save the one
that does not run (`controller_querylog.go:76`).

**Zones, clients, rate limit.** A chain of two links that leads nowhere is
answered with lone CNAMEs (`custom_zone.go:395`); a zone that fails to parse is
not authoritative, and its names go upstream; the preview of one zone has the
whole budget (`:493`); a reverse lookup overwrites the shown alias, and a removed
alias stays shown (`client_resolver.go:269`); after the burst is lowered, the idle
sweep does remove buckets (`rate_limiter.go:158` says it never can).

**Android** (`android/engine`). `sessionGen` is changed by Stop only (`engine.go:82`:
by every transition); a second Stop may close a nil or closed channel
(`log_aggregator.go:101`, `traffic_tracker.go:174`; `engine.go:160`: harmless);
the tail of an old session stops the new session's telemetry
(`engine_full_tunnel.go:314`, `engine.go:239`); StartStandalone publishes after a
Stop (`engine_standalone.go:396`) and stays "running" after a failed bind (`:371`);
grants are recorded after the answer is written (`:219`, `:227`), so an app may
connect too early; rewrite answers grant nothing; reconfiguring an allowlist
drops all grants; ApplyDNSConfig that is rejected has already changed the
bootstrap (`dns_config.go:66`; `:75`), and one that meets a Stop installs a snapshot
nobody retires (`:61`); candidates are skipped when a snapshot is retired in
mid-query (`resolver_smart.go:157`); resetQUICConn may close another query's
connection (`resolver_doq.go:41`); a failed mint counts as the client's failed
handshake (`mitm_relay.go:33`); a waiter that misses the leaf reports a failed
generation (`mitm_cert_manager.go:242`); a flow that begins after Stop dials
directly (`engine_outbound_scope.go:36`); TCP asks the allowlist before port 53,
UDP after it.

## 5. Proofs

Eight modules hold theorems. Each follows the same scheme: an inductive invariant
that strengthens the property, one lemma per action that the action preserves
it, and one short step from the invariant to the property. Unless a hypothesis
is named, a theorem holds for every value of the constants that meets the
module's ASSUME: any sets of goroutines, adapters, clients, keys, names, lists and
configurations, and any value of the bounds.

| module | theorem | property | hypothesis |
|---|---|---|---|
| `WinTakeoverProofs` | `TypeCorrect` | `TypeOK` (and `Roles`) | |
| | `TakeoverSafe` | `Recoverable`, with `SnapshotsAreOriginal` and `ActiveIffTaken` | `Careful` |
| | `MemoryStaysTrue` | `MemoryIsTrue` | `Careful` |
| | `ForgettingIsSafe` | `ForgetOnlyRestored` | `Careful` |
| | `ManagerImplementsContract` | `ImplementsContract` | `Careful` |
| `ServiceProofs` | `LocksAreExact` | `LocksMatchSteps` | |
| | `ListenerIsConfigured` | `ListenerFollowsConfig` | |
| | `ProtectedIsNeverCutOff` | `NeverCutOff` | `Protected` |
| | `LinuxComesBack` | `LinuxWayBack` | `Sound` |
| | `DefencesAreKept` | `DefencesHold` | |
| | `NamesAreFound` | `NamesHold` | |
| `DnsServerProofs` | `SocketsAreAccountedFor` | `ListenersAccounted` | |
| | `ClosedListenersAreEmpty` | `ClosedListenerKeepsNoConn` | |
| `DnsCacheProofs` | `ListIsTheMap` | `LruMatchesMap` | |
| | `NoAnswerIsUndone` | `OnlyYounger` | `NoLoad` |
| | `FlightAnswersAreNotOlder` | `SharedNotOlder` | `NoLoad` |
| | `GroupsAreApart` | `GroupsStayApart` | `OwnUpstreams` |
| `RulesAndConsoleProofs` | `EngineKeepsInStep` | `EngineInStep` | |
| | `OnlyLiveListsBlock` | `BlocksOnlyLive` | |
| | `RefreshesKeepRules` | `RefreshKeepsRules` (a part of `FilterGoesOn`) | |
| | `LogShowsWhatHappened` | `LogIsExact` | |
| `DnsPipelineProofs` | `NoPrivateAddressComesThrough` | `NoPrivateAddress` | |
| | `NothingLeaks` | `NoLeak` | |
| | `PolicyAlwaysHolds` | `PolicyHolds` | |
| `ResolverProofs` | `EveryPathHolds` | `PathsHold` | |
| | `EveryFailureIsFair` | `FailuresAreFair` | |
| `AndroidProofs` | `SessionsEndClean` | `SessionIsClean` | |
| | `HandlesOutliveUse` | `NoUseAfterClose` | |
| | `FilterNeverLeaks` | `FilteringHolds` | |
| | `CountsAreExact` | `TrafficIsExact` | |

The hypotheses are conditions on callers and configuration, not on the code, and
section 4 says what happens without each:

* `Careful`: the callers keep the three disciplines, and Save does not stop
  between its remove and its rename. Section 4 says how each of `settled`,
  `notTwice` and the assumption on Save fails without them.
* `Protected`: no call stops or restarts the listener (StopDNS, ConfigureLAN,
  Stop) and none takes one adapter over by itself. With any one of these four
  beside EnableTakeover, TLC finds `NeverCutOff` violated: the first three close
  the listener between EnableTakeover's look at `dnsRunning` and its takeover,
  and SetAdapterTakeover does not look (section 4).
* `Sound`: the callers of the Linux manager keep the disciplines, NetworkManager
  names its connections after their interfaces (a connection of another name
  takes its neighbours along), no write of a restore fails and Save does not stop
  between its remove and its rename. Every other failure and crash is allowed.
* `NoLoad`: no file is loaded while the service runs. A load replaces newer
  entries by what the file has.
* `OwnUpstreams`: besides, no answer is refreshed in the background (the refresh
  asks the default group's upstreams) and the groups' upstreams do not fail (the
  default ones are asked instead).

### 5.1 WinTakeoverProofs

`Recoverable` is not inductive: a `ClearFile` step keeps it only if every adapter
is back, and whether it is depends on what the job has done. The inductive
invariant (`Inductive`, in `WinTakeover`) adds

* `SnapsOriginal`: every snapshot, also those a job carries, is the original;
* `Roles` and `OneAtATime`: which calls each process makes and where it can be;
* `Memory`: what a running operation knows of `m.adapters` and `m.active`;
* `Cover`: the adapters off their configuration (`Off`) are among those the job
  still has to restore or has failed to restore, and those are what it will
  write into the file; in `clear` there are none.

`InitInductive` and `NextInductive` (one lemma per action, one step per conjunct
the action can disturb) give `InductiveAlways`. The contract follows from
`FileOrAdapters` (a step changes the file or the adapters, never both) and
`AdapterValues` (which values a stack can get).

### 5.2 ServiceProofs

**The controller.** A goroutine is the list of steps it still has to make, so the proofs are about
such lists. `WellOrdered` says that a step made under `p.mu` comes first in its
list, or after the restore and the notification of the same StopDNS, so whether
a goroutine is inside a section can be read off the head of its list (`Inside`). `Controlled` adds that `p.mu` is held exactly by who
is inside (`PLock`), that the holder of `m.mu` is at a step of the manager
(`MLock`), that an open listener is a running one and is closed before the drain
(`OpenRuns`), and that while a listener has the old setting a ConfigureLAN still
has both its stop and its start before it (`OldIsClosed`). For `NeverCutOff`,
`Guarded` adds that a goroutine about to take over has seen the listener run;
under `Protected` nothing takes that back.

**The Linux manager.** `LinuxWayBack` depends on where a job is, as on Windows, and
on the backend besides. `Inductive` adds: which jobs are on at one time (`Turns`);
that resolv.conf reads the same for every interface and its backups may be written
back (`OneFile`); that so may every snapshot in memory, in the file and in a job
(`Remembered`); that what is out of place is named by the state file, by
`restore-dns.sh` and, when no job runs, by memory (`Kept`); that the script is of
the takeover in memory or in the file (`ScriptIsCurrent`); and what a takeover, its
rollback and a restore know and have still to write (`TakingOver`, `Before`,
`Restoring`).

**The parts** share no variable, so the invariant is a conjunction, one conjunct
for each, and a step disturbs one of them.

* `AuthKeeps`: the history variable `guesses` is the client's counter as long as
  the client is not locked (`Tallied`), so the attempt that reaches the limit is
  the one that locks. The lemma about `pruneLocked` (`PrunedIsBounded`) is
  arithmetic of cardinalities: what is evicted is the excess, or all that may be.
* `LimitKeeps`: tokens given and tokens left are together covered by the burst and
  by the time up to the bucket's own clock (`Covers`). The bound of `RateHolds` is
  to the current time and is not inductive: it says nothing of the tokens left.
* `WebKeeps`: while calls have not overlapped and no port was taken, one call at a
  time is busy and `Replaces` says, step by step, which server listens.
* `ClientKeeps`: a lookup that has not removed its mark is the only one of its
  address, and every mark has one.
* `BootKeeps`: the servers of a dial are those it has asked and those in its plan
  (`DialPlace`), whatever became of their health in between.

### 5.3 DnsServerProofs

`NoLostListener` and `EnabledMeansListening` are kept only together with where
each caller is. `Accounted` adds `Phases` (a stop has `p.mu`, and only a close under
way has listeners in its hands), `Reloads` (the holder of `reloadMu` has taken the
encrypted listeners out of the fields and written its configuration), `Slots` (the
fields have the server's own listeners, one of a protocol), `Unmade`
(servers not made yet have nothing) and `RunningServes`. `ClosedListenersAreEmpty`
needs only the types besides: the tracking of a connection and the close of its
listener are under one lock.

### 5.4 DnsCacheProofs

`ListInv` is `LruMatchesMap` with the list as a function without repetitions;
lemmas say what removing, pushing and cutting do to such a list (`Without`,
`Insert`, `Bump`, the resize). `Flights` is the argument about the order of
answers: a goroutine that fetches, puts or finishes leads the flight of its key
(`Lead`), so there is one at a time; who is about to write has an answer younger
than the entry and than whatever any flight of the key has given (`Ahead`); who was
given an answer has that or a younger one, and so has the cache if it has any
(`Owes`). `Grouped` says the same goroutines' answers come from the group in the
key.

### 5.5 RulesAndConsoleProofs

Of the rule engine, `InStep` states that the indexes are exact whenever no failed call has marked them
stale and no download has changed a file or added a list, which is what allows
the refreshes that skip the rebuild. `Downloads` ties the writer's lock, the job
and the handler that waits for it. `Follows` relates the handlers' copy of the
configuration with the engine's between the handlers' steps. `Seen` says that a
query on its way has in `live` every list that is on, and the source of what
blocks it.

Of the console, `LogInv` and `HubInv` need nothing of each other. `LogInv` says

* `RingIsRecent`: the slots from `start` on, modulo `max`, are the list of the
  newest records that `recent` keeps as history; `add`, `resize` and the empty
  ring each have a lemma, and the pages follow since they read the same slots;
* `BucketsCount` and `CountedOnce`: from the start of the window on, the bucket of
  an hour counts the records of that hour, blocked ones apart, and an hour without
  a bucket has no records. Buckets older than the window may be evicted or not.
  The summary is then a sum over buckets. That the sum is the number of the
  records is shown without induction: among the sets of hours for which it is not,
  if there were any, there would be a smallest one (`SmallestSet`, from the
  library's theorem on minimal elements), and taking one hour out of it gives a
  smaller one (`SumCounts`);
* `WritersKeep`: what a writer accepted is on disk, gone, in its queue or in its
  buffer, and nothing but the disk or gone is left when it has ended. A writer
  without an open file has an empty buffer, which is why the flush at the end
  loses nothing;
* `InOrder`, `Referred` and `Addressed`: writers are made one after the other, so
  that a new one takes no place that somebody refers to; q.writer and every
  record refer to writers that were made, and only a record with a writer comes
  to `enqueue`.

`HubInv` says that the pages the hub sends to are registered and open: a page is
closed by whoever takes it out of the map, and only a page that was registered is
ever closed, so none comes back.

The attempt to prove that the clock stays in its range failed, and rightly: the
bound in `HourPasses` let it pass `MaxHour` when a day has more hours than that.
The guard now says both.

### 5.6 DnsPipelineProofs

The chain has 26 places, nine of which wrap the rest. `Inv` says of the query,
wherever it is,

* `Stacked`: the wrappers on the stack are in the order of the chain, and every
  wrapper that is always registered is on it once the query is past its place;
* `Screened`: what each place the query is past has excluded (`Cleared`: place 5
  the denied clients, place 8 the special names, place 17 the blocked names, and so
  on), as long as the feature was on all the while (`steady`);
* `Replied`: an answer on its way up meets the promise of every wrapper it is
  already past; `Settled` is the same with the set of wrappers still ahead, which
  is how one lemma per wrapper composes;
* `Sendable` and `Told`: what was sent, and what the log was told.

The cache needs no promise beyond well-formed answers: whatever it holds, from
whichever client or older configuration, goes up through the wrappers above it.
That the access check decides about the real asker is the lemma `ClientIsTheAsker`
about `RealClientIP`. Two assumptions on constants are the engines': a rule
engine gives one verdict on a name, and the cache starts with keys that can be
asked.

### 5.7 ResolverProofs

`InForce` says what the configuration in force and the Configure call under way
are made of, `Grouped` and `Routed` that groups and routes lead to its providers,
and that no group is bound otherwise than `Bind` says once Configure has returned.
`QueryOK` is about one query: what it has asked and may still ask is among the
providers of its path, all of one configuration; on its main chain the fallback
chain is still open to it, on the fallback chain it has asked a provider of it
(`Promised` when it fails). `Counted` says that a counter above zero is of a
provider that has failed, `Pools` that a closed pool is empty and no other exceeds
its limit, `Exchanging` that only exchanges with pooled providers take several
steps. A smart plan orders the providers by rank; `EveryRankIsTaken` (in a finite
strict total order, where the rank of an element is the number of those before it,
every rank is taken) is proved from theorems on cardinality, without induction.

### 5.8 AndroidProofs

The five parts share no variable; each has its own invariant.

* `EngineKeeps`: the engine belongs to one StartFull of its generation, and a
  session whose channel is closed is of an older one (`Owned`); what a start holds
  at each of its steps (`Holds`); a Stop closes the channel of an older generation
  (`Ending`); a telemetry goroutine that runs has a start that will stop it
  (`Covers`, `Covered`). The generation is bounded by the stops that were made.
* `ResolverKeeps`: the pins of a snapshot are the queries and attempts that hold it
  (`Pinned`); a provider is still to be asked, being asked or tried, unless the
  snapshot was retired (`Everyone`); `QueryPlace` and `AttemptPlace` say where a
  query and its attempts are.
* `DnsKeeps`: what was refused to a query all along is refused by the rules in
  force, and past the policy only the target of its name can be (`Screened`); who
  was given an address may connect to it (`Reachable`).
* `FlowKeeps`: rule sets are numbered in the order they are handed over, and those
  freed come before the current one; the authority is freed after it was taken
  away and nobody issues with it; what was closed to a flow all along is closed
  to it at its gate.
* `TelemetryKeeps`: the types of its four parts, `BytesOnce` (a byte is pending, in
  a report under way or reported) and `Replaced` (a handle is released only after
  it was replaced).

### 5.9 Only model-checked

* Liveness (`QueriesEnd`, `EveryQueryAnswered`, `EveryQueryDecided` and the other
  temporal properties under fairness): fairness and ENABLED are beyond the prover.
* `ServesWhatIsSaved`: it covers `ZoneEngine`, whose lookup is recursive, and the
  healing of a crash, which is liveness.

Every invariant a run checks is stated by a theorem.

## 6. Not modelled

Operating system wrappers, user interfaces and the maintenance toolbox keep no
state of the program. The Rust crates other than the rate limiter's core answer
one call at a time; their results are data of the modules that call them. Parsers
(zone files, filter syntax, stamps, TLS and HTTP messages), cryptography, the
arithmetic of TTLs and scores, migrations of old configuration files, and request
filtering inside an intercepted HTTP exchange are functions of one input, with no
interleaving to explore.

Abstracted away in what is modelled: file and registry formats, logging and
notifications, message contents, and query types within a name where nothing
tells them apart.

## 7. Plan

1. Proofs: the certificate files of `CertManager` and the configuration file of
   `ConfigPlane`.
2. `CachePolicy`: the TTL arithmetic as operators checked against a reference.
3. A second query in `DnsPipeline` beside the first, with the flight of `DnsCache`.
