---------------------------- MODULE ServiceParts ----------------------------
(***************************************************************************)
(* Parts of the service beside the query path: the administrator's account *)
(* (AuthManager), the listener of the console (WebServer without its hub), *)
(* the names of the clients (ClientTracking), the addresses of the         *)
(* upstreams (Bootstrap) and the rate limit (RateLimiter).  They share no  *)
(* variable: part names the one whose steps a behaviour makes, and the     *)
(* others keep an initial value.                                           *)
(***************************************************************************)
EXTENDS Integers, FiniteSets

CONSTANTS
  Clients, MaxFailed, MaxTracked, MaxPasswords, MaxSessions,              \* AuthManager
  Tasks, Addresses, MaxBindFaults,                                        \* WebServer
  Ips, Namings, Slots, MaxClientStats, MaxClientCache,                    \* ClientTracking
  BootServers, BootConfigs, Dials, CooldownFailures, MaxBootEdits,        \* Bootstrap
  Prefixes, Askers, LimitConfigs, MaxBuckets, MaxTime, IdleAfter, MaxGrants, \* RateLimiter
  Absent      \* no entry, no slot

VARIABLES
  part,
  password, sessions, attempts, aged, locks, guesses,          \* AuthManager
  stopCh, hub, clients, queue, events, sub, panicked,          \* WebServer
  webCfg, servers, ipcServer, task, overlap, bindFaults,
  switches, aliased, stats, names, inFlight, slot, asked,      \* ClientTracking
  bootConf, bootEdits, bootCache, health, dial,                \* Bootstrap
  limit, switch, janitor, clock, buckets, asker, granted, base \* RateLimiter

authVars   == <<password, sessions, attempts, aged, locks, guesses>>
webVars    == <<stopCh, hub, clients, queue, events, sub, panicked, webCfg, servers,
                ipcServer, task, overlap, bindFaults>>
clientVars == <<switches, aliased, stats, names, inFlight, slot, asked>>
bootVars   == <<bootConf, bootEdits, bootCache, health, dial>>
limitVars  == <<limit, switch, janitor, clock, buckets, asker, granted, base>>
partVars   == <<part, authVars, webVars, clientVars, bootVars, limitVars>>

Auth == INSTANCE AuthManager

Web == INSTANCE WebServer WITH Subs <- {}, SendCap <- 1, EventCap <- 1, MaxEvents <- 1

Client == INSTANCE ClientTracking WITH Queries <- Namings, query <- asked, None <- Absent

Boot == INSTANCE Bootstrap WITH None <- Absent

Limiter == INSTANCE RateLimiter WITH None <- Absent

ASSUME PartsAssumption ==
  /\ IsFiniteSet(Clients) /\ MaxFailed \in Nat \ {0} /\ MaxTracked \in Nat
  /\ MaxPasswords \in Nat \ {0} /\ MaxSessions \in Nat
  /\ MaxBindFaults \in Nat
  /\ IsFiniteSet(Ips) /\ IsFiniteSet(Slots) /\ MaxClientCache \in Nat
  /\ IsFiniteSet(BootServers) /\ "failed" \notin BootServers \cup {Absent}
  /\ \A c \in BootConfigs : c.enabled \in BOOLEAN /\ c.servers \subseteq BootServers
  /\ CooldownFailures \in Nat
  /\ IsFiniteSet(Prefixes) /\ MaxBuckets \in Nat /\ IdleAfter \in Nat
  /\ \A c \in LimitConfigs : c.enabled \in BOOLEAN /\ c.rate \in Nat /\ c.burst \in Nat
  /\ Absent \notin [ip: Ips, at: {"asking", "stored", "done"}]
  /\ Absent \notin [name: {"rdns", "none"}, fresh: BOOLEAN]
  /\ Absent \notin [tokens: Int, last: Nat] \cup [prefix: Prefixes, now: Nat]

-----------------------------------------------------------------------------
PartsInit ==
  Auth!AuthInit /\ Web!WebInit /\ Client!TrackInit /\ Boot!BootInit /\ Limiter!LimitInit

PartsNext ==
  /\ IF part = "auth"   THEN Auth!AuthNext      ELSE UNCHANGED authVars
  /\ IF part = "web"    THEN Web!RestartNext    ELSE UNCHANGED webVars
  /\ IF part = "client" THEN Client!TrackNext   ELSE UNCHANGED clientVars
  /\ IF part = "boot"   THEN Boot!BootNext      ELSE UNCHANGED bootVars
  /\ IF part = "limit"  THEN Limiter!LimitNext  ELSE UNCHANGED limitVars

PartsSpec == PartsInit /\ [][UNCHANGED part /\ PartsNext]_partVars

-----------------------------------------------------------------------------
\* The defences keep their limits: sessions end with their password, guesses and
\* tokens are counted whatever comes in which order, the tables stay bounded,
\* and the console listens where it is configured (auth.go, rate_limiter.go,
\* controller_web.go).
DefencesHold ==
  /\ Auth!AuthTypeOK /\ Auth!SessionsAreCurrent /\ Auth!AtMostMaxGuesses
  /\ Auth!TrackedBounded
  /\ Limiter!RateHolds /\ Limiter!TableHolds
  /\ Web!ConsoleFollowsConfig

\* Names are found: of clients by one lookup at a time, in a table that stays
\* bounded, and of upstreams after every bootstrap server was asked, of which
\* only a failing one is on a cooldown (client_resolver.go, bootstrap.go).
NamesHold ==
  /\ Client!MarkedIsRunning /\ Client!NamesBounded
  /\ Boot!FailedMeansAllAsked /\ Boot!CoolMeansFailing
=============================================================================
