---------------------------- MODULE RateLimiter ----------------------------
(***************************************************************************)
(* Rate limit per client (internal/core/rate_limiter.go; the token buckets  *)
(* are in rust/diting-ratelimit-core/src/limiter.rs).                       *)
(*                                                                         *)
(* A query reads the switch and the clock without a lock and takes its      *)
(* decision in the kernel, under one lock, later: the times the kernel sees *)
(* are not in order.  The table of buckets has a limit; a new client pushes *)
(* out the bucket that was used longest ago.  One unit of time is the time  *)
(* to refill Rate tokens.  Close has no caller in the service.              *)
(***************************************************************************)
EXTENDS Integers, FiniteSets

CONSTANTS Prefixes,      \* clients, aggregated by prefix
          Askers,        \* queries being decided
          LimitConfigs,  \* [enabled, rate, burst, exempt] a user may submit
          MaxBuckets,    \* buckets kept
          MaxTime,       \* the clock stops here
          IdleAfter,     \* time after which a full bucket is idle
          MaxGrants,     \* queries let through and counted
          None

VARIABLES limit,    \* the configuration of the kernel
          switch,   \* the copy of its switch that Go reads
          janitor,  \* the sweeping goroutine: "off", "on", or "leaving" (cancelled)
          clock,
          buckets,  \* prefix -> [tokens, last], or None
          asker,    \* query -> [prefix, now] between the clock and the kernel, or None
          granted,  \* history: tokens a bucket gave since it was made or reconfigured
          base      \* history: the bucket's time then

limVars == <<limit, switch, janitor, clock, buckets, asker, granted, base>>

Held == {p \in Prefixes : buckets[p] # None}
Least(a, b) == IF a <= b THEN a ELSE b

LimitInit ==
  /\ limit \in LimitConfigs
  /\ switch = limit.enabled
  /\ janitor = IF limit.enabled THEN "on" ELSE "off"
  /\ clock = 0
  /\ buckets = [p \in Prefixes |-> None]
  /\ asker = [q \in Askers |-> None]
  /\ granted = [p \in Prefixes |-> 0]
  /\ base = [p \in Prefixes |-> 0]

----------------------------------------------------------------------------
\* Allow in Go: with the switch off the query passes; otherwise the time is read.
ReadClock(q, p) ==
  /\ asker[q] = None /\ switch
  /\ asker' = [asker EXCEPT ![q] = [prefix |-> p, now |-> clock]]
  /\ UNCHANGED <<limit, switch, janitor, clock, buckets, granted, base>>

IsIdle(b, now) == b.tokens >= limit.burst /\ now - b.last > IdleAfter

MutOusted(now) == {{}}

\* The buckets that make room for a new one: the idle ones if that is enough,
\* otherwise also the one used longest ago.
Ousted(now) ==
  LET idle == {p \in Held : IsIdle(buckets[p], now)}
      rest == Held \ idle
      old  == {p \in rest : \A r \in rest : buckets[p].last <= buckets[r].last}
  IN IF Cardinality(Held) < MaxBuckets THEN {{}}
     ELSE IF Cardinality(rest) < MaxBuckets THEN {idle}
     ELSE {idle \cup {p} : p \in old}

MutRefill(b, now) ==
  [tokens |-> Least(limit.burst, b.tokens + (IF now > b.last THEN now - b.last ELSE 0) * limit.rate),
   last |-> now]

\* The tokens of the time since the bucket was last used; a time that lies
\* before it takes tokens away.
Refill(b, now) ==
  [tokens |-> Least(limit.burst, b.tokens + (now - b.last) * limit.rate), last |-> now]

\* Allow in the kernel: the whole decision is under its lock.
Allow(q) ==
  /\ asker[q] # None
  /\ LET p == asker[q].prefix
         now == asker[q].now
         fresh == buckets[p] = None
     IN IF ~limit.enabled \/ p \in limit.exempt
        THEN UNCHANGED <<buckets, granted, base>>
        ELSE \E out \in IF fresh THEN Ousted(now) ELSE {{}} :
               LET b == Refill(IF fresh THEN [tokens |-> limit.burst, last |-> now]
                               ELSE buckets[p], now)
                   pass == b.tokens >= 1
               IN /\ (IF fresh THEN 0 ELSE granted[p]) < MaxGrants
                  /\ buckets' = [r \in Prefixes |->
                       IF r = p THEN [b EXCEPT !.tokens = IF pass THEN @ - 1 ELSE @]
                       ELSE IF r \in out THEN None ELSE buckets[r]]
                  /\ granted' = [granted EXCEPT ![p] =
                       (IF fresh THEN 0 ELSE @) + (IF pass THEN 1 ELSE 0)]
                  /\ base' = [base EXCEPT ![p] = IF fresh THEN now ELSE @]
  /\ asker' = [asker EXCEPT ![q] = None]
  /\ UNCHANGED <<limit, switch, janitor, clock>>

----------------------------------------------------------------------------
\* UpdateConfig, under the controller's lock: a larger burst is handed out at
\* once, a smaller one cuts the tokens.  The kernel comes first, then the switch.
Configure ==
  /\ switch = limit.enabled
  /\ limit' \in LimitConfigs
  /\ buckets' = [p \in Prefixes |-> IF buckets[p] = None THEN None
       ELSE [buckets[p] EXCEPT !.tokens =
               Least(limit'.burst,
                     @ + (IF limit'.burst > limit.burst THEN limit'.burst - limit.burst ELSE 0))]]
  /\ granted' = [p \in Prefixes |-> 0]
  /\ base' = [p \in Prefixes |-> IF buckets[p] = None THEN 0 ELSE buckets[p].last]
  /\ UNCHANGED <<switch, janitor, clock, asker>>

MutSyncJanitor ==
  /\ switch # limit.enabled
  /\ switch' = limit.enabled
  /\ UNCHANGED <<limit, janitor, clock, buckets, asker, granted, base>>

\* enabled.Store and syncJanitorLocked: the sweep runs while the limit is on.
SyncJanitor ==
  /\ switch # limit.enabled
  /\ switch' = limit.enabled
  /\ janitor' = IF limit.enabled THEN "on" ELSE "leaving"
  /\ UNCHANGED <<limit, clock, buckets, asker, granted, base>>

\* runJanitor: a tick sweeps the idle buckets; a cancelled sweep may still
\* take a tick that is due.
CleanupIdleBuckets ==
  /\ janitor \in {"on", "leaving"}
  /\ buckets' = [p \in Prefixes |->
       IF buckets[p] # None /\ IsIdle(buckets[p], clock) THEN None ELSE buckets[p]]
  /\ UNCHANGED <<limit, switch, janitor, clock, asker, granted, base>>

JanitorEnds ==
  /\ janitor = "leaving"
  /\ janitor' = "off"
  /\ UNCHANGED <<limit, switch, clock, buckets, asker, granted, base>>

Tick ==
  /\ clock < MaxTime
  /\ clock' = clock + 1
  /\ UNCHANGED <<limit, switch, janitor, buckets, asker, granted, base>>

LimitNext ==
  \/ \E q \in Askers : Allow(q) \/ \E p \in Prefixes : ReadClock(q, p)
  \/ Configure
  \/ SyncJanitor
  \/ CleanupIdleBuckets
  \/ JanitorEnds
  \/ Tick

----------------------------------------------------------------------------
\* A client gets at most the burst plus what its time has refilled, also when
\* queries reach the kernel in another order than they read the clock, and
\* counted anew from the last change of the configuration.
RateHolds ==
  \A p \in Held : granted[p] <= limit.burst + limit.rate * (clock - base[p])

\* The table never outgrows its limit, and the sweep runs when the limit is on.
TableHolds ==
  /\ Cardinality(Held) <= MaxBuckets
  /\ switch => janitor = "on"
=============================================================================
