--------------------------- MODULE ClientTracking ---------------------------
(***************************************************************************)
(* Names of the clients (internal/core/client_resolver.go).                *)
(*                                                                         *)
(* Every query identifies its client: the client is counted, then named    *)
(* from an alias, from hosts or rewrite rules, or from the name cache, and  *)
(* on a miss a background reverse lookup is started.  The lock is taken     *)
(* and released for every one of these steps, so queries, lookups and      *)
(* alias changes interleave.  Configure of the resolver has no caller in    *)
(* the service: the two switches are fixed when it is built.               *)
(***************************************************************************)
EXTENDS Naturals, FiniteSets

CONSTANTS Ips,               \* client addresses
          Queries,           \* queries being handled
          Slots,             \* places of the semaphore (maxConcurrentRDNS)
          MaxClientStats,    \* clients counted
          MaxClientCache,    \* names cached
          None

\* A name by where it comes from; "none" is a lookup that found nothing.
Sources == {"alias", "hosts", "rdns", "none"}

VARIABLES switches,   \* [enabled, rdns]
          aliased,    \* the addresses that have an alias
          stats,      \* address -> the source of its name, None: not counted
          names,      \* the name cache: None or [name, fresh]
          inFlight,   \* addresses marked as being looked up
          slot,       \* slot -> the lookup that holds it, or None
          query       \* query -> what it does for which address

trackVars == <<switches, aliased, stats, names, inFlight, slot, query>>

Counted == {i \in Ips : stats[i] # None}
Cached  == {i \in Ips : names[i] # None}
Idle    == [at |-> "idle", ip |-> None, name |-> None]

TrackInit ==
  /\ switches \in [enabled : BOOLEAN, rdns : BOOLEAN]
  /\ aliased \in SUBSET Ips
  /\ stats = [i \in Ips |-> None]
  /\ names = [i \in Ips |-> None]
  /\ inFlight = {}
  /\ slot = [s \in Slots |-> None]
  /\ query = [q \in Queries |-> Idle]

Goes(q, place, name) == query' = [query EXCEPT ![q].at = place, ![q].name = name]
Ends(q) == query' = [query EXCEPT ![q] = Idle]

----------------------------------------------------------------------------
(* IdentifyClient. *)

\* The statistics; a new client pushes out one that has no alias, if there is one.
\* With the switch off the name is not looked for.
Count(q, ip) ==
  /\ query[q] = Idle
  /\ \E out \in SUBSET (Counted \ aliased) :
       /\ Cardinality(out) =
            IF stats[ip] = None /\ Cardinality(Counted) >= MaxClientStats
               /\ Counted \ aliased # {}
            THEN 1 ELSE 0
       /\ stats' = [i \in Ips |-> IF i \in out THEN None
                                  ELSE IF i = ip /\ stats[i] = None THEN "none"
                                  ELSE stats[i]]
  /\ query' = [query EXCEPT ![q] =
       IF switches.enabled THEN [at |-> "alias", ip |-> ip, name |-> None] ELSE Idle]
  /\ UNCHANGED <<switches, aliased, names, inFlight, slot>>

ReadAlias(q) ==
  /\ query[q].at = "alias"
  /\ IF query[q].ip \in aliased THEN Goes(q, "update", "alias") ELSE Goes(q, "local", None)
  /\ UNCHANGED <<switches, aliased, stats, names, inFlight, slot>>

\* A loopback address has a fixed name; the hosts table and the rewrite rules
\* may know another.
LookupReverse(q) ==
  /\ query[q].at = "local"
  /\ Goes(q, "update", "hosts") \/ Goes(q, "cache", None)
  /\ UNCHANGED <<switches, aliased, stats, names, inFlight, slot>>

\* A name that has not expired ends the search, an empty one too.
ReadCache(q) ==
  /\ query[q].at = "cache"
  /\ LET entry == names[query[q].ip] IN
       IF entry = None THEN Goes(q, "launch", None)
       ELSE IF ~entry.fresh THEN Goes(q, "launch", entry.name)
       ELSE IF entry.name # "none" THEN Goes(q, "update", entry.name)
       ELSE Ends(q)
  /\ UNCHANGED <<switches, aliased, stats, names, inFlight, slot>>

MutLaunch(q) ==
  /\ query[q].at = "launch"
  /\ IF switches.rdns
     THEN /\ inFlight' = inFlight \cup {query[q].ip}
          /\ \/ /\ query[q].ip \in inFlight \/ \A s \in Slots : slot[s] # None
                /\ UNCHANGED slot
             \/ /\ query[q].ip \notin inFlight
                /\ \E s \in Slots : slot[s] = None
                     /\ slot' = [slot EXCEPT ![s] = [ip |-> query[q].ip, at |-> "asking"]]
     ELSE UNCHANGED <<inFlight, slot>>
  /\ Ends(q)
  /\ UNCHANGED <<switches, aliased, stats, names>>

\* The lookup starts when none runs for the address and a slot is free; the
\* query does not wait for it.
Launch(q) ==
  /\ query[q].at = "launch"
  /\ LET ip == query[q].ip
         free == {s \in Slots : slot[s] = None}
     IN IF switches.rdns /\ ip \notin inFlight /\ free # {}
        THEN /\ inFlight' = inFlight \cup {ip}
             /\ \E s \in free : slot' = [slot EXCEPT ![s] = [ip |-> ip, at |-> "asking"]]
        ELSE UNCHANGED <<inFlight, slot>>
  /\ Ends(q)
  /\ UNCHANGED <<switches, aliased, stats, names>>

\* updateInfoName: the client may have been pushed out in the meantime.
UpdateInfoName(q) ==
  /\ query[q].at = "update"
  /\ stats' = [stats EXCEPT ![query[q].ip] = IF @ = None THEN None ELSE query[q].name]
  /\ Ends(q)
  /\ UNCHANGED <<switches, aliased, names, inFlight, slot>>

----------------------------------------------------------------------------
(* asyncResolveRDNS. *)

MutEvicted == {{}}

\* What makes room in a full cache: an expired entry, or any.
Evicted ==
  IF Cardinality(Cached) < MaxClientCache THEN {{}}
  ELSE LET old == {i \in Cached : ~names[i].fresh}
       IN {{i} : i \in IF old # {} THEN old ELSE Cached}

\* The answer, or the end of its two seconds, is cached and shown.
Store(s) ==
  /\ slot[s] # None /\ slot[s].at = "asking"
  /\ \E name \in {"rdns", "none"}, out \in Evicted :
       /\ names' = [i \in Ips |-> IF i = slot[s].ip THEN [name |-> name, fresh |-> TRUE]
                                  ELSE IF i \in out THEN None ELSE names[i]]
       /\ stats' = [stats EXCEPT ![slot[s].ip] =
                      IF @ = None \/ name = "none" THEN @ ELSE name]
  /\ slot' = [slot EXCEPT ![s].at = "stored"]
  /\ UNCHANGED <<switches, aliased, inFlight, query>>

\* The deferred calls: the mark goes first, then the slot.
Unmark(s) ==
  /\ slot[s] # None /\ slot[s].at = "stored"
  /\ inFlight' = inFlight \ {slot[s].ip}
  /\ slot' = [slot EXCEPT ![s].at = "done"]
  /\ UNCHANGED <<switches, aliased, stats, names, query>>

ReleaseSlot(s) ==
  /\ slot[s] # None /\ slot[s].at = "done"
  /\ slot' = [slot EXCEPT ![s] = None]
  /\ UNCHANGED <<switches, aliased, stats, names, inFlight, query>>

----------------------------------------------------------------------------
\* An alias is set, and shown at once, or removed.
SetAlias(ip) ==
  /\ \/ /\ aliased' = aliased \cup {ip}
        /\ stats' = [stats EXCEPT ![ip] = IF @ = None THEN None ELSE "alias"]
     \/ aliased' = aliased \ {ip} /\ UNCHANGED stats
  /\ UNCHANGED <<switches, names, inFlight, slot, query>>

\* The clock passes the end of an entry's life.
NameExpires(ip) ==
  /\ names[ip] # None /\ names[ip].fresh
  /\ names' = [names EXCEPT ![ip].fresh = FALSE]
  /\ UNCHANGED <<switches, aliased, stats, inFlight, slot, query>>

TrackNext ==
  \/ \E q \in Queries, ip \in Ips : Count(q, ip)
  \/ \E q \in Queries : \/ ReadAlias(q) \/ LookupReverse(q) \/ ReadCache(q)
                        \/ Launch(q) \/ UpdateInfoName(q)
  \/ \E s \in Slots : Store(s) \/ Unmark(s) \/ ReleaseSlot(s)
  \/ \E ip \in Ips : SetAlias(ip) \/ NameExpires(ip)

----------------------------------------------------------------------------
\* An address is marked as being looked up exactly while one lookup, holding
\* one slot, is running for it.  A mark without a lookup would leave the client
\* nameless until the service restarts; two lookups would spend two slots.
MarkedIsRunning ==
  \A ip \in Ips :
    Cardinality({s \in Slots : slot[s] # None /\ slot[s].ip = ip /\ slot[s].at # "done"})
      = IF ip \in inFlight THEN 1 ELSE 0

\* The name cache keeps its limit whatever finishes first.
NamesBounded == Cardinality(Cached) <= MaxClientCache
=============================================================================
