------------------------------ MODULE DnsCache ------------------------------
(***************************************************************************)
(* The answer cache (internal/core/cache*.go) as the cache middleware      *)
(* (internal/dns/cache_middleware.go), the background refresh of a stale   *)
(* answer, the prefetch of the cleaner, the administrator and the file it  *)
(* is saved in use it: one shard of it, for shards share nothing.          *)
(*                                                                         *)
(* A key is a name and a client group.  An answer is the group whose       *)
(* upstream gave it and when; whether it is fresh, stale (in its grace     *)
(* period) or dead is in the sets stale and dead of the moments answers    *)
(* were given.  Each section of shard.mu or of the single flight's lock is *)
(* one step, and so is the wait for an upstream.                           *)
(***************************************************************************)
EXTENDS Naturals, Sequences, FiniteSets

CONSTANTS
  Queries,       \* goroutines of client queries
  Refreshers,    \* bound: goroutines that refresh in the background at once
  Cleaner,       \* the goroutine of startCleaner
  Names,         \* names asked for
  Groups,        \* client groups
  Default,       \* DefaultClientGroupID
  Caps,          \* values of shard.maxEntries
  Optimistic,    \* cfg.Optimistic
  StaleFallback, \* cfg.StaleFallbackEnabled
  Events,        \* what else happens, a subset of EventKinds
  Faults,        \* what may go wrong, a subset of FaultKinds
  MaxStarts,     \* bound: queries, prefetches, loads and restarts
  None

Procs == Queries \cup Refreshers \cup {Cleaner}
EventKinds == {"prefetch", "block", "clear", "resize", "exclude", "save", "load", "restart"}
FaultKinds == {"upstream", "group", "uncacheable"}

ASSUME CacheAssumption ==
  /\ Default \in Groups /\ Caps \subseteq Nat \ {0} /\ Caps # {}
  /\ Optimistic \in BOOLEAN /\ StaleFallback \in BOOLEAN
  /\ Events \subseteq EventKinds /\ Faults \subseteq FaultKinds
  /\ MaxStarts \in Nat
  /\ None \notin Procs /\ None \notin [from : Groups, born : Nat]
  /\ None \notin [from : Groups, born : Nat, id : Nat, tag : Groups]
  /\ Queries \cap Refreshers = {} /\ Cleaner \notin Queries \cup Refreshers

VARIABLES
  entries,   \* shard.entries
  lru,       \* shard.lruList, most recent first
  cap,       \* shard.maxEntries
  flight,    \* flight.calls: the goroutine that leads the call of a key
  proc,      \* goroutines
  stale,     \* moments whose answers are past expiresAt
  dead,      \* moments whose answers are past staleUntil
  excluded,  \* names the exclusion rules match
  file,      \* dns_cache.json
  loading,   \* records LoadFromFile has read and still has to insert
  booting,   \* the service is starting, no query is served yet
  starts,    \* counts towards MaxStarts
  now        \* clock of fetches and insertions

vars == <<entries, lru, cap, flight, proc, stale, dead, excluded, file, loading,
          booting, starts, now>>

Keys  == Names \X Groups
Nothing == [k \in Keys |-> None]

(* A goroutine: where it is, the key of its flight, the key it writes, the *)
(* group whose upstream it asks, its answer, its stale candidate, the      *)
(* entry its last lookup saw, whether it shared a flight, and the answer   *)
(* that flight has put into the cache.                                     *)
Idle == [pc |-> "idle", key |-> None, to |-> None, via |-> None, val |-> None,
         cand |-> None, seen |-> None, shared |-> FALSE, given |-> None]

Goroutine(pc, k, to, via) == [Idle EXCEPT !.pc = pc, !.key = k, !.to = to, !.via = via]

Fresh(e) == e.born \notin stale \cup dead
Same(e, f) == e # None /\ f # None /\ e.id = f.id

Rest == UNCHANGED <<cap, stale, dead, excluded, file, loading, booting>>
Store == <<entries, lru>>

-----------------------------------------------------------------------------
(* The shard.                                                              *)
InLru(s) == {s[i] : i \in DOMAIN s}
Elem(k)    == CHOOSE i \in DOMAIN lru : lru[i] = k   \* the entry's list element
Without(k) == IF k \notin InLru(lru) THEN lru
              ELSE [i \in 1 .. Len(lru) - 1 |-> IF i < Elem(k) THEN lru[i] ELSE lru[i + 1]]

(* Mutant: nothing is evicted.                                             *)
MutNoEvict(k, e) ==
  /\ lru' = <<k>> \o Without(k)
  /\ entries' = [entries EXCEPT ![k] = e]

(* PutForGroup and insertEntry: replace, or evict the oldest when full.    *)
Insert(k, e) ==
  LET kept == IF entries[k] = None /\ Len(lru) >= cap
                THEN SubSeq(lru, 1, Len(lru) - 1) ELSE Without(k)
  IN /\ lru' = <<k>> \o kept
     /\ entries' = [x \in Keys |-> IF x = k THEN e
                                   ELSE IF x \in InLru(kept) THEN entries[x] ELSE None]

Delete(k) ==
  /\ lru' = Without(k)
  /\ entries' = [entries EXCEPT ![k] = None]

(* Mutant: the element is moved although its entry has left the shard.     *)
MutMoveAlways(p) ==
  /\ proc[p].pc = "bump"
  /\ lru' = <<proc[p].key>> \o Without(proc[p].key)
  /\ proc' = [proc EXCEPT ![p].pc = "done"]
  /\ UNCHANGED <<entries, flight, starts, now>> /\ Rest

(* The move to the front, in a section of its own after a hit.             *)
Bump(p) ==
  LET k == proc[p].key IN
  /\ proc[p].pc = "bump"
  /\ lru' = IF Same(entries[k], proc[p].seen) THEN <<k>> \o Without(k) ELSE lru
  /\ proc' = [proc EXCEPT ![p].pc = "done"]
  /\ UNCHANGED <<entries, flight, starts, now>> /\ Rest

-----------------------------------------------------------------------------
(* Mutant: one key for all groups.                                         *)
MutOneKey(n, g) == <<n, Default>>

CacheKeyForGroup(n, g) == <<n, g>>

(* A query of a client of group g.  A name that is excluded goes past the  *)
(* cache, to the upstream and back.                                        *)
Ask(q, n, g) ==
  LET k == CacheKeyForGroup(n, g) IN
  /\ proc[q].pc = "idle" /\ ~booting
  /\ starts < MaxStarts /\ starts' = starts + 1
  /\ proc' = [proc EXCEPT ![q] = Goroutine(IF n \in excluded THEN "bypass" ELSE "get", k, k, g)]
  /\ UNCHANGED <<flight, now>> /\ UNCHANGED Store /\ Rest

(* Mutant: the stale candidate is preferred to the flight's answer.        *)
MutPreferStale(r) == [r EXCEPT !.pc = "done", !.val = IF r.cand = None THEN @ ELSE r.cand]

(* The answer a query is left with: the flight's, or the stale candidate.  *)
Settle(r) == [r EXCEPT !.pc = "done", !.val = IF @ = None THEN r.cand ELSE @]
AfterMiss(r) == IF r.shared THEN Settle(r) ELSE [r EXCEPT !.pc = "flight"]

(* GetForGroup, and what the middleware does with the result.  A stale     *)
(* answer is served at once and refreshed in the background if the         *)
(* configuration is optimistic, and kept as a candidate if not.            *)
Get(p) ==
  LET r == proc[p]  e == entries[r.key] IN
  /\ r.pc = "get"
  /\ \/ /\ e = None
        /\ proc' = [proc EXCEPT ![p] = AfterMiss(r)]
     \/ /\ e # None /\ Fresh(e)
        /\ proc' = [proc EXCEPT ![p] = [r EXCEPT !.val = e, !.seen = e, !.pc = "bump"]]
     \/ /\ e # None /\ ~Fresh(e) /\ StaleFallback /\ e.born \notin dead
        /\ \/ r.shared /\ proc' = [proc EXCEPT ![p] = Settle(r)]
           \/ ~r.shared /\ ~Optimistic
              /\ proc' = [proc EXCEPT ![p] = [r EXCEPT !.cand = e, !.pc = "flight"]]
           \/ ~r.shared /\ Optimistic
              /\ \E b \in Refreshers :
                   /\ proc[b].pc = "idle"
                   /\ proc' = [proc EXCEPT ![p] = [r EXCEPT !.val = e, !.pc = "done"],
                                           ![b] = Goroutine("flight", r.key, r.key, Default)]
     \/ /\ e # None /\ ~Fresh(e) /\ (e.born \in dead \/ ~StaleFallback)
        /\ proc' = [proc EXCEPT ![p] = [r EXCEPT !.seen = e, !.pc = "expire"]]
  /\ UNCHANGED <<flight, starts, now>> /\ UNCHANGED Store /\ Rest

(* The lazy removal of a dead entry, if it is still the one that was seen. *)
Expire(p) ==
  LET k == proc[p].key  e == proc[p].seen IN
  /\ proc[p].pc = "expire"
  /\ IF Same(entries[k], e) /\ e.born \in dead THEN Delete(k) ELSE UNCHANGED Store
  /\ proc' = [proc EXCEPT ![p] = AfterMiss(proc[p])]
  /\ UNCHANGED <<flight, starts, now>> /\ Rest

-----------------------------------------------------------------------------
(* Mutant: every caller leads.                                             *)
MutEveryoneLeads(p) ==
  /\ proc[p].pc = "flight"
  /\ flight' = [flight EXCEPT ![proc[p].key] = p]
  /\ proc' = [proc EXCEPT ![p].pc = "fetch"]
  /\ UNCHANGED <<starts, now>> /\ UNCHANGED Store /\ Rest

(* singleFlightGroup.Do: lead the call of the key, or wait for its leader. *)
Do(p) ==
  LET k == proc[p].key IN
  /\ proc[p].pc = "flight"
  /\ IF flight[k] = None
       THEN flight' = [flight EXCEPT ![k] = p] /\ proc' = [proc EXCEPT ![p].pc = "fetch"]
       ELSE flight' = flight /\ proc' = [proc EXCEPT ![p].pc = "wait"]
  /\ UNCHANGED <<starts, now>> /\ UNCHANGED Store /\ Rest

(* The upstream of the group answers; a query whose group's upstream fails *)
(* falls back to the default one.  Some answers may not be cached.         *)
Reply(p) ==
  {[from |-> g, born |-> now + 1] :
     g \in {proc[p].via} \cup (IF p \in Queries /\ "group" \in Faults THEN {Default} ELSE {})}

Exchange(p) ==
  /\ proc[p].pc \in {"fetch", "bypass"}
  /\ \/ /\ now' = now + 1
        /\ \E a \in Reply(p) :
           \/ proc[p].pc = "bypass" /\ proc' = [proc EXCEPT ![p].val = a, ![p].pc = "done"]
           \/ proc[p].pc = "fetch" /\ proc' = [proc EXCEPT ![p].val = a, ![p].pc = "put"]
           \/ /\ proc[p].pc = "fetch" /\ "uncacheable" \in Faults
              /\ proc' = [proc EXCEPT ![p].val = a, ![p].pc = "finish"]
     \/ /\ "upstream" \in Faults /\ now' = now
        /\ proc' = [proc EXCEPT ![p].pc = IF @ = "bypass" THEN "done" ELSE "finish"]
  /\ UNCHANGED <<flight, starts>> /\ UNCHANGED Store /\ Rest

PutForGroup(p) ==
  LET a == proc[p].val IN
  /\ proc[p].pc = "put"
  /\ now' = now + 1
  /\ Insert(proc[p].to, [from |-> a.from, born |-> a.born, id |-> now + 1, tag |-> proc[p].to[2]])
  /\ proc' = [proc EXCEPT ![p].pc = "finish", ![p].given = a]
  /\ UNCHANGED <<flight, starts>> /\ Rest

(* Mutant: the call is deleted, but only one waiter is woken.              *)
MutWakeOne(p) ==
  LET k == proc[p].key IN
  /\ proc[p].pc = "finish"
  /\ flight' = [flight EXCEPT ![k] = None]
  /\ \E w \in Procs :
       /\ (proc[w].pc = "wait" /\ proc[w].key = k) \/ \A x \in Procs : proc[x].pc # "wait" \/ proc[x].key # k
       /\ proc' = [x \in Procs |->
            IF x = p THEN (IF p \in Queries THEN Settle(proc[p]) ELSE Idle)
            ELSE IF x = w /\ proc[x].pc = "wait"
              THEN IF x \in Queries THEN [proc[x] EXCEPT !.pc = "get", !.shared = TRUE,
                                            !.val = proc[p].val, !.given = proc[p].given]
                   ELSE Idle
            ELSE proc[x]]
  /\ UNCHANGED <<starts, now>> /\ UNCHANGED Store /\ Rest

(* The leader ends the call: its answer goes to everyone who waited, and   *)
(* client queries among them look the key up once more.                    *)
Finish(p) ==
  LET k == proc[p].key
      waits(x) == proc[x].pc = "wait" /\ proc[x].key = k
  IN
  /\ proc[p].pc = "finish"
  /\ flight' = [flight EXCEPT ![k] = None]
  /\ proc' = [x \in Procs |->
       IF x \in Queries /\ x = p THEN Settle(proc[p])
       ELSE IF x \in Queries /\ waits(x)
         THEN [proc[x] EXCEPT !.pc = "get", !.shared = TRUE,
                              !.val = proc[p].val, !.given = proc[p].given]
       ELSE IF x = p \/ waits(x) THEN Idle
       ELSE proc[x]]
  /\ UNCHANGED <<starts, now>> /\ UNCHANGED Store /\ Rest

(* The query is answered; or the rebinding or response filter behind it    *)
(* refuses the answer and removes it from the cache.                       *)
Return(q) ==
  /\ proc[q].pc = "done"
  /\ proc' = [proc EXCEPT ![q] = Idle]
  /\ \/ UNCHANGED Store
     \/ "block" \in Events /\ proc[q].val # None /\ Delete(proc[q].key)
  /\ UNCHANGED <<flight, starts, now>> /\ Rest

-----------------------------------------------------------------------------
(* Mutant: the prefetch is for the default group.                          *)
MutPrefetchDefault(k) ==
  /\ "prefetch" \in Events
  /\ proc[Cleaner].pc = "idle"
  /\ entries[k] # None /\ Fresh(entries[k])
  /\ starts < MaxStarts /\ starts' = starts + 1
  /\ proc' = [proc EXCEPT ![Cleaner] = Goroutine("flight", k, CacheKeyForGroup(k[1], Default), Default)]
  /\ UNCHANGED <<flight, now>> /\ UNCHANGED Store /\ Rest

(* The cleaner: one entry that is popular and about to expire is fetched   *)
(* again, under the entry's key and for the group its tag names.           *)
PrefetchHotEntries(k) ==
  LET g == entries[k].tag IN
  /\ "prefetch" \in Events
  /\ proc[Cleaner].pc = "idle"
  /\ entries[k] # None /\ Fresh(entries[k])
  /\ starts < MaxStarts /\ starts' = starts + 1
  /\ proc' = [proc EXCEPT ![Cleaner] = Goroutine("flight", k, CacheKeyForGroup(k[1], g), g)]
  /\ UNCHANGED <<flight, now>> /\ UNCHANGED Store /\ Rest

CleanupExpired ==
  LET gone == {k \in Keys : entries[k] # None /\ entries[k].born \in dead} IN
  /\ proc[Cleaner].pc = "idle" /\ gone # {}
  /\ \E n \in 0..Len(lru) : \E f \in [1..n -> DOMAIN lru] :   \* where the others were
       /\ \A i, j \in 1..n : i < j => f[i] < f[j]
       /\ lru' = [i \in 1..n |-> lru[f[i]]] /\ InLru(lru') = InLru(lru) \ gone
  /\ entries' = [k \in Keys |-> IF k \in gone THEN None ELSE entries[k]]
  /\ UNCHANGED <<flight, proc, starts, now>> /\ Rest

(* Time passes for an answer that is in the cache, in the file or read.    *)
Pass(m) ==
  /\ \E k \in Keys, f \in {entries, file, loading} : f[k] # None /\ f[k].born = m
  /\ \/ m \notin stale \cup dead /\ stale' = stale \cup {m} /\ dead' = dead
     \/ m \in stale /\ dead' = dead \cup {m} /\ stale' = stale \ {m}
  /\ UNCHANGED <<flight, proc, starts, now, cap, excluded, file, loading, booting>>
  /\ UNCHANGED Store

-----------------------------------------------------------------------------
(* The administrator.                                                      *)
Clear ==
  /\ "clear" \in Events /\ lru # <<>>
  /\ lru' = <<>> /\ entries' = Nothing
  /\ UNCHANGED <<flight, proc, starts, now>> /\ Rest

(* Mutant: a capacity below the number of shards gives each of them none.  *)
MutNoFloor(c) ==
  /\ "resize" \in Events /\ c # cap
  /\ cap' = c - 1
  /\ lru' = SubSeq(lru, 1, IF Len(lru) > c - 1 THEN c - 1 ELSE Len(lru))
  /\ entries' = [k \in Keys |-> IF k \in InLru(lru') THEN entries[k] ELSE None]
  /\ UNCHANGED <<flight, proc, starts, now, stale, dead, excluded, file, loading, booting>>

ResizeCapacity(c) ==
  /\ "resize" \in Events /\ c # cap
  /\ cap' = c
  /\ lru' = SubSeq(lru, 1, IF Len(lru) > c THEN c ELSE Len(lru))
  /\ entries' = [k \in Keys |-> IF k \in InLru(lru') THEN entries[k] ELSE None]
  /\ UNCHANGED <<flight, proc, starts, now, stale, dead, excluded, file, loading, booting>>

UpdateExcludes(S) ==
  /\ "exclude" \in Events /\ S # excluded
  /\ excluded' = S
  /\ UNCHANGED <<flight, proc, starts, now, cap, stale, dead, file, loading, booting>>
  /\ UNCHANGED Store

(* SaveToFile writes what is not dead, without the group tag.              *)
Record(e) == IF e = None \/ e.born \in dead THEN None ELSE [from |-> e.from, born |-> e.born]
SnapshotForPersist == [k \in Keys |-> Record(entries[k])]

SaveToFile ==
  /\ "save" \in Events /\ file # SnapshotForPersist
  /\ file' = SnapshotForPersist
  /\ UNCHANGED <<flight, proc, starts, now, cap, stale, dead, excluded, loading, booting>>
  /\ UNCHANGED Store

LoadCache ==
  /\ "load" \in Events /\ loading = Nothing /\ ~booting
  /\ starts < MaxStarts /\ starts' = starts + 1
  /\ loading' = file
  /\ UNCHANGED <<flight, proc, now, cap, stale, dead, excluded, file, booting>>
  /\ UNCHANGED Store

(* entryFromRecord: a record that is not dead; the tag is the empty one.   *)
LoadedEntry(k) ==
  IF loading[k].born \in dead THEN None
  ELSE [from |-> loading[k].from, born |-> loading[k].born, id |-> now + 1, tag |-> Default]

LoadRecord(k) ==
  /\ loading[k] # None /\ loading' = [loading EXCEPT ![k] = None]
  /\ booting' = (booting /\ loading' # Nothing)
  /\ IF LoadedEntry(k) = None \/ k[1] \in excluded
       THEN UNCHANGED <<entries, lru, now>>
       ELSE now' = now + 1 /\ Insert(k, LoadedEntry(k))
  /\ UNCHANGED <<flight, proc, starts, cap, stale, dead, excluded, file>>

(* The limit of the whole cache, which the records of other shards count   *)
(* towards, ends the load.                                                 *)
LoadLimit ==
  /\ loading # Nothing /\ loading' = Nothing /\ booting' = FALSE
  /\ UNCHANGED <<flight, proc, starts, now, cap, stale, dead, excluded, file>>
  /\ UNCHANGED Store

(* The process ends, by Close, which saves, or without it, and starts      *)
(* again from the file before it serves queries.                           *)
Restart ==
  /\ "restart" \in Events
  /\ starts < MaxStarts /\ starts' = starts + 1
  /\ file' \in {file, SnapshotForPersist}
  /\ lru' = <<>> /\ entries' = Nothing
  /\ flight' = Nothing
  /\ proc' = [p \in Procs |-> Idle]
  /\ loading' = file'
  /\ booting' = (loading' # Nothing)
  /\ UNCHANGED <<cap, stale, dead, excluded, now>>

-----------------------------------------------------------------------------
Init ==
  /\ entries = Nothing /\ lru = <<>>
  /\ cap \in Caps
  /\ flight = Nothing
  /\ proc = [p \in Procs |-> Idle]
  /\ stale = {} /\ dead = {} /\ excluded = {}
  /\ file = Nothing /\ loading = Nothing /\ booting = FALSE
  /\ starts = 0 /\ now = 0

Step(p) == Get(p) \/ Bump(p) \/ Expire(p) \/ Do(p) \/ Exchange(p) \/ PutForGroup(p) \/ Finish(p)

Admin ==
  \/ Clear \/ SaveToFile \/ LoadCache \/ LoadLimit \/ Restart
  \/ \E c \in Caps : ResizeCapacity(c)
  \/ \E S \in SUBSET Names : UpdateExcludes(S)
  \/ \E k \in Keys : LoadRecord(k)

Next ==
  \/ \E q \in Queries, n \in Names, g \in Groups : Ask(q, n, g)
  \/ \E p \in Procs : Step(p)
  \/ \E q \in Queries : Return(q)
  \/ \E k \in Keys : PrefetchHotEntries(k)
  \/ CleanupExpired
  \/ \E m \in 1..now : Pass(m)
  \/ Admin

Spec == Init /\ [][Next]_vars

(* Goroutines run, and an upstream's call ends with an answer or at its    *)
(* deadline.                                                               *)
FairSpec == Spec /\ \A p \in Procs : WF_vars(Step(p) \/ (p \in Queries /\ Return(p)))

-----------------------------------------------------------------------------
Answers == [from : Groups, born : 1..now]
Entries == [from : Groups, born : 1..now, id : 1..now, tag : Groups]

TypeOK ==
  /\ entries \in [Keys -> Entries \cup {None}]
  /\ cap \in Caps /\ flight \in [Keys -> Procs \cup {None}]
  /\ \A p \in Procs : proc[p].val \in {None} \cup Answers \cup Entries
  /\ \A p \in Procs : {proc[p].cand, proc[p].seen} \subseteq {None} \cup Entries
  /\ stale \cup dead \subseteq 1..now /\ excluded \subseteq Names
  /\ {file, loading} \subseteq [Keys -> Answers \cup {None}]
  /\ starts \in 0..MaxStarts /\ now \in Nat

(* The list is the map in an order: each entry once, and within the        *)
(* capacity in force, whatever was removed, cleared or resized between a   *)
(* hit and its move to the front.                                          *)
LruMatchesMap ==
  /\ TypeOK
  /\ InLru(lru) = {k \in Keys : entries[k] # None}
  /\ Cardinality(InLru(lru)) = Len(lru)
  /\ Len(lru) <= cap

(* An entry is replaced only by an answer that was given later: the single *)
(* flight orders the writers of a key, so no slow answer undoes a newer.   *)
OnlyYounger ==
  [][\A k \in Keys : entries[k] # None /\ entries'[k] # None => entries'[k].born >= entries[k].born]_vars

(* A client of a group gets answers of its group's upstream only.          *)
OwnGroup ==
  \A q \in Queries : proc[q].pc = "done" /\ proc[q].val # None => proc[q].val.from = proc[q].via

(* A query that made or waited for a fetch is not answered with anything   *)
(* older than what that fetch has put into the cache.                      *)
SharedNotOlder ==
  \A q \in Queries : proc[q].pc = "done" /\ proc[q].given # None =>
    proc[q].val # None /\ proc[q].val.born >= proc[q].given.born

(* Every query is answered or fails; nobody waits for a flight that ended. *)
QueriesEnd ==
  \A q \in Queries : proc[q].pc # "idle" ~> proc[q].pc = "idle"

(* What is fetched under a key is stored under it, and comes from its      *)
(* group's upstream, for queries and for prefetches: the followers of a    *)
(* flight and the entry it leaves behind see the same thing.  An entry     *)
(* that came from the file has lost its group, and this fails for it.      *)
FlightSameGroup ==
  \A p \in Procs : proc[p].pc \in {"put", "finish"} /\ proc[p].val # None =>
    proc[p].to = proc[p].key /\ proc[p].val.from = proc[p].key[2]

(* Groups with upstreams of their own do not see each other's answers: not *)
(* in what a client gets and not in what a flight leaves in the cache.     *)
GroupsStayApart == OwnGroup /\ FlightSameGroup
=============================================================================
