--------------------------- MODULE DnsCacheProofs ---------------------------
(***************************************************************************)
(* What the answer cache keeps for any number of queries, names, groups    *)
(* and entries: the list is the map in an order, the single flight orders  *)
(* the writers of a key, and groups do not see each other's answers.       *)
(***************************************************************************)
EXTENDS DnsCache, FiniteSetTheorems, TLAPS

-----------------------------------------------------------------------------
(* Lists without repetition.                                               *)
Listed(s) == s \in Seq(Keys) /\ \A i, j \in 1..Len(s) : s[i] = s[j] => i = j

LEMMA ListedDomain ==
  ASSUME NEW s, Listed(s)
  PROVE  /\ Len(s) \in Nat /\ DOMAIN s = 1..Len(s) /\ \A i \in 1..Len(s) : s[i] \in Keys
         /\ InLru(s) = {s[i] : i \in 1..Len(s)} /\ InLru(s) \subseteq Keys
BY DEF Listed, InLru

LEMMA ListedCardinality ==
  ASSUME NEW s, Listed(s)
  PROVE  Cardinality(InLru(s)) = Len(s)
<1>1. Len(s) \in Nat /\ DOMAIN s = 1..Len(s)
  BY ListedDomain
<1>2. s \in Bijection(1..Len(s), InLru(s))
  <2>1. s \in [1..Len(s) -> InLru(s)]
    BY <1>1 DEF InLru, Listed
  <2>2. \A i, j \in 1..Len(s) : s[i] = s[j] => i = j
    BY DEF Listed
  <2>3. \A x \in InLru(s) : \E i \in 1..Len(s) : s[i] = x
    BY <1>1 DEF InLru
  <2>4. s \in Injection(1..Len(s), InLru(s))
    BY <1>1, <2>1, <2>2 DEF Injection, IsInjective
  <2>5. s \in Surjection(1..Len(s), InLru(s))
    BY <2>1, <2>3 DEF Surjection
  <2> QED BY <2>4, <2>5 DEF Bijection
<1>3. IsFiniteSet(1..Len(s)) /\ Cardinality(1..Len(s)) = Len(s)
  <2>1. Cardinality(1..Len(s)) = IF 1 > Len(s) THEN 0 ELSE Len(s) - 1 + 1
    BY <1>1, FS_Interval
  <2>2. IsFiniteSet(1..Len(s))
    BY <1>1, FS_Interval
  <2> QED BY <1>1, <2>1, <2>2
<1> QED BY <1>2, <1>3, FS_Bijection DEF ExistsBijection

(* Removing the element of a key.                                          *)
LEMMA WithoutFacts ==
  ASSUME Listed(lru), NEW k \in Keys
  PROVE  /\ Listed(Without(k)) /\ InLru(Without(k)) = InLru(lru) \ {k}
         /\ k \in InLru(lru) => Len(lru) >= 1 /\ Len(Without(k)) = Len(lru) - 1
         /\ k \notin InLru(lru) => Without(k) = lru
<1>1. CASE k \notin InLru(lru)
  BY <1>1 DEF Without
<1>2. CASE k \in InLru(lru)
  <2> DEFINE w == [i \in 1 .. Len(lru) - 1 |-> IF i < Elem(k) THEN lru[i] ELSE lru[i + 1]]
  <2>1. Len(lru) \in Nat /\ DOMAIN lru = 1..Len(lru) /\ \A i \in 1..Len(lru) : lru[i] \in Keys
    BY ListedDomain
  <2>2. Elem(k) \in 1..Len(lru) /\ lru[Elem(k)] = k
    BY <1>2, <2>1 DEF Elem, InLru
  <2>3. Without(k) = w
    BY <1>2 DEF Without
  <2>4. \A i, j \in 1..Len(lru) : lru[i] = lru[j] => i = j
    BY DEF Listed
  <2>5. Len(lru) - 1 \in Nat
    BY <2>1, <2>2
  <2>6. w \in Seq(Keys) /\ Len(w) = Len(lru) - 1
    BY <2>1, <2>2, <2>5
  <2>7. DOMAIN w = 1..Len(lru) - 1 /\ \A i \in 1..Len(lru) - 1 : w[i] = IF i < Elem(k) THEN lru[i] ELSE lru[i + 1]
    OBVIOUS
  <2> HIDE DEF w
  <2>8. \A i, j \in 1..Len(lru) - 1 : w[i] = w[j] => i = j
    BY <2>1, <2>2, <2>4, <2>7
  <2>9. InLru(w) = InLru(lru) \ {k}
    <3>1. \A i \in 1..Len(lru) - 1 : w[i] \in InLru(lru) \ {k}
      BY <2>1, <2>2, <2>4, <2>7 DEF InLru
    <3>2. ASSUME NEW x \in InLru(lru) \ {k} PROVE \E i \in 1..Len(lru) - 1 : w[i] = x
      <4>1. PICK i \in 1..Len(lru) : lru[i] = x
        BY <2>1, <3>2 DEF InLru
      <4>2. CASE i < Elem(k)
        BY <2>1, <2>2, <2>7, <4>1, <4>2
      <4>3. CASE i > Elem(k)
        <5>1. i - 1 \in 1..Len(lru) - 1 /\ ~(i - 1 < Elem(k)) /\ (i - 1) + 1 = i
          BY <2>1, <2>2, <4>1, <4>3
        <5> QED BY <2>7, <4>1, <5>1
      <4> QED BY <2>1, <2>2, <3>2, <4>1, <4>2, <4>3
    <3>3. InLru(w) = {w[i] : i \in 1..Len(lru) - 1}
      BY <2>7 DEF InLru
    <3> QED BY <3>1, <3>2, <3>3
  <2>10. Listed(w)
    BY <2>6, <2>8 DEF Listed
  <2> QED BY <1>2, <2>1, <2>2, <2>3, <2>6, <2>9, <2>10
<1> QED BY <1>1, <1>2

(* Putting a key to the front, and cutting the list.                       *)
Front(k, s) == <<k>> \o s

LEMMA FrontFacts ==
  ASSUME NEW s, Listed(s), NEW k \in Keys, k \notin InLru(s)
  PROVE  /\ Listed(Front(k, s)) /\ InLru(Front(k, s)) = InLru(s) \cup {k}
         /\ Len(Front(k, s)) = Len(s) + 1
<1> DEFINE t == <<k>> \o s
<1>1. /\ Len(s) \in Nat /\ DOMAIN s = 1..Len(s) /\ \A i \in 1..Len(s) : s[i] \in Keys
      /\ s \in Seq(Keys) /\ \A i, j \in 1..Len(s) : s[i] = s[j] => i = j
  BY ListedDomain DEF Listed
<1>2. t \in Seq(Keys) /\ Len(t) = Len(s) + 1
  BY <1>1
<1>3. t[1] = k /\ \A i \in 2..Len(s) + 1 : t[i] = s[i - 1]
  BY <1>1
<1> HIDE DEF t
<1>4. DOMAIN t = 1..Len(s) + 1
  BY <1>2
<1>5. \A i \in 2..Len(s) + 1 : i - 1 \in 1..Len(s)
  BY <1>1
<1>6. \A i \in 2..Len(s) + 1 : t[i] \in InLru(s) /\ t[i] # k
  BY <1>1, <1>3, <1>5 DEF InLru
<1>7. \A i, j \in 1..Len(s) + 1 : t[i] = t[j] => i = j
  <2> SUFFICES ASSUME NEW i \in 1..Len(s) + 1, NEW j \in 1..Len(s) + 1, t[i] = t[j]
               PROVE  i = j
    OBVIOUS
  <2>1. CASE i = 1 \/ j = 1
    BY <1>1, <1>3, <1>6, <2>1
  <2>2. CASE i # 1 /\ j # 1
    <3>1. i \in 2..Len(s) + 1 /\ j \in 2..Len(s) + 1
      BY <1>1, <2>2
    <3>2. s[i - 1] = s[j - 1]
      BY <1>3, <3>1
    <3>3. i - 1 = j - 1
      BY <1>1, <1>5, <3>1, <3>2
    <3> QED BY <1>1, <3>1, <3>3
  <2> QED BY <2>1, <2>2
<1>8. InLru(t) = InLru(s) \cup {k}
  <2>1. \A i \in 1..Len(s) + 1 : t[i] \in InLru(s) \cup {k}
    BY <1>1, <1>3, <1>6
  <2>2. ASSUME NEW x \in InLru(s) PROVE \E i \in 1..Len(s) + 1 : t[i] = x
    <3>1. PICK i \in 1..Len(s) : s[i] = x
      BY <1>1, <2>2 DEF InLru
    <3>2. i + 1 \in 2..Len(s) + 1 /\ (i + 1) - 1 = i /\ i + 1 \in 1..Len(s) + 1
      BY <1>1, <3>1
    <3> QED BY <1>3, <3>1, <3>2
  <2>3. 1 \in 1..Len(s) + 1
    BY <1>1
  <2>4. InLru(t) = {t[i] : i \in 1..Len(s) + 1}
    BY <1>4 DEF InLru
  <2> QED BY <1>3, <2>1, <2>2, <2>3, <2>4
<1>9. Front(k, s) = t
  BY DEF Front, t
<1> QED BY <1>2, <1>7, <1>8, <1>9 DEF Listed

LEMMA PrefixFacts ==
  ASSUME NEW s, Listed(s), NEW n \in 0..Len(s)
  PROVE  /\ Listed(SubSeq(s, 1, n)) /\ InLru(SubSeq(s, 1, n)) \subseteq InLru(s)
         /\ Len(SubSeq(s, 1, n)) = n
<1> DEFINE t == SubSeq(s, 1, n)
<1>1. /\ Len(s) \in Nat /\ DOMAIN s = 1..Len(s) /\ s \in Seq(Keys)
      /\ \A i, j \in 1..Len(s) : s[i] = s[j] => i = j
  BY ListedDomain DEF Listed
<1>2. t \in Seq(Keys) /\ Len(t) = n /\ \A i \in 1..n : t[i] = s[i]
  BY <1>1
<1> HIDE DEF t
<1>3. DOMAIN t = 1..n /\ \A i \in 1..n : i \in 1..Len(s)
  BY <1>1, <1>2
<1>4. Listed(t)
  BY <1>1, <1>2, <1>3 DEF Listed
<1>5. InLru(t) \subseteq InLru(s)
  BY <1>1, <1>2, <1>3 DEF InLru
<1> QED BY <1>2, <1>4, <1>5 DEF t

-----------------------------------------------------------------------------
(* The invariant of the list and the types.                                *)
PCs == {"idle", "get", "bump", "expire", "flight", "wait", "fetch", "bypass", "put", "finish", "done"}
ProcRec == [pc : PCs, key : Keys \cup {None}, to : Keys \cup {None}, via : Groups \cup {None},
            val : {None} \cup Answers \cup Entries, cand : {None} \cup Entries,
            seen : {None} \cup Entries, shared : BOOLEAN, given : {None} \cup Answers]
Stores == [Keys -> Answers \cup {None}]

Types ==
  /\ now \in Nat /\ starts \in 0..MaxStarts /\ cap \in Caps
  /\ entries \in [Keys -> Entries \cup {None}]
  /\ flight \in [Keys -> Procs \cup {None}] /\ proc \in [Procs -> ProcRec]
  /\ stale \cup dead \subseteq 1..now /\ excluded \subseteq Names
  /\ file \in Stores /\ loading \in Stores

(* A goroutine at work has a key; one about to write has an answer, and it *)
(* is not one that came out of the cache.                                  *)
Working ==
  \A p \in Procs :
    /\ proc[p].pc # "idle" => proc[p].key \in Keys /\ proc[p].to \in Keys /\ proc[p].via \in Groups
    /\ proc[p].pc = "put" => proc[p].val \in Answers

ListInv == Listed(lru) /\ InLru(lru) = {k \in Keys : entries[k] # None} /\ Len(lru) <= cap

Orderly == Types /\ Working /\ ListInv

LEMMA NoneFacts ==
  ASSUME now \in Nat
  PROVE  None \notin Answers /\ None \notin Entries /\ None \notin Procs
<1>1. Answers \subseteq [from : Groups, born : Nat]
  BY DEF Answers
<1>2. Entries \subseteq [from : Groups, born : Nat, id : Nat, tag : Groups]
  BY DEF Entries
<1> QED BY <1>1, <1>2, CacheAssumption

(* What was typed stays so when the clock ticks.                           *)
LEMMA Grow ==
  ASSUME now \in Nat, now' \in {now, now + 1}
  PROVE  /\ now' \in Nat /\ Answers \subseteq Answers' /\ Entries \subseteq Entries'
         /\ ProcRec \subseteq ProcRec' /\ Stores \subseteq Stores' /\ 1..now \subseteq 1..now'
         /\ [Keys -> Entries \cup {None}] \subseteq [Keys -> Entries' \cup {None}]
         /\ [Procs -> ProcRec] \subseteq [Procs -> ProcRec']
<1>1. now' \in Nat /\ 1..now \subseteq 1..now'
  OBVIOUS
<1>2. Answers \subseteq Answers' /\ Entries \subseteq Entries'
  BY <1>1 DEF Answers, Entries
<1>3. ProcRec \subseteq ProcRec'
  BY <1>2 DEF ProcRec
<1>4. Stores \subseteq Stores'
  BY <1>2 DEF Stores
<1> QED BY <1>1, <1>2, <1>3, <1>4

LEMMA IdleFacts ==
  /\ Idle \in ProcRec /\ Idle.pc = "idle" /\ Idle.val = None /\ Idle.given = None
BY DEF Idle, ProcRec, PCs

LEMMA GoroutineFacts ==
  ASSUME NEW z \in PCs, NEW k \in Keys, NEW to \in Keys, NEW g \in Groups,
         NEW r, r = Goroutine(z, k, to, g)
  PROVE  /\ r \in ProcRec /\ r.pc = z /\ r.key = k /\ r.to = to /\ r.via = g
         /\ r.val = None /\ r.given = None /\ r.cand = None /\ ~r.shared
<1>1. Idle \in ProcRec /\ Idle.val = None /\ Idle.given = None /\ Idle.cand = None /\ Idle.shared = FALSE
  BY DEF Idle, ProcRec, PCs
<1> QED BY <1>1 DEF Goroutine, ProcRec

-----------------------------------------------------------------------------
(* The shard's operations keep the list.                                   *)
LEMMA InsertKeeps ==
  ASSUME Types, ListInv, NEW k \in Keys, NEW e, e # None, Insert(k, e), cap' = cap
  PROVE  /\ ListInv' /\ entries'[k] = e
         /\ \A x \in Keys \ {k} : entries'[x] \in {entries[x], None}
         /\ entries' = [x \in Keys |-> entries'[x]]
<1> DEFINE kept == IF entries[k] = None /\ Len(lru) >= cap
                     THEN SubSeq(lru, 1, Len(lru) - 1) ELSE Without(k)
<1>1. /\ lru' = Front(k, kept)
      /\ entries' = [x \in Keys |-> IF x = k THEN e
                                    ELSE IF x \in InLru(kept) THEN entries[x] ELSE None]
  BY DEF Insert, Front
<1>2. cap \in Nat /\ cap >= 1 /\ Len(lru) \in Nat /\ Len(lru) <= cap
  BY CacheAssumption, ListedDomain DEF Types, ListInv
<1>3. /\ Listed(kept) /\ k \notin InLru(kept) /\ InLru(kept) \subseteq InLru(lru) /\ Len(kept) + 1 <= cap
  <2>1. CASE entries[k] = None /\ Len(lru) >= cap
    <3>1. Len(lru) - 1 \in 0..Len(lru) /\ Len(lru) - 1 + 1 <= cap
      BY <1>2, <2>1
    <3>2. k \notin InLru(lru)
      BY <2>1 DEF ListInv
    <3> QED BY <2>1, <3>1, <3>2, PrefixFacts DEF ListInv
  <2>2. CASE entries[k] = None /\ ~(Len(lru) >= cap)
    <3>1. k \notin InLru(lru)
      BY <2>2 DEF ListInv
    <3>2. kept = lru
      BY <2>2, <3>1 DEF Without
    <3> QED BY <1>2, <2>2, <3>1, <3>2 DEF ListInv
  <2>3. CASE entries[k] # None
    <3>1. k \in InLru(lru) /\ kept = Without(k)
      BY <2>3 DEF ListInv
    <3> HIDE DEF kept
    <3> QED BY <1>2, <3>1, WithoutFacts DEF ListInv
  <2> QED BY <2>1, <2>2, <2>3
<1> HIDE DEF kept
<1>4. Listed(lru') /\ InLru(lru') = InLru(kept) \cup {k} /\ Len(lru') <= cap
  BY <1>1, <1>2, <1>3, FrontFacts
<1>5. InLru(lru') = {x \in Keys : entries'[x] # None}
  <2>1. InLru(kept) \subseteq Keys
    BY <1>3, ListedDomain
  <2>2. \A x \in InLru(kept) : entries[x] # None
    BY <1>3 DEF ListInv
  <2> QED BY <1>1, <1>3, <1>4, <2>1, <2>2
<1>6. entries'[k] = e /\ \A x \in Keys \ {k} : entries'[x] \in {entries[x], None}
  BY <1>1
<1> QED BY <1>1, <1>4, <1>5, <1>6 DEF ListInv

LEMMA DeleteKeeps ==
  ASSUME Types, ListInv, NEW k \in Keys, Delete(k), cap' = cap
  PROVE  /\ ListInv' /\ entries' = [entries EXCEPT ![k] = None]
<1>1. lru' = Without(k) /\ entries' = [entries EXCEPT ![k] = None]
  BY DEF Delete
<1>2. cap \in Nat /\ Len(lru) \in Nat /\ Len(lru) <= cap /\ Listed(lru)
  BY CacheAssumption, ListedDomain DEF Types, ListInv
<1>3. Listed(lru') /\ InLru(lru') = InLru(lru) \ {k} /\ Len(lru') <= cap
  BY <1>1, <1>2, WithoutFacts
<1>4. InLru(lru') = {x \in Keys : entries'[x] # None}
  BY <1>1, <1>3 DEF ListInv, Types
<1> QED BY <1>1, <1>3, <1>4 DEF ListInv

-----------------------------------------------------------------------------
(* One goroutine moves on, and the shard stays or changes as said.         *)
ProcTo(p, r) == /\ p \in Procs /\ r \in ProcRec' /\ proc' = [proc EXCEPT ![p] = r]
                /\ r.pc # "idle" => r.key \in Keys /\ r.to \in Keys /\ r.via \in Groups
                /\ r.pc = "put" => r.val \in Answers'
Clock == now \in Nat /\ now' \in {now, now + 1}
Shards == entries' \in [Keys -> Entries' \cup {None}] /\ ListInv'
Others == /\ flight' \in [Keys -> Procs \cup {None}] /\ starts' \in 0..MaxStarts /\ cap' \in Caps
          /\ stale' \cup dead' \subseteq 1..now' /\ excluded' \subseteq Names
          /\ file' \in Stores' /\ loading' \in Stores'

LEMMA ProcsStep ==
  ASSUME Orderly, proc' \in [Procs -> ProcRec'], Working', Clock, Shards, Others
  PROVE  Orderly'
<1>1. now' \in Nat
  BY Grow DEF Clock
<1>2. Types'
  BY <1>1 DEF Types, Shards, Others
<1> QED BY <1>2 DEF Orderly, Shards

LEMMA ProcStep ==
  ASSUME Orderly, NEW p, NEW r, ProcTo(p, r), Clock, Shards, Others
  PROVE  Orderly'
<1>1. Answers \subseteq Answers' /\ [Procs -> ProcRec] \subseteq [Procs -> ProcRec']
  BY Grow DEF Clock
<1>2. proc \in [Procs -> ProcRec]
  BY DEF Orderly, Types
<1>3. proc' \in [Procs -> ProcRec'] /\ proc'[p] = r /\ \A x \in Procs \ {p} : proc'[x] = proc[x]
  BY <1>1, <1>2 DEF ProcTo
<1>4. Working'
  BY <1>1, <1>3 DEF Orderly, Working, ProcTo
<1> QED BY <1>3, <1>4, ProcsStep

LEMMA Quiet ==
  ASSUME Orderly, now' \in {now, now + 1}
  PROVE  /\ Clock
         /\ Rest /\ UNCHANGED <<flight, starts>> => Others
         /\ UNCHANGED <<entries, lru, cap>> => Shards
<1>1. Clock /\ now' \in Nat /\ Stores \subseteq Stores' /\ 1..now \subseteq 1..now'
      /\ [Keys -> Entries \cup {None}] \subseteq [Keys -> Entries' \cup {None}]
  BY Grow DEF Clock, Orderly, Types
<1>2. ASSUME Rest, UNCHANGED <<flight, starts>> PROVE Others
  BY <1>1, <1>2 DEF Others, Orderly, Types, Rest
<1>3. ASSUME UNCHANGED <<entries, lru, cap>> PROVE Shards
  BY <1>1, <1>3 DEF Shards, Orderly, Types, ListInv
<1> QED BY <1>1, <1>2, <1>3

LEMMA AskOrderly ==
  ASSUME Orderly, NEW q \in Queries, NEW n \in Names, NEW g \in Groups, Ask(q, n, g)
  PROVE  Orderly'
<1> DEFINE k == <<n, g>>
           z == IF n \in excluded THEN "bypass" ELSE "get"
           r == Goroutine(z, k, k, g)
<1>1. /\ starts < MaxStarts /\ starts' = starts + 1 /\ proc' = [proc EXCEPT ![q] = r]
      /\ UNCHANGED <<flight, now, entries, lru>> /\ Rest
  BY DEF Ask, CacheKeyForGroup, Store
<1>2. q \in Procs /\ k \in Keys /\ z \in PCs /\ z \in {"get", "bypass"}
  BY DEF Procs, Keys, PCs
<1> HIDE DEF k, z
<1>3. r \in ProcRec /\ r.pc = z /\ r.key = k /\ r.to = k /\ r.via = g
  BY <1>2, GoroutineFacts
<1> HIDE DEF r
<1>4. Clock /\ Shards /\ ProcRec \subseteq ProcRec'
  BY <1>1, Quiet, Grow DEF Clock, Rest
<1>5. starts' \in 0..MaxStarts
  BY <1>1, CacheAssumption DEF Orderly, Types
<1>6. Others
  BY <1>1, <1>5 DEF Others, Orderly, Types, Rest, Stores, Answers
<1>7. ProcTo(q, r)
  BY <1>1, <1>2, <1>3, <1>4 DEF ProcTo
<1> QED BY <1>4, <1>6, <1>7, ProcStep

(* The records Get, Expire and Settle leave.                               *)
LEMMA SettleFacts ==
  ASSUME NEW r \in ProcRec
  PROVE  /\ Settle(r) \in ProcRec /\ Settle(r).pc = "done" /\ Settle(r).key = r.key
         /\ Settle(r).to = r.to /\ Settle(r).via = r.via /\ Settle(r).given = r.given
         /\ Settle(r).cand = r.cand /\ Settle(r).shared = r.shared
         /\ Settle(r).val = IF r.val = None THEN r.cand ELSE r.val
<1> DEFINE v == IF r.val = None THEN r.cand ELSE r.val
<1>1. v \in {None} \cup Answers \cup Entries
  BY DEF ProcRec
<1> HIDE DEF v
<1>2. Settle(r) = [r EXCEPT !.pc = "done", !.val = v]
  BY DEF Settle, v, ProcRec
<1>3. "done" \in PCs
  BY DEF PCs
<1>4. /\ Settle(r) \in ProcRec /\ Settle(r).pc = "done" /\ Settle(r).key = r.key
      /\ Settle(r).to = r.to /\ Settle(r).via = r.via /\ Settle(r).given = r.given
      /\ Settle(r).cand = r.cand /\ Settle(r).shared = r.shared /\ Settle(r).val = v
  BY <1>1, <1>2, <1>3 DEF ProcRec
<1> QED BY <1>4 DEF v

LEMMA AfterMissFacts ==
  ASSUME NEW r \in ProcRec, NEW m, m = AfterMiss(r)
  PROVE  /\ m \in ProcRec /\ m.key = r.key /\ m.to = r.to /\ m.via = r.via /\ m.given = r.given
         /\ m.cand = r.cand /\ m.shared = r.shared
         /\ r.shared => m = Settle(r) /\ m.pc = "done"
         /\ ~r.shared => m.pc = "flight" /\ m.val = r.val
<1>1. CASE r.shared
  BY <1>1, SettleFacts DEF AfterMiss
<1>2. CASE ~r.shared
  <2>1. m = [r EXCEPT !.pc = "flight"]
    BY <1>2 DEF AfterMiss
  <2> QED BY <1>2, <2>1 DEF ProcRec, PCs
<1> QED BY <1>1, <1>2

(* What Get makes of the record r0 of its goroutine when it sees e.        *)
GetTo(r0, e, r) ==
  /\ r \in ProcRec /\ r.key = r0.key /\ r.to = r0.to /\ r.via = r0.via
  /\ r.given = r0.given /\ r.shared = r0.shared
  /\ \/ r.pc = "flight" /\ ~r0.shared /\ r.val = r0.val /\ (r.cand = r0.cand \/ (r.cand = e /\ e # None))
     \/ r.pc = "done" /\ r0.shared /\ r = Settle(r0)
     \/ r.pc \in {"bump", "done"} /\ e # None /\ r.val = e /\ r.cand = r0.cand /\ (r.pc = "done" => Optimistic)
     \/ r.pc = "expire" /\ e # None /\ r.val = r0.val /\ r.cand = r0.cand

LEMMA GetShape ==
  ASSUME Orderly, NEW p \in Procs, Get(p)
  PROVE  \E r : /\ GetTo(proc[p], entries[proc[p].key], r)
                /\ \/ proc' = [proc EXCEPT ![p] = r]
                   \/ /\ Optimistic
                      /\ \E b \in Refreshers :
                           /\ proc[b].pc = "idle"
                           /\ proc' = [proc EXCEPT ![p] = r,
                                         ![b] = Goroutine("flight", proc[p].key, proc[p].key, Default)]
<1> DEFINE r0 == proc[p]
           e == entries[proc[p].key]
<1>1. r0 \in ProcRec /\ r0.key \in Keys /\ e \in Entries \cup {None} /\ r0.pc = "get"
  BY DEF Orderly, Types, Working, Get
<1>2. CASE e = None /\ proc' = [proc EXCEPT ![p] = AfterMiss(r0)]
  <2>1. GetTo(r0, e, AfterMiss(r0))
    BY <1>1, AfterMissFacts DEF GetTo
  <2> QED BY <1>2, <2>1
<1>3. CASE e # None /\ proc' = [proc EXCEPT ![p] = [r0 EXCEPT !.val = e, !.seen = e, !.pc = "bump"]]
  <2>1. GetTo(r0, e, [r0 EXCEPT !.val = e, !.seen = e, !.pc = "bump"])
    BY <1>1, <1>3 DEF GetTo, ProcRec, PCs
  <2> QED BY <1>3, <2>1
<1>4. CASE e # None /\ r0.shared /\ proc' = [proc EXCEPT ![p] = Settle(r0)]
  <2>1. GetTo(r0, e, Settle(r0))
    BY <1>1, <1>4, SettleFacts DEF GetTo
  <2> QED BY <1>4, <2>1
<1>5. CASE e # None /\ ~r0.shared /\ proc' = [proc EXCEPT ![p] = [r0 EXCEPT !.cand = e, !.pc = "flight"]]
  <2>1. GetTo(r0, e, [r0 EXCEPT !.cand = e, !.pc = "flight"])
    BY <1>1, <1>5 DEF GetTo, ProcRec, PCs
  <2> QED BY <1>5, <2>1
<1>6. CASE e # None /\ ~r0.shared /\ Optimistic
           /\ \E b \in Refreshers :
                /\ proc[b].pc = "idle"
                /\ proc' = [proc EXCEPT ![p] = [r0 EXCEPT !.val = e, !.pc = "done"],
                                        ![b] = Goroutine("flight", r0.key, r0.key, Default)]
  <2>1. GetTo(r0, e, [r0 EXCEPT !.val = e, !.pc = "done"])
    BY <1>1, <1>6 DEF GetTo, ProcRec, PCs
  <2> QED BY <1>6, <2>1
<1>7. CASE e # None /\ proc' = [proc EXCEPT ![p] = [r0 EXCEPT !.seen = e, !.pc = "expire"]]
  <2>1. GetTo(r0, e, [r0 EXCEPT !.seen = e, !.pc = "expire"])
    BY <1>1, <1>7 DEF GetTo, ProcRec, PCs
  <2> QED BY <1>7, <2>1
<1> QED BY <1>2, <1>3, <1>4, <1>5, <1>6, <1>7 DEF Get

LEMMA GetOrderly ==
  ASSUME Orderly, NEW p \in Procs, Get(p)
  PROVE  Orderly'
<1>1. UNCHANGED <<flight, starts, now, entries, lru>> /\ Rest /\ proc[p].pc = "get"
  BY DEF Get, Store
<1>2. Clock /\ Shards /\ Others /\ ProcRec' = ProcRec /\ Answers' = Answers
  BY <1>1, Quiet DEF Rest, ProcRec, Answers, Entries
<1>3. PICK r : /\ GetTo(proc[p], entries[proc[p].key], r)
               /\ \/ proc' = [proc EXCEPT ![p] = r]
                  \/ /\ Optimistic
                     /\ \E b \in Refreshers :
                          /\ proc[b].pc = "idle"
                          /\ proc' = [proc EXCEPT ![p] = r,
                                        ![b] = Goroutine("flight", proc[p].key, proc[p].key, Default)]
  BY GetShape
<1>4. /\ r \in ProcRec /\ r.pc # "put" /\ r.key \in Keys /\ r.to \in Keys /\ r.via \in Groups
      /\ proc[p].key \in Keys /\ proc \in [Procs -> ProcRec]
  BY <1>1, <1>3, SettleFacts DEF GetTo, Orderly, Working, Types
<1>5. CASE proc' = [proc EXCEPT ![p] = r]
  <2>1. ProcTo(p, r)
    BY <1>2, <1>4, <1>5 DEF ProcTo
  <2> QED BY <1>2, <2>1, ProcStep
<1>6. ASSUME NEW b \in Refreshers,
             proc' = [proc EXCEPT ![p] = r, ![b] = Goroutine("flight", proc[p].key, proc[p].key, Default)]
      PROVE  Orderly'
  <2> DEFINE s == Goroutine("flight", proc[p].key, proc[p].key, Default)
  <2>1. /\ s \in ProcRec /\ s.pc = "flight" /\ s.key \in Keys /\ s.to \in Keys /\ s.via \in Groups
        /\ b \in Procs
    BY <1>4, GoroutineFacts, CacheAssumption DEF PCs, Procs
  <2> HIDE DEF s
  <2>2. proc' = [proc EXCEPT ![p] = r, ![b] = s]
    BY <1>6 DEF s
  <2>3. proc' \in [Procs -> ProcRec'] /\ \A x \in Procs : proc'[x] \in {proc[x], r, s}
    BY <1>2, <1>4, <2>1, <2>2
  <2>4. Working'
    BY <1>2, <1>4, <2>1, <2>3 DEF Orderly, Working
  <2> QED BY <1>2, <2>3, <2>4, ProcsStep
<1> QED BY <1>3, <1>5, <1>6

(* The goroutine's step to the program counter z, and nothing else.        *)
PcTo(p, z, r) == /\ proc' = [proc EXCEPT ![p] = r] /\ r \in ProcRec /\ r.pc = z
                 /\ r.key = proc[p].key /\ r.to = proc[p].to /\ r.via = proc[p].via
                 /\ r.val = proc[p].val /\ r.given = proc[p].given /\ r.cand = proc[p].cand
                 /\ r.shared = proc[p].shared

LEMMA PcShape ==
  ASSUME Types, NEW p \in Procs, NEW z \in PCs, proc' = [proc EXCEPT ![p].pc = z]
  PROVE  \E r : PcTo(p, z, r)
<1>1. proc[p] \in ProcRec /\ proc \in [Procs -> ProcRec]
  BY DEF Types
<1> DEFINE r == [proc[p] EXCEPT !.pc = z]
<1>2. proc' = [proc EXCEPT ![p] = r]
  BY <1>1
<1>3. /\ r \in ProcRec /\ r.pc = z /\ r.key = proc[p].key /\ r.to = proc[p].to /\ r.via = proc[p].via
      /\ r.val = proc[p].val /\ r.given = proc[p].given /\ r.cand = proc[p].cand
      /\ r.shared = proc[p].shared
  BY <1>1 DEF ProcRec
<1> HIDE DEF r
<1> QED BY <1>2, <1>3 DEF PcTo

(* A step of a goroutine that keeps its keys and stays or ends at z.       *)
LEMMA PcOrderly ==
  ASSUME Orderly, NEW p \in Procs, NEW z \in PCs, NEW r, PcTo(p, z, r), z # "put",
         proc[p].pc # "idle", Clock, Shards, Others
  PROVE  Orderly'
<1>1. ProcRec \subseteq ProcRec'
  BY Grow DEF Clock
<1>2. proc[p].key \in Keys /\ proc[p].to \in Keys /\ proc[p].via \in Groups
  BY DEF Orderly, Working
<1>3. ProcTo(p, r)
  BY <1>1, <1>2 DEF ProcTo, PcTo
<1> QED BY <1>3, ProcStep

LEMMA BumpOrderly ==
  ASSUME Orderly, NEW p \in Procs, Bump(p)
  PROVE  Orderly'
<1> DEFINE k == proc[p].key
<1>1. /\ proc[p].pc = "bump" /\ proc' = [proc EXCEPT ![p].pc = "done"]
      /\ UNCHANGED <<entries, flight, starts, now>> /\ Rest
      /\ lru' = IF Same(entries[k], proc[p].seen) THEN Front(k, Without(k)) ELSE lru
  BY DEF Bump, Front
<1>2. PICK r : PcTo(p, "done", r)
  BY <1>1, PcShape DEF Orderly, PCs
<1>3. Clock /\ Others
  BY <1>1, Quiet
<1>4. Shards
  <2>1. CASE lru' = lru
    BY <1>1, <2>1, Quiet DEF Rest
  <2>2. CASE entries[k] # None /\ lru' = Front(k, Without(k))
    <3>1. k \in Keys /\ Listed(lru) /\ cap' = cap /\ Entries' = Entries
      BY <1>1 DEF Orderly, Working, ListInv, Rest, Entries
    <3>2. k \in InLru(lru)
      BY <2>2, <3>1 DEF Orderly, ListInv
    <3>3. /\ Listed(Without(k)) /\ InLru(Without(k)) = InLru(lru) \ {k}
          /\ Len(Without(k)) = Len(lru) - 1 /\ Len(lru) \in Nat
      BY <3>1, <3>2, WithoutFacts, ListedDomain
    <3>4. /\ Listed(lru') /\ InLru(lru') = InLru(lru) /\ Len(lru') = Len(lru)
      <4>1. Listed(lru') /\ InLru(lru') = InLru(Without(k)) \cup {k} /\ Len(lru') = Len(Without(k)) + 1
        BY <2>2, <3>1, <3>3, FrontFacts
      <4> QED BY <3>2, <3>3, <4>1
    <3> QED BY <1>1, <3>1, <3>4 DEF Shards, ListInv, Orderly, Types
  <2> QED BY <1>1, <2>1, <2>2 DEF Same
<1> QED BY <1>1, <1>2, <1>3, <1>4, PcOrderly DEF PCs

LEMMA DeleteShards ==
  ASSUME Orderly, NEW k \in Keys, Delete(k), UNCHANGED <<cap, now>>
  PROVE  Shards
<1>1. ListInv' /\ entries' = [entries EXCEPT ![k] = None] /\ Entries' = Entries
  BY DeleteKeeps DEF Orderly, Entries
<1> QED BY <1>1 DEF Shards, Orderly, Types

LEMMA ExpireOrderly ==
  ASSUME Orderly, NEW p \in Procs, Expire(p)
  PROVE  Orderly'
<1>1. /\ proc[p].pc = "expire" /\ proc' = [proc EXCEPT ![p] = AfterMiss(proc[p])]
      /\ UNCHANGED <<flight, starts, now>> /\ Rest
      /\ Delete(proc[p].key) \/ UNCHANGED <<entries, lru>>
  BY DEF Expire, Store
<1>2. /\ proc[p] \in ProcRec /\ proc[p].key \in Keys /\ proc[p].to \in Keys /\ proc[p].via \in Groups
  BY <1>1 DEF Orderly, Types, Working
<1>3. Clock /\ Others /\ Shards
  BY <1>1, <1>2, Quiet, DeleteShards DEF Rest
<1>4. PICK m : m = AfterMiss(proc[p])
  OBVIOUS
<1>5. m \in ProcRec /\ m.key \in Keys /\ m.to \in Keys /\ m.via \in Groups /\ m.pc # "put"
  BY <1>2, <1>4, AfterMissFacts DEF ProcRec
<1>6. ProcTo(p, m)
  BY <1>1, <1>3, <1>4, <1>5, Grow DEF ProcTo, Clock
<1> QED BY <1>3, <1>6, ProcStep

LEMMA DoOrderly ==
  ASSUME Orderly, NEW p \in Procs, Do(p)
  PROVE  Orderly'
<1>1. /\ proc[p].pc = "flight" /\ UNCHANGED <<starts, now, entries, lru>> /\ Rest
      /\ \/ proc' = [proc EXCEPT ![p].pc = "fetch"] /\ flight' = [flight EXCEPT ![proc[p].key] = p]
         \/ proc' = [proc EXCEPT ![p].pc = "wait"] /\ flight' = flight
  BY DEF Do, Store
<1>2. PICK z \in {"fetch", "wait"} : \E r : PcTo(p, z, r)
  BY <1>1, PcShape DEF Orderly, PCs
<1>3. Clock /\ Shards
  BY <1>1, Quiet DEF Rest
<1>4. flight' \in [Keys -> Procs \cup {None}]
  BY <1>1 DEF Orderly, Types
<1>5. Others
  BY <1>1, <1>4 DEF Others, Orderly, Types, Rest, Stores, Answers
<1> QED BY <1>1, <1>2, <1>3, <1>5, PcOrderly DEF PCs

(* What an exchange makes of the record r0: a new answer or none.          *)
ExchangeTo(p, r0, r) ==
  /\ proc' = [proc EXCEPT ![p] = r] /\ r \in ProcRec'
  /\ r.key = r0.key /\ r.to = r0.to /\ r.via = r0.via
  /\ r.given = r0.given /\ r.cand = r0.cand /\ r.shared = r0.shared
  /\ \/ r0.pc = "bypass" /\ r.pc = "done"
     \/ r0.pc = "fetch" /\ r.pc = "finish"
     \/ r0.pc = "fetch" /\ r.pc = "put" /\ now' = now + 1
  /\ \/ now' = now + 1 /\ r.val \in Answers' /\ r.val.born = now + 1
        /\ (r.val.from = r0.via \/ (r.val.from = Default /\ "group" \in Faults))
     \/ now' = now /\ r.val = r0.val

LEMMA ExchangeShape ==
  ASSUME Orderly, NEW p \in Procs, Exchange(p)
  PROVE  Clock /\ \E r : ExchangeTo(p, proc[p], r)
<1> DEFINE r0 == proc[p]
<1>1. proc \in [Procs -> ProcRec] /\ r0 \in ProcRec /\ r0.via \in Groups /\ now \in Nat
      /\ r0.pc \in {"fetch", "bypass"}
  BY DEF Orderly, Types, Working, Exchange
<1>2. Clock
  BY <1>1 DEF Exchange, Clock
<1>3. ProcRec \subseteq ProcRec' /\ Answers \subseteq Answers'
  BY <1>2, Grow DEF Clock
<1>4. ASSUME now' = now + 1, NEW a \in Reply(p), NEW z \in {"done", "put", "finish"},
             \/ r0.pc = "bypass" /\ z = "done"
             \/ r0.pc = "fetch" /\ z \in {"put", "finish"},
             proc' = [proc EXCEPT ![p].val = a, ![p].pc = z]
      PROVE  \E r : ExchangeTo(p, r0, r)
  <2>1. /\ a \in Answers' /\ a.born = now + 1
        /\ (a.from = r0.via \/ (a.from = Default /\ "group" \in Faults))
    <3>1. PICK g : a = [from |-> g, born |-> now + 1]
                   /\ (g = r0.via \/ (g = Default /\ "group" \in Faults))
      BY <1>4 DEF Reply
    <3>2. g \in Groups /\ now + 1 \in 1..now'
      BY <1>1, <1>4, <3>1, CacheAssumption
    <3> QED BY <3>1, <3>2 DEF Answers
  <2> DEFINE r == [r0 EXCEPT !.val = a, !.pc = z]
  <2>2. proc' = [proc EXCEPT ![p] = r]
    BY <1>1, <1>4
  <2>3. r0 \in ProcRec'
    BY <1>1, <1>3
  <2>4. /\ r \in ProcRec' /\ r.pc = z /\ r.val = a
        /\ r.key = r0.key /\ r.to = r0.to /\ r.via = r0.via
        /\ r.given = r0.given /\ r.cand = r0.cand /\ r.shared = r0.shared
    BY <2>1, <2>3 DEF ProcRec, PCs
  <2> HIDE DEF r, r0
  <2> QED BY <1>4, <2>1, <2>2, <2>4 DEF ExchangeTo
<1>5. ASSUME now' = now, proc' = [proc EXCEPT ![p].pc = IF @ = "bypass" THEN "done" ELSE "finish"]
      PROVE  \E r : ExchangeTo(p, r0, r)
  <2> DEFINE z == IF r0.pc = "bypass" THEN "done" ELSE "finish"
  <2>1. proc' = [proc EXCEPT ![p].pc = z] /\ z \in PCs
    BY <1>1, <1>5 DEF PCs, ProcRec
  <2>2. z \in {"done", "finish"} /\ (r0.pc = "bypass" <=> z = "done")
    OBVIOUS
  <2> HIDE DEF z
  <2>3. PICK r : PcTo(p, z, r)
    BY <2>1, PcShape DEF Orderly
  <2> QED BY <1>1, <1>3, <1>5, <2>2, <2>3 DEF ExchangeTo, PcTo
<1>6. \/ /\ now' = now + 1
         /\ \E a \in Reply(p), z \in {"done", "put", "finish"} :
              /\ \/ r0.pc = "bypass" /\ z = "done"
                 \/ r0.pc = "fetch" /\ z \in {"put", "finish"}
              /\ proc' = [proc EXCEPT ![p].val = a, ![p].pc = z]
      \/ now' = now /\ proc' = [proc EXCEPT ![p].pc = IF @ = "bypass" THEN "done" ELSE "finish"]
  BY DEF Exchange
<1> HIDE DEF r0
<1> QED BY <1>2, <1>4, <1>5, <1>6 DEF r0

LEMMA ExchangeOrderly ==
  ASSUME Orderly, NEW p \in Procs, Exchange(p)
  PROVE  Orderly'
<1>1. UNCHANGED <<flight, starts, entries, lru>> /\ Rest /\ proc[p].pc # "idle"
  BY DEF Exchange, Store
<1>2. Clock
  BY ExchangeShape
<1>3. PICK r : ExchangeTo(p, proc[p], r)
  BY ExchangeShape
<1>4. Shards /\ Others
  BY <1>1, <1>2, Quiet DEF Clock, Rest
<1>5. proc[p].key \in Keys /\ proc[p].to \in Keys /\ proc[p].via \in Groups /\ now \in Nat
  BY <1>1 DEF Orderly, Working, Types
<1>6. r.pc = "put" => r.val \in Answers'
  BY <1>3, <1>5 DEF ExchangeTo
<1>7. ProcTo(p, r)
  BY <1>3, <1>5, <1>6 DEF ProcTo, ExchangeTo
<1> QED BY <1>2, <1>4, <1>7, ProcStep

(* The put: an entry made of the goroutine's answer, which it gives.       *)
PutTo(p, e, r) ==
  /\ proc' = [proc EXCEPT ![p] = r] /\ r \in ProcRec /\ r.pc = "finish"
  /\ r.key = proc[p].key /\ r.to = proc[p].to /\ r.via = proc[p].via
  /\ r.val = proc[p].val /\ r.given = proc[p].val /\ r.cand = proc[p].cand
  /\ r.shared = proc[p].shared
  /\ e \in Entries' /\ e.from = proc[p].val.from /\ e.born = proc[p].val.born /\ e.tag = proc[p].to[2]
  /\ entries'[proc[p].to] = e
  /\ \A x \in Keys \ {proc[p].to} : entries'[x] \in {entries[x], None}

LEMMA PutShape ==
  ASSUME Orderly, NEW p \in Procs, PutForGroup(p)
  PROVE  Clock /\ Shards /\ \E e, r : PutTo(p, e, r)
<1> DEFINE a == proc[p].val
           k == proc[p].to
           e == [from |-> a.from, born |-> a.born, id |-> now + 1, tag |-> k[2]]
           r == [proc[p] EXCEPT !.pc = "finish", !.given = a]
<1>1. /\ proc[p].pc = "put" /\ now' = now + 1 /\ Insert(k, e) /\ Rest
      /\ proc' = [proc EXCEPT ![p].pc = "finish", ![p].given = a]
  BY DEF PutForGroup
<1>2. /\ proc \in [Procs -> ProcRec] /\ proc[p] \in ProcRec /\ now \in Nat /\ Types /\ ListInv
      /\ k \in Keys /\ a \in Answers
  BY <1>1 DEF Orderly, Types, Working
<1>3. Clock /\ now' \in Nat /\ Answers \subseteq Answers' /\ Entries \subseteq Entries' /\ now + 1 \in 1..now'
  BY <1>1, <1>2, Grow DEF Clock
<1>4. k[2] \in Groups
  BY <1>2 DEF Keys
<1>5. a.from \in Groups /\ a.born \in 1..now'
  BY <1>1, <1>2 DEF Answers
<1>6. e \in Entries' /\ e.from = a.from /\ e.born = a.born /\ e.tag = k[2]
  BY <1>3, <1>4, <1>5 DEF Entries
<1>7. proc' = [proc EXCEPT ![p] = r]
  BY <1>1, <1>2
<1>8. /\ r \in ProcRec /\ r.pc = "finish" /\ r.key = proc[p].key /\ r.to = proc[p].to
      /\ r.via = proc[p].via /\ r.val = a /\ r.given = a /\ r.cand = proc[p].cand
      /\ r.shared = proc[p].shared
  BY <1>2 DEF ProcRec, PCs
<1> HIDE DEF e, r
<1>9. e # None
  <2>1. Entries' \subseteq [from : Groups, born : Nat, id : Nat, tag : Groups]
    BY <1>3 DEF Entries
  <2> QED BY <1>6, <2>1, CacheAssumption
<1>10. /\ ListInv' /\ entries'[k] = e
       /\ \A x \in Keys \ {k} : entries'[x] \in {entries[x], None}
       /\ entries' = [x \in Keys |-> entries'[x]]
  BY <1>1, <1>2, <1>9, InsertKeeps DEF Rest
<1>11. Shards
  <2>1. \A x \in Keys : entries[x] \in Entries' \cup {None}
    BY <1>2, <1>3 DEF Types
  <2>2. \A x \in Keys : entries'[x] \in Entries' \cup {None}
    BY <1>6, <1>10, <2>1
  <2> QED BY <1>10, <2>2 DEF Shards
<1>12. PutTo(p, e, r)
  BY <1>6, <1>7, <1>8, <1>10 DEF PutTo
<1> QED BY <1>3, <1>11, <1>12

LEMMA PutOrderly ==
  ASSUME Orderly, NEW p \in Procs, PutForGroup(p)
  PROVE  Orderly'
<1>1. UNCHANGED <<flight, starts>> /\ Rest /\ proc[p].pc = "put"
  BY DEF PutForGroup
<1>2. Clock /\ Shards
  BY PutShape
<1>3. PICK e, r : PutTo(p, e, r)
  BY PutShape
<1>4. Others /\ ProcRec \subseteq ProcRec'
  BY <1>1, <1>2, Quiet, Grow DEF Clock
<1>5. proc[p].key \in Keys /\ proc[p].to \in Keys /\ proc[p].via \in Groups
  BY <1>1 DEF Orderly, Working
<1>6. ProcTo(p, r)
  BY <1>3, <1>4, <1>5 DEF ProcTo, PutTo
<1> QED BY <1>2, <1>4, <1>6, ProcStep

(* The end of a flight, for the leader, for those who waited and for the   *)
(* others.                                                                 *)
Waits(x, k) == proc[x].pc = "wait" /\ proc[x].key = k
FinishTo(p, x, r) ==
  \/ x = p /\ r = Settle(proc[p])
  \/ /\ Waits(x, proc[p].key) /\ r \in ProcRec /\ r.pc = "get" /\ r.shared
     /\ r.key = proc[x].key /\ r.to = proc[x].to /\ r.via = proc[x].via /\ r.cand = proc[x].cand
     /\ r.val = proc[p].val /\ r.given = proc[p].given
  \/ r = Idle
  \/ r = proc[x] /\ x # p /\ ~Waits(x, proc[p].key)

LEMMA FinishShape ==
  ASSUME Types, NEW p \in Procs, Finish(p)
  PROVE  /\ proc' \in [Procs -> ProcRec]
         /\ \A x \in Procs : FinishTo(p, x, proc'[x])
<1>1. /\ proc \in [Procs -> ProcRec] /\ proc[p] \in ProcRec /\ Settle(proc[p]) \in ProcRec
      /\ Idle \in ProcRec
  BY SettleFacts, IdleFacts DEF Types
<1> DEFINE G(x) == [proc[x] EXCEPT !.pc = "get", !.shared = TRUE, !.val = proc[p].val,
                                   !.given = proc[p].given]
<1>2. proc' = [x \in Procs |->
         IF x \in Queries /\ x = p THEN Settle(proc[p])
         ELSE IF x \in Queries /\ Waits(x, proc[p].key) THEN G(x)
         ELSE IF x = p \/ Waits(x, proc[p].key) THEN Idle
         ELSE proc[x]]
  BY DEF Finish, Waits
<1>3. ASSUME NEW x \in Procs
      PROVE  /\ G(x) \in ProcRec /\ G(x).pc = "get" /\ G(x).shared
             /\ G(x).key = proc[x].key /\ G(x).to = proc[x].to /\ G(x).via = proc[x].via
             /\ G(x).cand = proc[x].cand
             /\ G(x).val = proc[p].val /\ G(x).given = proc[p].given
  <2>1. proc[x] \in ProcRec
    BY <1>1
  <2>2. proc[p].val \in {None} \cup Answers \cup Entries /\ proc[p].given \in {None} \cup Answers
    BY <1>1 DEF ProcRec
  <2> QED BY <2>1, <2>2 DEF ProcRec, PCs
<1> HIDE DEF G
<1>4. ASSUME NEW x \in Procs
      PROVE  /\ proc'[x] \in ProcRec /\ FinishTo(p, x, proc'[x])
  <2>1. proc'[x] = IF x \in Queries /\ x = p THEN Settle(proc[p])
                   ELSE IF x \in Queries /\ Waits(x, proc[p].key) THEN G(x)
                   ELSE IF x = p \/ Waits(x, proc[p].key) THEN Idle
                   ELSE proc[x]
    BY <1>2
  <2> QED BY <1>1, <1>3, <2>1 DEF FinishTo
<1> QED BY <1>2, <1>4

LEMMA FinishOrderly ==
  ASSUME Orderly, NEW p \in Procs, Finish(p)
  PROVE  Orderly'
<1>1. /\ UNCHANGED <<starts, now, entries, lru>> /\ Rest /\ proc[p].pc = "finish"
      /\ flight' = [flight EXCEPT ![proc[p].key] = None]
  BY DEF Finish, Store
<1>2. Clock /\ Shards /\ ProcRec' = ProcRec /\ Answers' = Answers
  BY <1>1, Quiet DEF Rest, ProcRec, Answers, Entries
<1>3. flight' \in [Keys -> Procs \cup {None}]
  BY <1>1 DEF Orderly, Types
<1>4. Others
  BY <1>1, <1>3 DEF Others, Orderly, Types, Rest, Stores, Answers
<1>5. proc' \in [Procs -> ProcRec] /\ \A x \in Procs : FinishTo(p, x, proc'[x])
  BY FinishShape DEF Orderly
<1>6. Settle(proc[p]).pc = "done" /\ Settle(proc[p]).key = proc[p].key
      /\ Settle(proc[p]).to = proc[p].to /\ Settle(proc[p]).via = proc[p].via
  BY SettleFacts DEF Orderly, Types
<1>7. Working'
  BY <1>1, <1>2, <1>5, <1>6, IdleFacts DEF Working, Orderly, FinishTo, Waits
<1> QED BY <1>2, <1>4, <1>5, <1>7, ProcsStep

LEMMA ReturnOrderly ==
  ASSUME Orderly, NEW q \in Queries, Return(q)
  PROVE  Orderly'
<1>1. /\ proc[q].pc = "done" /\ proc' = [proc EXCEPT ![q] = Idle] /\ q \in Procs
      /\ UNCHANGED <<flight, starts, now>> /\ Rest
      /\ Delete(proc[q].key) \/ UNCHANGED <<entries, lru>>
  BY DEF Return, Store, Procs
<1>2. proc[q].key \in Keys
  BY <1>1 DEF Orderly, Working
<1>3. Clock /\ Others /\ Shards
  BY <1>1, <1>2, Quiet, DeleteShards DEF Rest
<1>4. ProcTo(q, Idle)
  BY <1>1, <1>3, IdleFacts, Grow DEF ProcTo, Clock
<1> QED BY <1>3, <1>4, ProcStep

LEMMA PrefetchShape ==
  ASSUME Orderly, NEW k \in Keys, PrefetchHotEntries(k)
  PROVE  /\ entries[k] # None /\ entries[k].tag \in Groups
         /\ \E r : /\ proc' = [proc EXCEPT ![Cleaner] = r] /\ r \in ProcRec /\ r.pc = "flight"
                   /\ r.key = k /\ r.to = <<k[1], entries[k].tag>> /\ r.to \in Keys
                   /\ r.via = entries[k].tag
                   /\ r.val = None /\ r.given = None /\ r.cand = None /\ ~r.shared
<1>1. entries[k] # None /\ entries[k] \in Entries /\ k[1] \in Names
  BY DEF PrefetchHotEntries, Orderly, Types, Keys
<1>2. entries[k].tag \in Groups
  BY <1>1 DEF Entries
<1> DEFINE to == <<k[1], entries[k].tag>>
           g == entries[k].tag
<1>3. to \in Keys
  BY <1>1, <1>2 DEF Keys
<1>4. proc' = [proc EXCEPT ![Cleaner] = Goroutine("flight", k, to, g)]
  BY DEF PrefetchHotEntries, CacheKeyForGroup
<1> HIDE DEF to, g
<1>5. PICK r : r = Goroutine("flight", k, to, g)
  OBVIOUS
<1>6. "flight" \in PCs /\ g \in Groups
  BY <1>2 DEF PCs, g
<1>7. /\ r \in ProcRec /\ r.pc = "flight" /\ r.key = k /\ r.to = to /\ r.via = g
      /\ r.val = None /\ r.given = None /\ r.cand = None /\ ~r.shared
  BY <1>3, <1>5, <1>6, GoroutineFacts
<1>8. to = <<k[1], entries[k].tag>> /\ g = entries[k].tag
  BY DEF to, g
<1> QED BY <1>1, <1>2, <1>3, <1>4, <1>5, <1>7, <1>8

LEMMA PrefetchOrderly ==
  ASSUME Orderly, NEW k \in Keys, PrefetchHotEntries(k)
  PROVE  Orderly'
<1>1. /\ starts < MaxStarts /\ starts' = starts + 1 /\ UNCHANGED <<flight, now, entries, lru>> /\ Rest
      /\ Cleaner \in Procs
  BY DEF PrefetchHotEntries, Store, Procs
<1>2. PICK r : /\ proc' = [proc EXCEPT ![Cleaner] = r] /\ r \in ProcRec /\ r.pc = "flight"
               /\ r.key = k /\ r.to \in Keys /\ r.via \in Groups
  BY PrefetchShape
<1>3. Clock /\ Shards /\ ProcRec \subseteq ProcRec'
  BY <1>1, Quiet, Grow DEF Clock, Rest
<1>4. starts' \in 0..MaxStarts
  BY <1>1, CacheAssumption DEF Orderly, Types
<1>5. Others
  BY <1>1, <1>4 DEF Others, Orderly, Types, Rest, Stores, Answers
<1>6. ProcTo(Cleaner, r)
  BY <1>1, <1>2, <1>3 DEF ProcTo
<1> QED BY <1>3, <1>5, <1>6, ProcStep

(* Steps no goroutine takes.                                               *)
LEMMA SameProcs ==
  ASSUME Orderly, proc' = proc, Clock, Shards, Others
  PROVE  Orderly'
<1>1. Answers \subseteq Answers' /\ [Procs -> ProcRec] \subseteq [Procs -> ProcRec']
  BY Grow DEF Clock
<1>2. proc' \in [Procs -> ProcRec']
  BY <1>1 DEF Orderly, Types
<1>3. Working'
  BY <1>1 DEF Orderly, Working
<1> QED BY <1>2, <1>3, ProcsStep

LEMMA CleanupShape ==
  ASSUME Orderly, CleanupExpired
  PROVE  /\ ListInv' /\ \A k \in Keys : entries'[k] \in {entries[k], None}
         /\ entries' = [k \in Keys |-> entries'[k]]
<1> DEFINE gone == {k \in Keys : entries[k] # None /\ entries[k].born \in dead}
<1>1. PICK n \in 0..Len(lru) : \E f \in [1..n -> DOMAIN lru] :
         /\ \A i, j \in 1..n : i < j => f[i] < f[j]
         /\ lru' = [i \in 1..n |-> lru[f[i]]] /\ InLru(lru') = InLru(lru) \ gone
  BY DEF CleanupExpired
<1>2. PICK f \in [1..n -> DOMAIN lru] :
         /\ \A i, j \in 1..n : i < j => f[i] < f[j]
         /\ lru' = [i \in 1..n |-> lru[f[i]]] /\ InLru(lru') = InLru(lru) \ gone
  BY <1>1
<1>3. entries' = [k \in Keys |-> IF k \in gone THEN None ELSE entries[k]] /\ cap' = cap
  BY DEF CleanupExpired, Rest
<1>4. /\ Listed(lru) /\ Len(lru) \in Nat /\ DOMAIN lru = 1..Len(lru)
      /\ \A i \in 1..Len(lru) : lru[i] \in Keys
      /\ \A i, j \in 1..Len(lru) : lru[i] = lru[j] => i = j
      /\ cap \in Nat /\ Len(lru) <= cap
  BY ListedDomain, CacheAssumption DEF Orderly, ListInv, Listed, Types
<1>5. \A i \in 1..n : f[i] \in 1..Len(lru) /\ f[i] \in Nat
  BY <1>2, <1>4
<1>6. /\ \A i \in 1..n : lru'[i] = lru[f[i]] /\ lru'[i] \in Keys
      /\ lru' = [i \in 1..n |-> lru'[i]] /\ n \in Nat
  BY <1>1, <1>2, <1>4, <1>5
<1>7. lru' \in Seq(Keys) /\ Len(lru') = n
  BY <1>6
<1>8. \A i, j \in 1..n : lru'[i] = lru'[j] => i = j
  <2> SUFFICES ASSUME NEW i \in 1..n, NEW j \in 1..n, lru'[i] = lru'[j], i # j PROVE FALSE
    OBVIOUS
  <2>1. f[i] = f[j]
    BY <1>4, <1>5, <1>6
  <2>2. i < j \/ j < i
    BY <1>6
  <2> QED BY <1>2, <1>5, <2>1, <2>2
<1>9. Listed(lru') /\ Len(lru') <= cap
  BY <1>1, <1>4, <1>7, <1>8 DEF Listed
<1>10. InLru(lru') = {k \in Keys : entries'[k] # None}
  BY <1>2, <1>3 DEF Orderly, ListInv
<1> QED BY <1>3, <1>9, <1>10 DEF ListInv

LEMMA CleanupOrderly ==
  ASSUME Orderly, CleanupExpired
  PROVE  Orderly'
<1>1. UNCHANGED <<flight, proc, starts, now>> /\ Rest
  BY DEF CleanupExpired
<1>2. Clock /\ Others /\ Entries' = Entries
  BY <1>1, Quiet DEF Entries
<1>3. Shards
  BY <1>2, CleanupShape DEF Shards, Orderly, Types
<1> QED BY <1>1, <1>2, <1>3, SameProcs

LEMMA PassOrderly ==
  ASSUME Orderly, NEW m \in 1..now, Pass(m)
  PROVE  Orderly'
<1>1. /\ UNCHANGED <<flight, proc, starts, now, cap, excluded, file, loading, entries, lru>>
      /\ stale' \cup dead' \subseteq stale \cup dead \cup {m}
  BY DEF Pass, Store
<1>2. Clock /\ Shards
  BY <1>1, Quiet
<1>3. Others
  BY <1>1 DEF Others, Orderly, Types, Stores, Answers
<1> QED BY <1>1, <1>2, <1>3, SameProcs

LEMMA EmptyShard ==
  ASSUME Orderly, lru' = <<>>, entries' = Nothing, cap' = cap
  PROVE  Shards
<1>1. Listed(<<>>) /\ InLru(<<>>) = {} /\ Len(<<>>) = 0
  BY DEF Listed, InLru
<1>2. cap \in Nat
  BY CacheAssumption DEF Orderly, Types
<1>3. entries' \in [Keys -> Entries' \cup {None}] /\ \A k \in Keys : entries'[k] = None
  BY DEF Nothing
<1> QED BY <1>1, <1>2, <1>3 DEF Shards, ListInv

LEMMA ResizeShape ==
  ASSUME Orderly, NEW c \in Caps, ResizeCapacity(c)
  PROVE  /\ ListInv' /\ \A k \in Keys : entries'[k] \in {entries[k], None}
         /\ entries' = [k \in Keys |-> entries'[k]]
<1> DEFINE n == IF Len(lru) > c THEN c ELSE Len(lru)
<1>1. /\ cap' = c /\ lru' = SubSeq(lru, 1, n)
      /\ entries' = [k \in Keys |-> IF k \in InLru(lru') THEN entries[k] ELSE None]
  BY DEF ResizeCapacity
<1>2. Listed(lru) /\ Len(lru) \in Nat /\ c \in Nat
  BY ListedDomain, CacheAssumption DEF Orderly, ListInv
<1>3. n \in 0..Len(lru) /\ n <= c
  BY <1>2
<1> HIDE DEF n
<1>4. Listed(lru') /\ InLru(lru') \subseteq InLru(lru) /\ Len(lru') = n
  BY <1>1, <1>2, <1>3, PrefixFacts
<1>5. InLru(lru') = {k \in Keys : entries'[k] # None}
  BY <1>1, <1>4 DEF Orderly, ListInv
<1> QED BY <1>1, <1>3, <1>4, <1>5 DEF ListInv

LEMMA ResizeOrderly ==
  ASSUME Orderly, NEW c \in Caps, ResizeCapacity(c)
  PROVE  Orderly'
<1>1. UNCHANGED <<flight, proc, starts, now, stale, dead, excluded, file, loading>> /\ cap' = c
  BY DEF ResizeCapacity
<1>2. Clock /\ Entries' = Entries
  BY <1>1, Quiet DEF Entries
<1>3. Shards
  BY <1>2, ResizeShape DEF Shards, Orderly, Types
<1>4. Others
  BY <1>1 DEF Others, Orderly, Types, Stores, Answers
<1> QED BY <1>1, <1>2, <1>3, <1>4, SameProcs

(* The file and what is read of it.                                        *)
LEMMA SnapshotType == ASSUME Types PROVE SnapshotForPersist \in Stores
<1>1. ASSUME NEW k \in Keys PROVE Record(entries[k]) \in Answers \cup {None}
  <2>1. CASE entries[k] = None \/ entries[k].born \in dead
    BY <2>1 DEF Record
  <2>2. CASE ~(entries[k] = None \/ entries[k].born \in dead)
    <3>1. entries[k] \in Entries
      BY <2>2 DEF Types
    <3> QED BY <2>2, <3>1 DEF Record, Entries, Answers
  <2> QED BY <2>1, <2>2
<1> QED BY <1>1 DEF SnapshotForPersist, Stores

LEMMA NothingStored == Nothing \in Stores
BY DEF Nothing, Stores

LEMMA FileOrderly ==
  ASSUME Orderly, SaveToFile \/ LoadCache \/ LoadLimit \/ \E S \in SUBSET Names : UpdateExcludes(S)
  PROVE  Orderly'
<1>1. UNCHANGED <<flight, proc, now, cap, stale, dead, entries, lru>>
  BY DEF SaveToFile, LoadCache, LoadLimit, UpdateExcludes, Store
<1>2. Clock /\ Shards /\ Stores' = Stores
  BY <1>1, Quiet DEF Stores, Answers
<1>3. file' \in Stores /\ loading' \in Stores
  BY SnapshotType, NothingStored DEF SaveToFile, LoadCache, LoadLimit, UpdateExcludes, Orderly, Types
<1>4. starts' \in 0..MaxStarts
  <2>1. starts' = starts \/ (starts < MaxStarts /\ starts' = starts + 1)
    BY DEF SaveToFile, LoadCache, LoadLimit, UpdateExcludes
  <2> QED BY <2>1, CacheAssumption DEF Orderly, Types
<1>5. excluded' \subseteq Names
  BY DEF SaveToFile, LoadCache, LoadLimit, UpdateExcludes, Orderly, Types
<1>6. Others
  BY <1>1, <1>2, <1>3, <1>4, <1>5 DEF Others, Orderly, Types
<1> QED BY <1>1, <1>2, <1>6, SameProcs

LEMMA LoadRecordOrderly ==
  ASSUME Orderly, NEW k \in Keys, LoadRecord(k)
  PROVE  Orderly'
<1>1. /\ loading[k] # None /\ loading' = [loading EXCEPT ![k] = None]
      /\ UNCHANGED <<flight, proc, starts, cap, stale, dead, excluded, file>>
      /\ \/ UNCHANGED <<entries, lru, now>>
         \/ LoadedEntry(k) # None /\ now' = now + 1 /\ Insert(k, LoadedEntry(k))
  BY DEF LoadRecord
<1>2. /\ now \in Nat /\ now' \in {now, now + 1} /\ loading \in Stores /\ Types /\ ListInv
  BY <1>1 DEF Orderly, Types
<1>3. /\ Clock /\ now' \in Nat /\ Stores \subseteq Stores' /\ Answers \subseteq Answers'
      /\ Entries \subseteq Entries' /\ 1..now \subseteq 1..now'
  BY <1>2, Grow DEF Clock
<1>4. loading' \in Stores
  BY <1>1, <1>2 DEF Stores
<1>5. Others
  BY <1>1, <1>3, <1>4 DEF Others, Orderly, Types
<1>6. CASE UNCHANGED <<entries, lru, now>>
  BY <1>1, <1>3, <1>5, <1>6, Quiet, SameProcs
<1>7. CASE LoadedEntry(k) # None /\ now' = now + 1 /\ Insert(k, LoadedEntry(k))
  <2>1. loading[k] \in Answers
    BY <1>1, <1>2 DEF Stores
  <2>2. LoadedEntry(k) = [from |-> loading[k].from, born |-> loading[k].born, id |-> now + 1, tag |-> Default]
    BY <1>7 DEF LoadedEntry
  <2>3. loading[k].from \in Groups /\ loading[k].born \in 1..now' /\ now + 1 \in 1..now' /\ Default \in Groups
    BY <1>2, <1>3, <1>7, <2>1, CacheAssumption DEF Answers
  <2>4. LoadedEntry(k) \in Entries'
    BY <2>2, <2>3 DEF Entries
  <2>5. /\ ListInv' /\ entries'[k] = LoadedEntry(k)
        /\ \A x \in Keys \ {k} : entries'[x] \in {entries[x], None}
        /\ entries' = [x \in Keys |-> entries'[x]]
    BY <1>1, <1>2, <1>7, InsertKeeps
  <2>6. \A x \in Keys : entries'[x] \in Entries' \cup {None}
    BY <1>2, <1>3, <2>4, <2>5 DEF Types
  <2>7. Shards
    BY <2>5, <2>6 DEF Shards
  <2> QED BY <1>1, <1>3, <1>5, <2>7, SameProcs
<1> QED BY <1>1, <1>6, <1>7

LEMMA RestartOrderly ==
  ASSUME Orderly, Restart
  PROVE  Orderly'
<1>1. /\ starts < MaxStarts /\ starts' = starts + 1 /\ file' \in {file, SnapshotForPersist}
      /\ lru' = <<>> /\ entries' = Nothing /\ flight' = Nothing /\ proc' = [p \in Procs |-> Idle]
      /\ loading' = file' /\ UNCHANGED <<cap, stale, dead, excluded, now>>
  BY DEF Restart
<1>2. Clock /\ Shards /\ Stores' = Stores /\ ProcRec' = ProcRec
  BY <1>1, Quiet, EmptyShard DEF Stores, Answers, Entries, ProcRec
<1>3. file' \in Stores /\ starts' \in 0..MaxStarts /\ flight' \in [Keys -> Procs \cup {None}]
  BY <1>1, SnapshotType, CacheAssumption DEF Orderly, Types, Nothing
<1>4. Others
  BY <1>1, <1>2, <1>3 DEF Others, Orderly, Types
<1>5. proc' \in [Procs -> ProcRec'] /\ Working'
  BY <1>1, <1>2, IdleFacts DEF Working
<1> QED BY <1>2, <1>4, <1>5, ProcsStep

LEMMA InitOrderly == Init => Orderly
<1> SUFFICES ASSUME Init PROVE Orderly
  OBVIOUS
<1>1. now = 0 /\ starts = 0 /\ cap \in Caps /\ cap \in Nat /\ MaxStarts \in Nat
  BY CacheAssumption DEF Init
<1>2. entries \in [Keys -> Entries \cup {None}] /\ flight \in [Keys -> Procs \cup {None}]
      /\ \A k \in Keys : entries[k] = None
  BY DEF Init, Nothing
<1>3. proc \in [Procs -> ProcRec] /\ Working
  BY IdleFacts DEF Init, Working
<1>4. file \in Stores /\ loading \in Stores
  BY NothingStored DEF Init
<1>5. Types
  BY <1>1, <1>2, <1>3, <1>4 DEF Types, Init
<1>6. ListInv
  <2>1. Listed(<<>>) /\ InLru(<<>>) = {} /\ Len(<<>>) = 0
    BY DEF Listed, InLru
  <2> QED BY <1>1, <1>2, <2>1 DEF ListInv, Init
<1> QED BY <1>3, <1>5, <1>6 DEF Orderly

LEMMA NextOrderly == Orderly /\ [Next]_vars => Orderly'
<1> SUFFICES ASSUME Orderly, [Next]_vars PROVE Orderly'
  OBVIOUS
<1>1. ASSUME NEW p \in Procs, Step(p) PROVE Orderly'
  BY <1>1, GetOrderly, BumpOrderly, ExpireOrderly, DoOrderly, ExchangeOrderly, PutOrderly,
     FinishOrderly DEF Step
<1>2. CASE Admin
  <2>1. CASE Clear
    <3>1. /\ lru' = <<>> /\ entries' = Nothing
          /\ UNCHANGED <<flight, proc, starts, now>> /\ Rest
      BY <2>1 DEF Clear
    <3>2. Clock /\ Others /\ Shards
      BY <3>1, Quiet, EmptyShard DEF Rest
    <3> QED BY <3>1, <3>2, SameProcs
  <2> QED BY <1>2, <2>1, FileOrderly, RestartOrderly, ResizeOrderly, LoadRecordOrderly DEF Admin
<1>3. CASE UNCHANGED vars
  <2>1. /\ UNCHANGED <<flight, proc, starts, now, entries, lru>> /\ Rest
    BY <1>3 DEF vars, Rest
  <2>2. Clock /\ Others /\ Shards
    BY <2>1, Quiet DEF Rest
  <2> QED BY <2>1, <2>2, SameProcs
<1> QED BY <1>1, <1>2, <1>3, AskOrderly, ReturnOrderly, PrefetchOrderly, CleanupOrderly, PassOrderly
        DEF Next

LEMMA AlwaysOrderly == Spec => []Orderly
<1> QED BY InitOrderly, NextOrderly, PTL DEF Spec

(* The list of the shard is the map in an order, each entry once, and      *)
(* within the capacity, for every interleaving of hits, removals, clears,  *)
(* resizes, loads and restarts (cache.go, cache_capacity.go,               *)
(* cache_cleaner.go).                                                      *)
THEOREM ListIsTheMap == Spec => []LruMatchesMap
<1>1. Orderly => LruMatchesMap
  <2> SUFFICES ASSUME Orderly PROVE LruMatchesMap
    OBVIOUS
  <2>1. \A p \in Procs : proc[p] \in ProcRec
    BY DEF Orderly, Types
  <2>2. \A p \in Procs : /\ proc[p].val \in {None} \cup Answers \cup Entries
                         /\ {proc[p].cand, proc[p].seen} \subseteq {None} \cup Entries
    BY <2>1 DEF ProcRec
  <2>3. TypeOK
    BY <2>2 DEF TypeOK, Orderly, Types, Stores
  <2> QED BY <2>3, ListedCardinality DEF LruMatchesMap, Orderly, ListInv
<1> QED BY <1>1, AlwaysOrderly, PTL

-----------------------------------------------------------------------------
(* The single flight orders the writers of a key.  Answers are read back   *)
(* from the file in no such order, so nothing is loaded or restarted here. *)
NoLoad == "load" \notin Events /\ "restart" \notin Events

Leading == {"fetch", "put", "finish"}
Given   == {"finish", "get", "expire", "bump", "done"}

Lead(p) == proc[p].pc \in Leading => flight[proc[p].key] = p
Aim(p)  == proc[p].pc # "idle" => proc[p].to = proc[p].key

(* Who was given an answer has it, or a younger one, and so has the cache. *)
Owes(p) ==
  proc[p].given # None =>
    /\ proc[p].pc \in Given /\ (proc[p].pc \in {"get", "expire"} => proc[p].shared)
    /\ proc[p].val # None /\ proc[p].val.born >= proc[p].given.born
    /\ entries[proc[p].key] # None => entries[proc[p].key].born >= proc[p].given.born

(* Who is about to write has the youngest answer for the key.              *)
Ahead(p) ==
  proc[p].pc = "put" =>
    /\ entries[proc[p].key] # None => entries[proc[p].key].born < proc[p].val.born
    /\ \A x \in Procs : proc[x].given # None /\ proc[x].key = proc[p].key =>
                          proc[x].given.born < proc[p].val.born

Flights ==
  /\ loading = Nothing /\ \A k \in Keys : entries[k] # None => entries[k].tag = k[2]
  /\ \A p \in Procs : Lead(p) /\ Aim(p) /\ Owes(p) /\ Ahead(p)

Shrunk == \A k \in Keys : entries'[k] = entries[k] \/ entries'[k] = None

LEMMA BornFacts ==
  ASSUME Types
  PROVE  /\ now \in Nat
         /\ \A k \in Keys : entries[k] # None => entries[k].born \in Nat /\ entries[k].born <= now
         /\ \A p \in Procs :
              /\ proc[p].given # None => proc[p].given.born \in Nat /\ proc[p].given.born <= now
              /\ proc[p].val # None => proc[p].val.born \in Nat /\ proc[p].val.born <= now
<1>1. now \in Nat /\ \A k \in Keys : entries[k] \in Entries \cup {None}
  BY DEF Types
<1>2. ASSUME NEW p \in Procs
      PROVE  proc[p].given \in {None} \cup Answers /\ proc[p].val \in {None} \cup Answers \cup Entries
  <2>1. proc[p] \in ProcRec
    BY DEF Types
  <2> QED BY <2>1 DEF ProcRec
<1>3. \A a \in Answers \cup Entries : a.born \in Nat /\ a.born <= now
  BY <1>1 DEF Answers, Entries
<1> QED BY <1>1, <1>2, <1>3

(* What a goroutine may move to when no flight ends and nothing is put.    *)
Fine(x) ==
  /\ proc'[x].pc \in Leading => flight'[proc'[x].key] = x
  /\ proc'[x].pc # "idle" => proc'[x].to = proc'[x].key
  /\ proc'[x].given # None =>
       /\ proc'[x].given = proc[x].given /\ proc'[x].key = proc[x].key
       /\ proc'[x].pc \in Given /\ (proc'[x].pc \in {"get", "expire"} => proc'[x].shared)
       /\ proc'[x].val # None /\ proc'[x].val.born >= proc'[x].given.born
  /\ proc'[x].pc = "put" =>
       /\ \A k \in Keys : entries[k] # None => entries[k].born < proc'[x].val.born
       /\ \A y \in Procs : proc[y].given # None => proc[y].given.born < proc'[x].val.born
       /\ proc'[x].key \in Keys

LEMMA FlightStep ==
  ASSUME Orderly, Flights, Shrunk, loading' = loading,
         \A x \in Procs : proc'[x] = proc[x] \/ Fine(x),
         \A x \in Procs : proc'[x] = proc[x] => Lead(x)'
  PROVE  Flights'
<1>1. ASSUME NEW x \in Procs
      PROVE  proc'[x].given # None => proc'[x].given = proc[x].given /\ proc'[x].key = proc[x].key
  BY DEF Fine
<1>2. ASSUME NEW x \in Procs, proc'[x] = proc[x]
      PROVE  Aim(x)' /\ Owes(x)' /\ Ahead(x)'
  <2>1. Aim(x) /\ Owes(x) /\ Ahead(x) /\ (proc[x].pc # "idle" => proc[x].key \in Keys)
    BY DEF Flights, Orderly, Working
  <2>2. Aim(x)'
    BY <1>2, <2>1 DEF Aim
  <2>3. Owes(x)'
    <3> SUFFICES ASSUME proc[x].given # None, entries'[proc[x].key] # None
                 PROVE  entries'[proc[x].key].born >= proc[x].given.born
      BY <1>2, <2>1 DEF Owes
    <3>1. proc[x].key \in Keys
      BY <2>1 DEF Owes, Given
    <3> QED BY <2>1, <3>1 DEF Shrunk, Owes
  <2>4. Ahead(x)'
    <3> SUFFICES ASSUME proc[x].pc = "put"
                 PROVE  /\ entries'[proc[x].key] # None => entries'[proc[x].key].born < proc[x].val.born
                        /\ \A y \in Procs : proc'[y].given # None /\ proc'[y].key = proc[x].key =>
                                              proc'[y].given.born < proc[x].val.born
      BY <1>2 DEF Ahead
    <3>1. proc[x].key \in Keys
      BY <2>1
    <3>2. entries'[proc[x].key] # None => entries'[proc[x].key].born < proc[x].val.born
      BY <2>1, <3>1 DEF Shrunk, Ahead
    <3> QED BY <1>1, <2>1, <3>2 DEF Ahead
  <2> QED BY <2>2, <2>3, <2>4
<1>3. ASSUME NEW x \in Procs, Fine(x)
      PROVE  Lead(x)' /\ Aim(x)' /\ Owes(x)' /\ Ahead(x)'
  <2>1. Lead(x)' /\ Aim(x)'
    BY <1>3 DEF Lead, Aim, Fine
  <2>2. Owes(x)'
    <3> SUFFICES ASSUME proc'[x].given # None
                 PROVE  entries'[proc'[x].key] # None => entries'[proc'[x].key].born >= proc'[x].given.born
      BY <1>3 DEF Owes, Fine
    <3>1. proc'[x].given = proc[x].given /\ proc'[x].key = proc[x].key /\ Owes(x)
      BY <1>3 DEF Fine, Flights
    <3>2. proc[x].key \in Keys
      BY <3>1 DEF Owes, Given, Orderly, Working
    <3> QED BY <3>1, <3>2 DEF Shrunk, Owes
  <2>3. Ahead(x)'
    <3> SUFFICES ASSUME proc'[x].pc = "put"
                 PROVE  /\ entries'[proc'[x].key] # None => entries'[proc'[x].key].born < proc'[x].val.born
                        /\ \A y \in Procs : proc'[y].given # None /\ proc'[y].key = proc'[x].key =>
                                              proc'[y].given.born < proc'[x].val.born
      BY DEF Ahead
    <3>1. entries'[proc'[x].key] # None => entries'[proc'[x].key].born < proc'[x].val.born
      BY <1>3 DEF Fine, Shrunk
    <3> QED BY <1>1, <1>3, <3>1 DEF Fine
  <2> QED BY <2>1, <2>2, <2>3
<1>4. \A p \in Procs : Lead(p)' /\ Aim(p)' /\ Owes(p)' /\ Ahead(p)'
  BY <1>2, <1>3
<1>5. loading' = Nothing /\ \A k \in Keys : entries'[k] # None => entries'[k].tag = k[2]
  BY DEF Flights, Shrunk
<1> QED BY <1>4, <1>5 DEF Flights

(* Steps that leave the flights alone.                                     *)
LEMMA SameFlight ==
  ASSUME Orderly, Flights, Shrunk, UNCHANGED <<loading, flight>>,
         \A x \in Procs : proc'[x] = proc[x] \/ Fine(x)
  PROVE  Flights'
<1>1. \A x \in Procs : proc'[x] = proc[x] => Lead(x)'
  BY DEF Flights, Lead
<1> QED BY <1>1, FlightStep

LEMMA DeleteShrinks == ASSUME Types, NEW k, Delete(k) \/ UNCHANGED entries PROVE Shrunk
BY DEF Delete, Shrunk, Types

LEMMA AskFlights ==
  ASSUME Orderly, Flights, NEW q \in Queries, NEW n \in Names, NEW g \in Groups, Ask(q, n, g)
  PROVE  Flights'
<1> DEFINE k == <<n, g>>
           z == IF n \in excluded THEN "bypass" ELSE "get"
<1>1. /\ proc' = [proc EXCEPT ![q] = Goroutine(z, k, k, g)]
      /\ UNCHANGED <<flight, loading, entries>>
  BY DEF Ask, CacheKeyForGroup, Store, Rest
<1>2. q \in Procs /\ k \in Keys /\ z \in PCs /\ z \in {"get", "bypass"}
  BY DEF Procs, Keys, PCs
<1> HIDE DEF k, z
<1>3. PICK r : r = Goroutine(z, k, k, g)
  OBVIOUS
<1>4. r.pc = z /\ r.key = k /\ r.to = k /\ r.given = None
  BY <1>2, <1>3, GoroutineFacts
<1>5. proc'[q] = r /\ \A x \in Procs \ {q} : proc'[x] = proc[x]
  BY <1>1, <1>2, <1>3 DEF Orderly, Types
<1>6. Fine(q)
  BY <1>2, <1>4, <1>5 DEF Fine, Leading
<1> QED BY <1>1, <1>5, <1>6, SameFlight DEF Shrunk

LEMMA GetFlights ==
  ASSUME Orderly, Flights, NEW p \in Procs, Get(p)
  PROVE  Flights'
<1>1. UNCHANGED <<flight, loading, entries>> /\ proc[p].pc = "get"
  BY DEF Get, Store, Rest
<1>2. PICK r : /\ GetTo(proc[p], entries[proc[p].key], r)
               /\ \/ proc' = [proc EXCEPT ![p] = r]
                  \/ /\ Optimistic
                     /\ \E b \in Refreshers :
                          /\ proc[b].pc = "idle"
                          /\ proc' = [proc EXCEPT ![p] = r,
                                        ![b] = Goroutine("flight", proc[p].key, proc[p].key, Default)]
  BY GetShape
<1>3. proc \in [Procs -> ProcRec] /\ proc[p] \in ProcRec /\ proc[p].key \in Keys
  BY <1>1 DEF Orderly, Types, Working
<1>4. ASSUME proc'[p] = r PROVE Fine(p)
  <2>1. r.key = proc[p].key /\ r.to = r.key /\ r.given = proc[p].given
    BY <1>1, <1>2 DEF GetTo, Flights, Aim
  <2>2. r.pc \notin Leading /\ r.pc # "put"
    BY <1>2, SettleFacts DEF GetTo, Leading
  <2>3. ASSUME r.given # None
        PROVE  /\ r.pc \in Given /\ (r.pc \in {"get", "expire"} => r.shared)
               /\ r.val # None /\ r.val.born >= r.given.born
    <3>1. /\ proc[p].shared /\ proc[p].val # None /\ proc[p].val.born >= proc[p].given.born
          /\ entries[proc[p].key] # None => entries[proc[p].key].born >= proc[p].given.born
      BY <1>1, <2>1, <2>3 DEF Flights, Owes
    <3>2. CASE r = Settle(proc[p])
      <4>1. r.val = proc[p].val /\ r.pc = "done"
        BY <1>3, <3>1, <3>2, SettleFacts
      <4> QED BY <2>1, <3>1, <4>1 DEF Given
    <3>3. CASE r.pc \in {"bump", "done"} /\ entries[proc[p].key] # None /\ r.val = entries[proc[p].key]
      BY <2>1, <3>1, <3>3 DEF Given
    <3>4. CASE r.pc = "expire" /\ r.val = proc[p].val
      BY <1>2, <2>1, <3>1, <3>4 DEF Given, GetTo
    <3> QED BY <1>2, <3>1, <3>2, <3>3, <3>4 DEF GetTo
  <2> QED BY <1>4, <2>1, <2>2, <2>3 DEF Fine
<1>5. CASE proc' = [proc EXCEPT ![p] = r]
  <2>1. proc'[p] = r /\ \A x \in Procs \ {p} : proc'[x] = proc[x]
    BY <1>3, <1>5
  <2> QED BY <1>1, <1>4, <2>1, SameFlight DEF Shrunk
<1>6. ASSUME NEW b \in Refreshers, proc[b].pc = "idle",
             proc' = [proc EXCEPT ![p] = r, ![b] = Goroutine("flight", proc[p].key, proc[p].key, Default)]
      PROVE  Flights'
  <2>1. PICK s : s = Goroutine("flight", proc[p].key, proc[p].key, Default)
    OBVIOUS
  <2>2. b \in Procs /\ b # p /\ "flight" \in PCs /\ Default \in Groups
    BY <1>1, <1>6, CacheAssumption DEF Procs, PCs
  <2>3. s.pc = "flight" /\ s.key = proc[p].key /\ s.to = proc[p].key /\ s.given = None
    BY <1>3, <2>1, <2>2, GoroutineFacts
  <2>4. proc'[p] = r /\ proc'[b] = s /\ \A x \in Procs \ {p, b} : proc'[x] = proc[x]
    BY <1>3, <1>6, <2>1, <2>2
  <2>5. Fine(b)
    BY <2>3, <2>4 DEF Fine, Leading
  <2> QED BY <1>1, <1>4, <2>4, <2>5, SameFlight DEF Shrunk
<1> QED BY <1>2, <1>5, <1>6

LEMMA BumpFlights ==
  ASSUME Orderly, Flights, NEW p \in Procs, Bump(p)
  PROVE  Flights'
<1>1. UNCHANGED <<flight, loading, entries>> /\ proc[p].pc = "bump" /\ proc' = [proc EXCEPT ![p].pc = "done"]
  BY DEF Bump, Rest
<1>2. PICK r : PcTo(p, "done", r)
  BY <1>1, PcShape DEF Orderly, PCs
<1>3. proc'[p] = r /\ \A x \in Procs \ {p} : proc'[x] = proc[x]
  BY <1>2 DEF PcTo, Orderly, Types
<1>4. Aim(p) /\ Owes(p)
  BY DEF Flights
<1>5. Fine(p)
  BY <1>1, <1>2, <1>3, <1>4 DEF Fine, PcTo, Aim, Owes, Leading, Given
<1> QED BY <1>1, <1>3, <1>5, SameFlight DEF Shrunk

LEMMA ExpireFlights ==
  ASSUME Orderly, Flights, NEW p \in Procs, Expire(p)
  PROVE  Flights'
<1>1. /\ UNCHANGED <<flight, loading>> /\ proc[p].pc = "expire"
      /\ proc' = [proc EXCEPT ![p] = AfterMiss(proc[p])]
      /\ Delete(proc[p].key) \/ UNCHANGED entries
  BY DEF Expire, Rest, Store
<1>2. Shrunk
  BY <1>1, DeleteShrinks DEF Orderly
<1>3. PICK m : m = AfterMiss(proc[p])
  OBVIOUS
<1>4. proc[p] \in ProcRec /\ proc'[p] = m /\ \A x \in Procs \ {p} : proc'[x] = proc[x]
  BY <1>1, <1>3 DEF Orderly, Types
<1>5. /\ m.key = proc[p].key /\ m.to = proc[p].to /\ m.given = proc[p].given /\ m.pc \in {"done", "flight"}
      /\ proc[p].shared => m = Settle(proc[p]) /\ m.pc = "done"
  BY <1>3, <1>4, AfterMissFacts DEF ProcRec
<1>6. Aim(p) /\ Owes(p)
  BY DEF Flights
<1>7. ASSUME m.given # None
      PROVE  m.pc \in Given /\ m.pc = "done" /\ m.val # None /\ m.val.born >= m.given.born
  <2>1. proc[p].shared /\ proc[p].val # None /\ proc[p].val.born >= proc[p].given.born
    BY <1>1, <1>5, <1>6, <1>7 DEF Owes
  <2>2. m.pc = "done" /\ m.val = proc[p].val
    BY <1>4, <1>5, <2>1, SettleFacts
  <2> QED BY <1>5, <2>1, <2>2 DEF Given
<1>8. Fine(p)
  BY <1>1, <1>4, <1>5, <1>6, <1>7 DEF Fine, Aim, Leading
<1> QED BY <1>1, <1>2, <1>4, <1>8, SameFlight

(* Only who finds no flight of the key leads.                              *)
LEMMA DoFlights ==
  ASSUME Orderly, Flights, NEW p \in Procs, Do(p)
  PROVE  Flights'
<1> DEFINE k == proc[p].key
<1>1. /\ proc[p].pc = "flight" /\ UNCHANGED <<loading, entries>>
      /\ \/ proc' = [proc EXCEPT ![p].pc = "fetch"] /\ flight' = [flight EXCEPT ![k] = p] /\ flight[k] = None
         \/ proc' = [proc EXCEPT ![p].pc = "wait"] /\ flight' = flight
  BY DEF Do, Store, Rest
<1>2. PICK z \in {"fetch", "wait"} : proc' = [proc EXCEPT ![p].pc = z] /\ \E r : PcTo(p, z, r)
  BY <1>1, PcShape DEF Orderly, PCs
<1>3. PICK r : PcTo(p, z, r)
  BY <1>2
<1>4. proc'[p] = r /\ \A x \in Procs \ {p} : proc'[x] = proc[x]
  BY <1>3 DEF PcTo, Orderly, Types
<1>5. Aim(p) /\ Owes(p) /\ k \in Keys /\ flight \in [Keys -> Procs \cup {None}]
  BY <1>1 DEF Flights, Orderly, Working, Types
<1>6. r.pc = z /\ r.key = k /\ r.to = k /\ r.given = None
  BY <1>1, <1>3, <1>5 DEF PcTo, Aim, Owes, Given
<1>7. r.pc \in Leading => flight'[k] = p
  <2>1. CASE flight' = [flight EXCEPT ![k] = p]
    BY <1>5, <2>1
  <2>2. CASE proc' = [proc EXCEPT ![p].pc = "wait"]
    <3>1. proc'[p].pc = "wait"
      BY <2>2 DEF Orderly, Types, ProcRec
    <3> QED BY <1>4, <3>1 DEF Leading
  <2> QED BY <1>1, <2>1, <2>2
<1>8. Fine(p)
  BY <1>4, <1>6, <1>7 DEF Fine
<1>9. ASSUME NEW x \in Procs, proc'[x] = proc[x] PROVE Lead(x)'
  <2> SUFFICES ASSUME proc[x].pc \in Leading PROVE flight'[proc[x].key] = x
    BY <1>9 DEF Lead
  <2>1. flight[proc[x].key] = x /\ proc[x].key \in Keys
    BY DEF Flights, Lead, Orderly, Working, Leading
  <2>2. x # None
    BY CacheAssumption
  <2> QED BY <1>1, <1>5, <2>1, <2>2
<1> QED BY <1>1, <1>4, <1>8, <1>9, FlightStep DEF Shrunk

LEMMA ExchangeFlights ==
  ASSUME Orderly, Flights, NEW p \in Procs, Exchange(p)
  PROVE  Flights'
<1>1. UNCHANGED <<flight, loading, entries>> /\ proc[p].pc \in {"fetch", "bypass"}
  BY DEF Exchange, Store, Rest
<1>2. PICK r : ExchangeTo(p, proc[p], r)
  BY ExchangeShape
<1>3. proc'[p] = r /\ \A x \in Procs \ {p} : proc'[x] = proc[x]
  BY <1>2 DEF ExchangeTo, Orderly, Types
<1>4. Aim(p) /\ Owes(p) /\ Lead(p) /\ proc[p].key \in Keys
  BY <1>1 DEF Flights, Orderly, Working
<1>5. proc[p].given = None
  BY <1>1, <1>4 DEF Owes, Given
<1>6. r.key = proc[p].key /\ r.to = r.key /\ r.given = None
  BY <1>1, <1>2, <1>4, <1>5 DEF ExchangeTo, Aim
<1>7. r.pc \in Leading => flight'[r.key] = p
  BY <1>1, <1>2, <1>4, <1>6 DEF ExchangeTo, Lead, Leading
<1>8. ASSUME r.pc = "put"
      PROVE  /\ \A k \in Keys : entries[k] # None => entries[k].born < r.val.born
             /\ \A y \in Procs : proc[y].given # None => proc[y].given.born < r.val.born
  <2>1. now \in Nat
    BY DEF Orderly, Types
  <2>2. r.val.born = now + 1
    BY <1>2, <1>8, <2>1 DEF ExchangeTo
  <2> QED BY <2>1, <2>2, BornFacts DEF Orderly
<1>9. Fine(p)
  BY <1>3, <1>4, <1>6, <1>7, <1>8 DEF Fine
<1> QED BY <1>1, <1>3, <1>9, SameFlight DEF Shrunk

(* The writer is alone with its key.                                       *)
LEMMA PutFlights ==
  ASSUME Orderly, Flights, NEW p \in Procs, PutForGroup(p)
  PROVE  /\ Flights'
         /\ \A k \in Keys : entries[k] # None /\ entries'[k] # None => entries'[k].born >= entries[k].born
<1>1. UNCHANGED <<flight, loading>> /\ proc[p].pc = "put"
  BY DEF PutForGroup, Rest
<1>2. PICK e, r : PutTo(p, e, r)
  BY PutShape
<1> DEFINE k == proc[p].key
           v == proc[p].val
<1>3. /\ Aim(p) /\ Lead(p) /\ Ahead(p) /\ k \in Keys /\ proc[p].to = k /\ flight[k] = p
      /\ v \in Answers /\ v # None
  BY <1>1, NoneFacts DEF Flights, Orderly, Working, Aim, Lead, Leading, Types
<1>4. proc'[p] = r /\ \A x \in Procs \ {p} : proc'[x] = proc[x]
  BY <1>2 DEF PutTo, Orderly, Types
<1>5. /\ entries'[k] = e /\ e.born = v.born /\ e.tag = k[2]
      /\ \A x \in Keys \ {k} : entries'[x] = entries[x] \/ entries'[x] = None
      /\ r.pc = "finish" /\ r.key = k /\ r.to = k /\ r.val = v /\ r.given = v
  BY <1>2, <1>3 DEF PutTo
<1>6. v.born \in Nat
  BY <1>3, BornFacts DEF Orderly
<1> HIDE DEF k, v
<1>7. \A x \in Procs \ {p} : proc[x].pc \in Leading => proc[x].key # k
  BY <1>3 DEF Flights, Lead
<1>8. Lead(p)' /\ Aim(p)' /\ Owes(p)' /\ Ahead(p)'
  <2>1. Lead(p)' /\ Aim(p)'
    BY <1>1, <1>3, <1>4, <1>5 DEF Lead, Aim
  <2>2. Owes(p)'
    BY <1>3, <1>4, <1>5, <1>6 DEF Owes, Given
  <2>3. Ahead(p)'
    BY <1>4, <1>5 DEF Ahead
  <2> QED BY <2>1, <2>2, <2>3
<1>9. ASSUME NEW x \in Procs \ {p} PROVE Lead(x)' /\ Aim(x)' /\ Owes(x)' /\ Ahead(x)'
  <2>1. Lead(x) /\ Aim(x) /\ Owes(x) /\ Ahead(x) /\ proc'[x] = proc[x]
        /\ (proc[x].pc # "idle" => proc[x].key \in Keys)
    BY <1>4 DEF Flights, Orderly, Working
  <2>2. Lead(x)' /\ Aim(x)'
    BY <1>1, <2>1 DEF Lead, Aim
  <2>3. Owes(x)'
    <3> SUFFICES ASSUME proc[x].given # None, entries'[proc[x].key] # None
                 PROVE  entries'[proc[x].key].born >= proc[x].given.born
      BY <2>1 DEF Owes
    <3>1. proc[x].key \in Keys
      BY <2>1 DEF Owes, Given
    <3>2. CASE proc[x].key = k
      <4>1. proc[x].given.born < v.born /\ proc[x].given.born \in Nat
        BY <1>1, <1>3, <3>2, BornFacts DEF Ahead, Orderly, k, v
      <4> QED BY <1>5, <1>6, <3>2, <4>1
    <3>3. CASE proc[x].key # k
      BY <1>5, <2>1, <3>1, <3>3 DEF Owes
    <3> QED BY <3>2, <3>3
  <2>4. Ahead(x)'
    <3> SUFFICES ASSUME proc[x].pc = "put"
                 PROVE  /\ entries'[proc[x].key] # None => entries'[proc[x].key].born < proc[x].val.born
                        /\ \A y \in Procs : proc'[y].given # None /\ proc'[y].key = proc[x].key =>
                                              proc'[y].given.born < proc[x].val.born
      BY <2>1 DEF Ahead
    <3>1. proc[x].key \in Keys /\ proc[x].key # k
      BY <1>7, <2>1 DEF Leading
    <3>2. entries'[proc[x].key] # None => entries'[proc[x].key].born < proc[x].val.born
      BY <1>5, <2>1, <3>1 DEF Ahead
    <3>3. \A y \in Procs : proc'[y].key = proc[x].key => proc'[y] = proc[y]
      BY <1>4, <1>5, <3>1
    <3> QED BY <2>1, <3>2, <3>3 DEF Ahead
  <2> QED BY <2>2, <2>3, <2>4
<1>10. loading' = Nothing /\ \A x \in Keys : entries'[x] # None => entries'[x].tag = x[2]
  BY <1>1, <1>3, <1>5 DEF Flights
<1>11. \A x \in Procs : Lead(x)' /\ Aim(x)' /\ Owes(x)' /\ Ahead(x)'
  BY <1>8, <1>9
<1>12. Flights'
  BY <1>10, <1>11 DEF Flights
<1>13. ASSUME NEW x \in Keys, entries[x] # None, entries'[x] # None
       PROVE  entries'[x].born >= entries[x].born
  <2>1. entries[x].born \in Nat
    BY <1>13, BornFacts DEF Orderly
  <2>2. CASE x = k
    <3>1. entries[x].born < v.born
      BY <1>1, <1>3, <1>13, <2>2 DEF Ahead, k, v
    <3> QED BY <1>5, <1>6, <2>1, <2>2, <3>1
  <2> QED BY <1>5, <1>13, <2>1, <2>2
<1> QED BY <1>12, <1>13

LEMMA FinishFlights ==
  ASSUME Orderly, Flights, NEW p \in Procs, Finish(p)
  PROVE  Flights'
<1> DEFINE k == proc[p].key
<1>1. /\ UNCHANGED <<loading, entries>> /\ proc[p].pc = "finish"
      /\ flight' = [flight EXCEPT ![k] = None]
  BY DEF Finish, Store, Rest
<1>2. \A x \in Procs : FinishTo(p, x, proc'[x])
  BY FinishShape DEF Orderly
<1>3. /\ Aim(p) /\ Lead(p) /\ Owes(p) /\ k \in Keys /\ proc[p].to = k /\ flight[k] = p
      /\ proc[p] \in ProcRec /\ flight \in [Keys -> Procs \cup {None}]
  BY <1>1 DEF Flights, Orderly, Working, Types, Aim, Lead, Leading
<1>4. \A x \in Procs \ {p} : proc[x].pc \in Leading => proc[x].key # k
  BY <1>3 DEF Flights, Lead
<1> DEFINE d == Settle(proc[p])
<1>5. /\ d.pc = "done" /\ d.key = k /\ d.to = k /\ d.given = proc[p].given
      /\ d.val = IF proc[p].val = None THEN proc[p].cand ELSE proc[p].val
  BY <1>3, SettleFacts
<1> HIDE DEF d, k
<1>6. ASSUME NEW x \in Procs
      PROVE  /\ proc'[x].given # None =>
                  \/ proc'[x].given = proc[x].given /\ proc'[x].key = proc[x].key
                  \/ proc'[x].key = k
             /\ proc'[x].pc = "put" => proc'[x] = proc[x] /\ x # p
             /\ Lead(x)' /\ Aim(x)' /\ Owes(x)'
  <2>0. Lead(x) /\ Aim(x) /\ Owes(x) /\ (proc[x].pc # "idle" => proc[x].key \in Keys)
    BY DEF Flights, Orderly, Working
  <2>1. CASE x = p /\ proc'[x] = d
    <3>1. Owes(x)'
      BY <1>1, <1>3, <1>5, <2>1 DEF Owes, Given, k
    <3> QED BY <1>5, <2>1, <3>1 DEF Lead, Aim, Leading
  <2>2. CASE /\ Waits(x, k) /\ proc'[x].pc = "get" /\ proc'[x].shared
             /\ proc'[x].key = proc[x].key /\ proc'[x].to = proc[x].to
             /\ proc'[x].val = proc[p].val /\ proc'[x].given = proc[p].given
    <3>1. proc'[x].key = k /\ proc'[x].to = k
      BY <2>0, <2>2 DEF Waits, Aim
    <3>2. Owes(x)'
      BY <1>1, <1>3, <2>2, <3>1 DEF Owes, Given, k
    <3> QED BY <2>2, <3>1, <3>2 DEF Lead, Aim, Leading
  <2>3. CASE proc'[x] = Idle
    BY <2>3, IdleFacts DEF Lead, Aim, Owes, Leading
  <2>4. CASE proc'[x] = proc[x] /\ x # p
    <3>1. Lead(x)'
      BY <1>1, <1>3, <1>4, <2>0, <2>4 DEF Lead, Leading
    <3>2. Aim(x)' /\ Owes(x)'
      BY <1>1, <2>0, <2>4 DEF Aim, Owes
    <3> QED BY <2>4, <3>1, <3>2
  <2> QED BY <1>2, <2>1, <2>2, <2>3, <2>4 DEF FinishTo, d, k
<1>7. ASSUME NEW x \in Procs PROVE Ahead(x)'
  <2> SUFFICES ASSUME proc'[x].pc = "put"
               PROVE  /\ entries'[proc'[x].key] # None => entries'[proc'[x].key].born < proc'[x].val.born
                      /\ \A y \in Procs : proc'[y].given # None /\ proc'[y].key = proc'[x].key =>
                                            proc'[y].given.born < proc'[x].val.born
    BY DEF Ahead
  <2>1. proc'[x] = proc[x] /\ x # p /\ Ahead(x)
    BY <1>6 DEF Flights
  <2>2. proc[x].key # k
    BY <1>4, <2>1 DEF Leading
  <2>3. \A y \in Procs : proc'[y].given # None /\ proc'[y].key = proc[x].key =>
           proc[y].given = proc'[y].given /\ proc[y].key = proc[x].key
    BY <1>6, <2>2
  <2> QED BY <1>1, <2>1, <2>3 DEF Ahead
<1>8. loading' = Nothing /\ \A x \in Keys : entries'[x] # None => entries'[x].tag = x[2]
  BY <1>1 DEF Flights
<1> QED BY <1>6, <1>7, <1>8 DEF Flights

LEMMA ReturnFlights ==
  ASSUME Orderly, Flights, NEW q \in Queries, Return(q)
  PROVE  Flights'
<1>1. /\ proc' = [proc EXCEPT ![q] = Idle] /\ q \in Procs /\ UNCHANGED <<flight, loading>>
      /\ Delete(proc[q].key) \/ UNCHANGED entries
  BY DEF Return, Store, Procs, Rest
<1>2. Shrunk
  BY <1>1, DeleteShrinks DEF Orderly
<1>3. proc'[q] = Idle /\ \A x \in Procs \ {q} : proc'[x] = proc[x]
  BY <1>1 DEF Orderly, Types
<1>4. Fine(q)
  BY <1>3, IdleFacts DEF Fine, Leading
<1> QED BY <1>1, <1>2, <1>3, <1>4, SameFlight

(* A prefetch writes where it found the entry: its tag is the key's group. *)
LEMMA PrefetchFlights ==
  ASSUME Orderly, Flights, NEW k \in Keys, PrefetchHotEntries(k)
  PROVE  Flights'
<1>1. UNCHANGED <<flight, loading, entries>> /\ Cleaner \in Procs
  BY DEF PrefetchHotEntries, Store, Procs, Rest
<1>2. entries[k] # None /\ entries[k].tag = k[2] /\ k = <<k[1], k[2]>>
  BY PrefetchShape DEF Flights, Keys
<1>3. PICK r : /\ proc' = [proc EXCEPT ![Cleaner] = r] /\ r.pc = "flight"
               /\ r.key = k /\ r.to = <<k[1], entries[k].tag>> /\ r.given = None
  BY PrefetchShape
<1>4. proc'[Cleaner] = r /\ \A x \in Procs \ {Cleaner} : proc'[x] = proc[x]
  BY <1>1, <1>3 DEF Orderly, Types
<1>5. Fine(Cleaner)
  BY <1>2, <1>3, <1>4 DEF Fine, Leading
<1> QED BY <1>1, <1>4, <1>5, SameFlight DEF Shrunk

(* What else happens without loads: the cache only shrinks.                *)
LEMMA AdminShrinks ==
  ASSUME NoLoad, Orderly, Flights,
         Admin \/ CleanupExpired \/ (\E m \in 1..now : Pass(m)) \/ UNCHANGED vars
  PROVE  Shrunk /\ UNCHANGED <<flight, loading, proc>>
<1>1. CASE CleanupExpired
  <2>1. UNCHANGED <<flight, loading, proc>>
    BY <1>1 DEF CleanupExpired, Rest
  <2> QED BY <1>1, <2>1, CleanupShape DEF Shrunk
<1>2. ASSUME NEW c \in Caps, ResizeCapacity(c) PROVE Shrunk /\ UNCHANGED <<flight, loading, proc>>
  <2>1. UNCHANGED <<flight, loading, proc>>
    BY <1>2 DEF ResizeCapacity
  <2> QED BY <1>2, <2>1, ResizeShape DEF Shrunk
<1>3. CASE Clear
  BY <1>3 DEF Clear, Rest, Shrunk, Nothing
<1>4. ~LoadCache /\ ~Restart
  BY DEF NoLoad, LoadCache, Restart
<1>5. ~LoadLimit /\ \A k \in Keys : ~LoadRecord(k)
  BY DEF LoadLimit, LoadRecord, Flights, Nothing
<1>6. CASE SaveToFile \/ (\E S \in SUBSET Names : UpdateExcludes(S)) \/ (\E m \in 1..now : Pass(m))
           \/ UNCHANGED vars
  BY <1>6 DEF SaveToFile, UpdateExcludes, Pass, vars, Store, Shrunk
<1> QED BY <1>1, <1>2, <1>3, <1>4, <1>5, <1>6 DEF Admin

LEMMA NextFlights ==
  ASSUME NoLoad
  PROVE  Orderly /\ Flights /\ [Next]_vars => Flights'
<1> SUFFICES ASSUME Orderly, Flights, [Next]_vars PROVE Flights'
  OBVIOUS
<1>1. ASSUME NEW p \in Procs, Step(p) PROVE Flights'
  BY <1>1, GetFlights, BumpFlights, ExpireFlights, DoFlights, ExchangeFlights, PutFlights,
     FinishFlights DEF Step
<1>2. CASE Admin \/ CleanupExpired \/ (\E m \in 1..now : Pass(m)) \/ UNCHANGED vars
  <2>1. Shrunk /\ UNCHANGED <<flight, loading, proc>>
    BY <1>2, AdminShrinks
  <2> QED BY <2>1, SameFlight
<1> QED BY <1>1, <1>2, AskFlights, ReturnFlights, PrefetchFlights DEF Next

LEMMA InitFlights == Init => Flights
<1> SUFFICES ASSUME Init PROVE Flights
  OBVIOUS
<1>1. loading = Nothing /\ \A k \in Keys : entries[k] = None
  BY DEF Init, Nothing
<1>2. \A p \in Procs : proc[p] = Idle
  BY DEF Init
<1>3. \A p \in Procs : Lead(p) /\ Aim(p) /\ Owes(p) /\ Ahead(p)
  BY <1>2, IdleFacts DEF Lead, Aim, Owes, Ahead, Leading
<1> QED BY <1>1, <1>3 DEF Flights

LEMMA AlwaysFlights == ASSUME NoLoad PROVE Spec => []Flights
<1> QED BY InitFlights, NextFlights, AlwaysOrderly, PTL DEF Spec

(* While no file is loaded, an entry is replaced only by an answer that    *)
(* was given later (singleFlightGroup.Do, cache_flight.go): for any number *)
(* of queries, prefetches and refreshes of a key.                          *)
THEOREM NoAnswerIsUndone == ASSUME NoLoad PROVE Spec => OnlyYounger
<1>1. ASSUME Orderly, Flights, [Next]_vars
      PROVE  \A k \in Keys : entries[k] # None /\ entries'[k] # None => entries'[k].born >= entries[k].born
  <2>1. CASE Shrunk
    <3> SUFFICES ASSUME NEW k \in Keys, entries[k] # None, entries'[k] # None
                 PROVE  entries'[k].born >= entries[k].born
      OBVIOUS
    <3>1. entries'[k] = entries[k] /\ entries[k].born \in Nat
      BY <1>1, <2>1, BornFacts DEF Shrunk, Orderly
    <3> QED BY <3>1
  <2>2. ASSUME NEW p \in Procs, PutForGroup(p)
        PROVE  \A k \in Keys : entries[k] # None /\ entries'[k] # None => entries'[k].born >= entries[k].born
    BY <1>1, <2>2, PutFlights
  <2>3. CASE Admin \/ CleanupExpired \/ (\E m \in 1..now : Pass(m)) \/ UNCHANGED vars
    BY <1>1, <2>1, <2>3, AdminShrinks
  <2>4. ASSUME NEW p \in Procs, Step(p), ~PutForGroup(p) PROVE Shrunk
    <3>1. CASE Expire(p)
      <4>1. Delete(proc[p].key) \/ UNCHANGED entries
        BY <3>1 DEF Expire, Store
      <4> QED BY <1>1, <4>1, DeleteShrinks DEF Orderly
    <3>2. CASE UNCHANGED entries
      BY <3>2 DEF Shrunk
    <3> QED BY <2>4, <3>1, <3>2 DEF Step, Get, Bump, Do, Exchange, Finish, Store
  <2>5. ASSUME NEW q \in Queries, Return(q) PROVE Shrunk
    <3>1. Delete(proc[q].key) \/ UNCHANGED entries
      BY <2>5 DEF Return, Store
    <3> QED BY <1>1, <3>1, DeleteShrinks DEF Orderly
  <2>6. CASE \/ \E q \in Queries, n \in Names, g \in Groups : Ask(q, n, g)
             \/ \E k \in Keys : PrefetchHotEntries(k)
    BY <2>1, <2>6 DEF Ask, PrefetchHotEntries, Store, Shrunk
  <2> QED BY <1>1, <2>1, <2>2, <2>3, <2>4, <2>5, <2>6 DEF Next
<1> QED BY <1>1, AlwaysOrderly, AlwaysFlights, PTL DEF Spec, OnlyYounger

(* A query that led or shared a flight is not answered with anything older *)
(* than what the flight has put into the cache, whatever was evicted,      *)
(* removed or cleared between its end and the second lookup                *)
(* (cache_middleware.go).                                                  *)
THEOREM FlightAnswersAreNotOlder == ASSUME NoLoad PROVE Spec => []SharedNotOlder
<1>1. Flights => SharedNotOlder
  BY DEF Flights, Owes, SharedNotOlder, Procs
<1> QED BY <1>1, AlwaysFlights, PTL

-----------------------------------------------------------------------------
(* Groups with upstreams of their own: no fallback to the default group's, *)
(* no refresh through it.                                                  *)
OwnUpstreams == NoLoad /\ ~Optimistic /\ "group" \notin Faults

GroupRec(r) ==
  r.pc # "idle" =>
    /\ r.via = r.key[2]
    /\ r.val # None => r.val.from = r.key[2]
    /\ r.cand # None => r.cand.from = r.key[2]
Grouped ==
  /\ \A k \in Keys : entries[k] # None => entries[k].from = k[2]
  /\ \A p \in Procs : GroupRec(proc[p])

LEMMA GroupStep ==
  ASSUME Grouped, Shrunk, \A x \in Procs : proc'[x] = proc[x] \/ GroupRec(proc'[x])
  PROVE  Grouped'
<1>1. \A x \in Procs : GroupRec(proc'[x])
  BY DEF Grouped
<1>2. \A x \in Procs : GroupRec(proc[x])'
  BY <1>1 DEF GroupRec
<1>3. \A k \in Keys : entries'[k] # None => entries'[k].from = k[2]
  BY DEF Grouped, Shrunk
<1> QED BY <1>2, <1>3 DEF Grouped

LEMMA SettleGroup == ASSUME NEW r \in ProcRec, GroupRec(r), r.pc # "idle" PROVE GroupRec(Settle(r))
<1>1. /\ Settle(r).key = r.key /\ Settle(r).via = r.via /\ Settle(r).cand = r.cand
      /\ Settle(r).val = IF r.val = None THEN r.cand ELSE r.val
  BY SettleFacts
<1> QED BY <1>1 DEF GroupRec

LEMMA StepGrouped ==
  ASSUME OwnUpstreams, Orderly, Flights, Grouped, NEW p \in Procs, Step(p)
  PROVE  Grouped'
<1>1. proc \in [Procs -> ProcRec] /\ proc[p] \in ProcRec /\ GroupRec(proc[p])
  BY DEF Orderly, Types, Grouped
<1>2. CASE Get(p)
  <2>1. UNCHANGED entries /\ proc[p].pc = "get"
    BY <1>2 DEF Get, Store
  <2>2. PICK r : GetTo(proc[p], entries[proc[p].key], r) /\ proc' = [proc EXCEPT ![p] = r]
    BY <1>2, GetShape DEF OwnUpstreams
  <2>3. proc'[p] = r /\ \A x \in Procs \ {p} : proc'[x] = proc[x]
    BY <1>1, <2>2
  <2>4. proc[p].key \in Keys
    BY <2>1 DEF Orderly, Working
  <2>5. entries[proc[p].key] # None => entries[proc[p].key].from = proc[p].key[2]
    BY <2>4 DEF Grouped
  <2>6. GroupRec(r)
    <3>1. CASE r = Settle(proc[p])
      BY <1>1, <2>1, <3>1, SettleGroup
    <3>2. CASE r # Settle(proc[p])
      BY <1>1, <2>1, <2>2, <2>5, <3>2 DEF GetTo, GroupRec
    <3> QED BY <3>1, <3>2
  <2> QED BY <2>1, <2>3, <2>6, GroupStep DEF Shrunk
<1>3. CASE Bump(p)
  <2>1. UNCHANGED entries /\ proc[p].pc = "bump" /\ proc' = [proc EXCEPT ![p].pc = "done"]
    BY <1>3 DEF Bump
  <2>2. PICK r : PcTo(p, "done", r)
    BY <2>1, PcShape DEF Orderly, PCs
  <2>3. proc'[p] = r /\ \A x \in Procs \ {p} : proc'[x] = proc[x]
    BY <1>1, <2>2 DEF PcTo
  <2>4. GroupRec(r)
    BY <1>1, <2>1, <2>2 DEF PcTo, GroupRec
  <2> QED BY <2>1, <2>3, <2>4, GroupStep DEF Shrunk
<1>4. CASE Expire(p)
  <2>1. /\ proc[p].pc = "expire" /\ proc' = [proc EXCEPT ![p] = AfterMiss(proc[p])]
        /\ Delete(proc[p].key) \/ UNCHANGED entries
    BY <1>4 DEF Expire, Store
  <2>2. Shrunk
    BY <2>1, DeleteShrinks DEF Orderly
  <2>3. PICK m : m = AfterMiss(proc[p])
    OBVIOUS
  <2>4. proc'[p] = m /\ \A x \in Procs \ {p} : proc'[x] = proc[x]
    BY <1>1, <2>1, <2>3
  <2>5. GroupRec(m)
    <3>1. CASE proc[p].shared
      <4>1. m = Settle(proc[p])
        BY <1>1, <2>3, <3>1, AfterMissFacts
      <4> QED BY <1>1, <2>1, <4>1, SettleGroup
    <3>2. CASE ~proc[p].shared
      <4>1. m.key = proc[p].key /\ m.via = proc[p].via /\ m.val = proc[p].val /\ m.cand = proc[p].cand
        BY <1>1, <2>3, <3>2, AfterMissFacts
      <4> QED BY <1>1, <2>1, <4>1 DEF GroupRec
    <3> QED BY <3>1, <3>2
  <2> QED BY <2>2, <2>4, <2>5, GroupStep
<1>5. CASE Do(p)
  <2>1. /\ proc[p].pc = "flight" /\ UNCHANGED entries
        /\ \E z \in {"fetch", "wait"} : proc' = [proc EXCEPT ![p].pc = z]
    BY <1>5 DEF Do, Store
  <2>2. PICK z \in {"fetch", "wait"} : \E r : PcTo(p, z, r)
    BY <2>1, PcShape DEF Orderly, PCs
  <2>3. PICK r : PcTo(p, z, r)
    BY <2>2
  <2>4. proc'[p] = r /\ \A x \in Procs \ {p} : proc'[x] = proc[x]
    BY <1>1, <2>3 DEF PcTo
  <2>5. GroupRec(r)
    BY <1>1, <2>1, <2>3 DEF PcTo, GroupRec
  <2> QED BY <2>1, <2>4, <2>5, GroupStep DEF Shrunk
<1>6. CASE Exchange(p)
  <2>1. UNCHANGED entries /\ proc[p].pc # "idle"
    BY <1>6 DEF Exchange, Store
  <2>2. PICK r : ExchangeTo(p, proc[p], r)
    BY <1>6, ExchangeShape
  <2>3. proc'[p] = r /\ \A x \in Procs \ {p} : proc'[x] = proc[x]
    BY <1>1, <2>2 DEF ExchangeTo
  <2>4. GroupRec(r)
    BY <1>1, <2>1, <2>2 DEF ExchangeTo, GroupRec, OwnUpstreams
  <2> QED BY <2>1, <2>3, <2>4, GroupStep DEF Shrunk
<1>7. CASE PutForGroup(p)
  <2>1. proc[p].pc = "put"
    BY <1>7 DEF PutForGroup
  <2>2. PICK e, r : PutTo(p, e, r)
    BY <1>7, PutShape
  <2>3. proc'[p] = r /\ \A x \in Procs \ {p} : proc'[x] = proc[x]
    BY <1>1, <2>2 DEF PutTo
  <2>4. proc[p].to = proc[p].key /\ proc[p].val # None
    BY <2>1, NoneFacts DEF Flights, Aim, Orderly, Working, Types
  <2>5. GroupRec(r) /\ e.from = proc[p].key[2]
    BY <1>1, <2>1, <2>2, <2>4 DEF PutTo, GroupRec
  <2>6. \A k \in Keys : entries'[k] # None => entries'[k].from = k[2]
    BY <2>2, <2>4, <2>5 DEF PutTo, Grouped
  <2>7. \A x \in Procs : GroupRec(proc[x])'
    BY <2>3, <2>5 DEF Grouped, GroupRec
  <2> QED BY <2>6, <2>7 DEF Grouped
<1>8. CASE Finish(p)
  <2>1. UNCHANGED entries /\ proc[p].pc = "finish"
    BY <1>8 DEF Finish, Store
  <2>2. \A x \in Procs : FinishTo(p, x, proc'[x])
    BY <1>8, FinishShape DEF Orderly
  <2>3. GroupRec(Settle(proc[p])) /\ GroupRec(Idle)
    BY <1>1, <2>1, SettleGroup, IdleFacts DEF GroupRec
  <2>4. ASSUME NEW x \in Procs PROVE proc'[x] = proc[x] \/ GroupRec(proc'[x])
    <3>1. GroupRec(proc[x]) /\ FinishTo(p, x, proc'[x])
      BY <2>2 DEF Grouped
    <3>2. CASE /\ Waits(x, proc[p].key) /\ proc'[x].key = proc[x].key /\ proc'[x].via = proc[x].via
               /\ proc'[x].val = proc[p].val /\ proc'[x].cand = proc[x].cand
      BY <1>1, <2>1, <3>1, <3>2 DEF Waits, GroupRec
    <3> QED BY <2>3, <3>1, <3>2 DEF FinishTo
  <2> QED BY <2>1, <2>4, GroupStep DEF Shrunk
<1> QED BY <1>2, <1>3, <1>4, <1>5, <1>6, <1>7, <1>8 DEF Step

LEMMA NextGrouped ==
  ASSUME OwnUpstreams
  PROVE  Orderly /\ Flights /\ Grouped /\ [Next]_vars => Grouped'
<1> SUFFICES ASSUME Orderly, Flights, Grouped, [Next]_vars PROVE Grouped'
  OBVIOUS
<1>1. ASSUME NEW q \in Queries, NEW n \in Names, NEW g \in Groups, Ask(q, n, g) PROVE Grouped'
  <2> DEFINE k == <<n, g>>
             z == IF n \in excluded THEN "bypass" ELSE "get"
  <2>1. proc' = [proc EXCEPT ![q] = Goroutine(z, k, k, g)] /\ UNCHANGED entries
    BY <1>1 DEF Ask, CacheKeyForGroup, Store
  <2>2. q \in Procs /\ k \in Keys /\ z \in PCs /\ k[2] = g
    BY DEF Procs, Keys, PCs
  <2> HIDE DEF k, z
  <2>3. PICK r : r = Goroutine(z, k, k, g)
    OBVIOUS
  <2>4. r.key = k /\ r.via = g /\ r.val = None /\ r.cand = None
    BY <2>2, <2>3, GoroutineFacts
  <2>5. proc'[q] = r /\ \A x \in Procs \ {q} : proc'[x] = proc[x]
    BY <2>1, <2>2, <2>3 DEF Orderly, Types
  <2>6. GroupRec(r)
    BY <2>2, <2>4 DEF GroupRec
  <2> QED BY <2>1, <2>5, <2>6, GroupStep DEF Shrunk
<1>2. ASSUME NEW q \in Queries, Return(q) PROVE Grouped'
  <2>1. proc' = [proc EXCEPT ![q] = Idle] /\ q \in Procs /\ (Delete(proc[q].key) \/ UNCHANGED entries)
    BY <1>2 DEF Return, Store, Procs
  <2>2. Shrunk
    BY <2>1, DeleteShrinks DEF Orderly
  <2>3. proc'[q] = Idle /\ \A x \in Procs \ {q} : proc'[x] = proc[x]
    BY <2>1 DEF Orderly, Types
  <2>4. GroupRec(Idle)
    BY IdleFacts DEF GroupRec
  <2> QED BY <2>2, <2>3, <2>4, GroupStep
<1>3. ASSUME NEW k \in Keys, PrefetchHotEntries(k) PROVE Grouped'
  <2>1. UNCHANGED entries /\ Cleaner \in Procs
    BY <1>3 DEF PrefetchHotEntries, Store, Procs
  <2>2. entries[k] # None /\ entries[k].tag = k[2]
    BY <1>3, PrefetchShape DEF Flights
  <2>3. PICK r : /\ proc' = [proc EXCEPT ![Cleaner] = r] /\ r.key = k /\ r.via = entries[k].tag
                 /\ r.val = None /\ r.cand = None
    BY <1>3, PrefetchShape
  <2>4. proc'[Cleaner] = r /\ \A x \in Procs \ {Cleaner} : proc'[x] = proc[x]
    BY <2>1, <2>3 DEF Orderly, Types
  <2>5. GroupRec(r)
    BY <2>2, <2>3 DEF GroupRec
  <2> QED BY <2>1, <2>4, <2>5, GroupStep DEF Shrunk
<1>4. CASE Admin \/ CleanupExpired \/ (\E m \in 1..now : Pass(m)) \/ UNCHANGED vars
  <2>1. Shrunk /\ proc' = proc
    BY <1>4, AdminShrinks DEF OwnUpstreams
  <2> QED BY <2>1, GroupStep
<1> QED BY <1>1, <1>2, <1>3, <1>4, StepGrouped DEF Next

(* No client gets, and no flight leaves behind, an answer of another       *)
(* group's upstream, while groups use upstreams of their own and nothing   *)
(* is loaded from the file, which keeps no group (cacheKeyForGroup,        *)
(* PutForGroup and prefetchHotEntries).                                    *)
THEOREM GroupsAreApart == ASSUME OwnUpstreams PROVE Spec => []GroupsStayApart
<1>1. NoLoad
  BY DEF OwnUpstreams
<1>2. Init => Grouped
  BY IdleFacts DEF Init, Grouped, GroupRec, Nothing
<1>3. Orderly /\ Flights /\ Grouped => GroupsStayApart
  BY DEF Orderly, Flights, Aim, Grouped, GroupRec, GroupsStayApart, OwnGroup, FlightSameGroup, Procs
<1> QED BY <1>1, <1>2, <1>3, NextGrouped, AlwaysOrderly, AlwaysFlights, PTL DEF Spec
=============================================================================
