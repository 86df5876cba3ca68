-------------------------- MODULE DnsPipelineProofs --------------------------
(***************************************************************************)
(* What the middleware chain keeps for any clients, groups, names, kinds   *)
(* of names, configurations and cache contents, and any number of queries  *)
(* and changes: refused clients stay refused, private addresses and        *)
(* blocked names do not come through, and names that must stay on this     *)
(* machine are not sent.                                                   *)
(***************************************************************************)
EXTENDS DnsPipeline, TLAPS

-----------------------------------------------------------------------------
(* The wrappers, by their place in the chain; some are passed only with    *)
(* their feature on.                                                       *)
Wrappers == {"metrics", "ede", "ech", "ipv6", "rebind", "filterResponse", "dns64", "cache", "bogus"}
Always   == {"metrics", "ede", "ech", "rebind", "filterResponse", "bogus"}
Depth(m) ==
  CASE m = "metrics" -> 1 [] m = "ede" -> 2 [] m = "ech" -> 3 [] m = "ipv6" -> 13 [] m = "rebind" -> 19
    [] m = "filterResponse" -> 20 [] m = "dns64" -> 21 [] m = "cache" -> 23 [] OTHER -> 24

OnStack(s) == {s[i] : i \in DOMAIN s}
Nested(s)  == s \in Seq(Wrappers) /\ \A i, j \in 1 .. Len(s) : i < j => Depth(s[i]) < Depth(s[j])

(* The query x has gone past place i of the chain and is not back yet.     *)
Beyond(x, i) ==
  \/ x.dir \in {"down", "wait"} /\ x.at > i
  \/ \E m \in OnStack(x.stack) : Depth(m) > i

Stacked(x) ==
  /\ Nested(x.stack)
  /\ x.dir \in {"down", "wait"} => x.at \in 1 .. 26 /\ \A m \in OnStack(x.stack) : Depth(m) < x.at
  /\ x.dir = "wait" => x.at = 23
  /\ \A m \in Always : Beyond(x, Depth(m)) => m \in OnStack(x.stack)

(* What is known of a query once place i has let it pass.                  *)
Special == {"localhost", "special", "resolverArpa"}
Filtered(x) == sameGroup /\ "filter" \in steady /\ groupOf[x.client] \in FilteredGroups
Cleared(x, i) ==
  /\ i = 5 => x.client \notin Denied
  /\ i = 8 => NameIs[x.name] \cap Special = {}
  /\ i = 13 /\ "ipv6" \in steady => x.type # "AAAA"
  /\ i = 14 /\ "ptr" \in steady /\ x.type = "PTR" => "privateReverse" \notin NameIs[x.name]
  /\ i = 15 /\ "unqualified" \in steady => "singleLabel" \notin NameIs[x.name]
  /\ i = 16 /\ "any" \in steady => x.type # "ANY"
  /\ i = 17 /\ Filtered(x) => "blocked" \notin NameIs[x.name]
  /\ i = 22 /\ "ecs" \in steady => x.ecs # "client"
Screened(x) == \A i \in 1 .. 26 : Beyond(x, i) => Cleared(x, i)

(* A query that has been asked.                                            *)
Asked(x) == x.dir # "idle" => /\ x.client \in Clients /\ x.who = x.client
                              /\ \E y \in Questions : x.name = y[1] /\ x.type = y[2]

(* Answers, and what is known of one on its way up.                        *)
Good(a) == a \in Answers /\ (a.rcode # "NOERROR" => a.has = {})
Flagged(x) == "filter_blocked" \in x.attrs

Private(x) == "rebind" \in steady /\ x.resp.from = "upstream" /\ "rebindAllowed" \notin NameIs[x.name]
Local(x)   == x.source \in {"hosts", "rewrite", "sudn", "sudn_ddr", "locally_served_zone"}
Explained(x) == x.edns /\ "ede" \in steady

Replied(x) ==
  /\ Good(x.resp) /\ (x.err => x.resp.rcode = "SERVFAIL")
  /\ Flagged(x) => /\ x.resp.from \in {"block", "clean"} /\ "badalias" \notin x.resp.has
                   /\ x.resp.rcode # "SERVFAIL"
  /\ Flagged(x) /\ Beyond(x, 20) => x.resp.rcode = "NXDOMAIN"
  /\ "rebind" \notin OnStack(x.stack) /\ Private(x) => ~FindBlockedIP(x.resp.has)
  /\ "filterResponse" \notin OnStack(x.stack) /\ Filtered(x) /\ "filterResponse" \in steady /\ ~Local(x)
       => "badalias" \notin x.resp.has
  /\ "ede" \notin OnStack(x.stack) /\ Explained(x)
       => (Flagged(x) <=> x.resp.ede \in {"Prohibited", "Blocked"})
  /\ x.who \in Denied => x.resp.rcode = "REFUSED"
  /\ Filtered(x) /\ "blocked" \in NameIs[x.name] => x.resp.from # "upstream"

Sendable(x) ==
  /\ x.who \in Denied => x.sent = {}
  /\ \A m \in x.sent :
       /\ NameIs[m.name] \cap Special = {}
       /\ "unqualified" \in steady => "singleLabel" \notin NameIs[m.name]
       /\ "ptr" \in steady /\ m.type = "PTR" => "privateReverse" \notin NameIs[m.name]
       /\ "any" \in steady => m.type # "ANY"
       /\ "ipv6" \in steady => m.type # "AAAA"
       /\ "ecs" \in steady => m.ecs # "client"

Told(x) == x.dir = "done" => x.stack = <<>> /\ (x.status = "blocked" <=> Flagged(x) /\ ~x.err)

Flags    == {"filter_blocked", "access_blocked", "ratelimit_blocked", "unqualified_blocked", "any_blocked",
             "bogus_nxdomain", "response_filtered", "rebinding_blocked", "safebrowsing_failed"}
Sources  == {"none", "ddr", "sudn", "sudn_ddr", "zone", "hosts", "rewrite", "safesearch", "block_ipv6",
             "client_resolver_ptr", "locally_served_zone", "dnsrewrite", "safebrowsing"}
Hits     == {"none", "fresh", "stale", "stale_fallback", "zone", "zone_nodata", "hosts", "hosts_nodata",
             "rewrite", "rewrite_rcode", "rewrite_nodata", "safesearch", "dnsrewrite", "safebrowsing"}
Statuses == {"none", "error", "blocked", "stale", "cached", "allowed"}

Query == [client : Clients \cup {Default}, who : Clients \cup {Default}, name : Names \cup {"none"},
          type : Types \cup {"none"}, edns : BOOLEAN, ecs : {"none", "client", "custom"}, group : Groups,
          at : Nat, stack : Seq(Wrappers), dir : {"idle", "down", "wait", "up", "done"},
          resp : Answers \cup {NoAnswer}, err : BOOLEAN, ctxErr : BOOLEAN, attrs : SUBSET Flags,
          source : Sources, hit : Hits, stale : Answers \cup {NoAnswer},
          sent : SUBSET [name : Names, type : Types, ecs : {"none", "client", "custom"}], status : Statuses]

Held(x) ==
  /\ x \in Query /\ Stacked(x) /\ Screened(x) /\ Asked(x) /\ Sendable(x) /\ Told(x)
  /\ x.attrs \cap {"access_blocked", "ratelimit_blocked", "rebinding_blocked"} # {} => Flagged(x)
  /\ x.stale # NoAnswer => Good(x.stale)
  /\ x.dir \in {"idle", "down", "wait"} => ~Flagged(x) /\ ~x.err
  /\ x.dir \in {"up", "done"} => Replied(x)

(* The configuration, the cache and the refresh.                           *)
Entry == [answer : Answers, fresh : BOOLEAN]
Stored(c) == DOMAIN c \subseteq Keys /\ \A k \in DOMAIN c : c[k] \in Entry /\ Good(c[k].answer)
Around ==
  /\ on \subseteq Features /\ steady \subseteq on /\ sameGroup \in BOOLEAN
  /\ groupOf \in [Clients -> Groups] /\ Stored(cache)
  /\ refresh = NoRefresh \/ refresh.key \in Keys

Inv == Around /\ Held(q)

-----------------------------------------------------------------------------
(* The stack.                                                              *)
LEMMA DepthFacts == \A m \in Wrappers : Depth(m) \in {1, 2, 3, 13, 19, 20, 21, 23, 24}
BY DEF Wrappers, Depth

LEMMA DepthValues ==
  /\ Depth("metrics") = 1 /\ Depth("ede") = 2 /\ Depth("ech") = 3 /\ Depth("ipv6") = 13
  /\ Depth("rebind") = 19 /\ Depth("filterResponse") = 20 /\ Depth("dns64") = 21
  /\ Depth("cache") = 23 /\ Depth("bogus") = 24
BY DEF Depth

LEMMA PushFacts ==
  ASSUME NEW s, Nested(s), NEW m \in Wrappers, \A x \in OnStack(s) : Depth(x) < Depth(m)
  PROVE  /\ Append(s, m) \in Seq(Wrappers) /\ Nested(Append(s, m))
         /\ OnStack(Append(s, m)) = OnStack(s) \cup {m}
<1> DEFINE t == Append(s, m)
<1>1. s \in Seq(Wrappers) /\ Len(s) \in Nat /\ DOMAIN s = 1 .. Len(s)
  BY DEF Nested
<1>2. t \in Seq(Wrappers) /\ Len(t) = Len(s) + 1 /\ DOMAIN t = 1 .. Len(s) + 1
      /\ t[Len(s) + 1] = m /\ \A i \in 1 .. Len(s) : t[i] = s[i]
  BY <1>1
<1> HIDE DEF t
<1>3. \A i \in 1 .. Len(s) : s[i] \in OnStack(s)
  BY <1>1 DEF OnStack
<1>4. ASSUME NEW i \in 1 .. Len(t), NEW j \in 1 .. Len(t), i < j
      PROVE  Depth(t[i]) < Depth(t[j])
  <2>1. i \in 1 .. Len(s) /\ t[i] = s[i]
    BY <1>1, <1>2, <1>4
  <2>2. CASE j = Len(s) + 1
    BY <1>2, <1>3, <2>1, <2>2
  <2>3. CASE j # Len(s) + 1
    <3>1. j \in 1 .. Len(s) /\ t[j] = s[j]
      BY <1>1, <1>2, <2>3
    <3> QED BY <1>4, <2>1, <3>1 DEF Nested
  <2> QED BY <2>2, <2>3
<1>5. Nested(t)
  BY <1>2, <1>4 DEF Nested
<1>6. OnStack(t) = OnStack(s) \cup {m}
  <2>1. OnStack(t) = {t[i] : i \in 1 .. Len(s) + 1} /\ OnStack(s) = {s[i] : i \in 1 .. Len(s)}
    BY <1>1, <1>2 DEF OnStack
  <2>2. \A i \in 1 .. Len(s) + 1 : i = Len(s) + 1 \/ i \in 1 .. Len(s)
    BY <1>1
  <2>3. \A i \in 1 .. Len(s) : i \in 1 .. Len(s) + 1
    BY <1>1
  <2>4. Len(s) + 1 \in 1 .. Len(s) + 1
    BY <1>1
  <2> QED BY <1>2, <2>1, <2>2, <2>3, <2>4
<1> QED BY <1>2, <1>5, <1>6 DEF t

LEMMA PopFacts ==
  ASSUME NEW s, Nested(s), s # <<>>
  PROVE  /\ Front(s) \in Seq(Wrappers) /\ Nested(Front(s)) /\ Last(s) \in OnStack(s) /\ Last(s) \in Wrappers
         /\ OnStack(Front(s)) = OnStack(s) \ {Last(s)}
         /\ \A x \in OnStack(Front(s)) : x \in OnStack(s) /\ Depth(x) < Depth(Last(s))
<1> DEFINE t == SubSeq(s, 1, Len(s) - 1)
<1>1. s \in Seq(Wrappers) /\ Len(s) \in Nat /\ Len(s) > 0 /\ DOMAIN s = 1 .. Len(s)
  BY DEF Nested
<1>2. t \in Seq(Wrappers) /\ Len(t) = Len(s) - 1 /\ DOMAIN t = 1 .. Len(s) - 1
      /\ \A i \in 1 .. Len(s) - 1 : t[i] = s[i]
  BY <1>1
<1>3. Front(s) = t /\ Last(s) = s[Len(s)]
  BY DEF Front, Last
<1> HIDE DEF t
<1>4. \A i \in 1 .. Len(s) - 1 : i \in 1 .. Len(s) /\ i < Len(s)
  BY <1>1
<1>5. Len(s) \in 1 .. Len(s)
  BY <1>1
<1>6. \A i \in 1 .. Len(s) - 1 : t[i] \in OnStack(s) /\ Depth(t[i]) < Depth(Last(s))
  BY <1>1, <1>2, <1>3, <1>4, <1>5 DEF OnStack, Nested
<1>7. OnStack(t) = {t[i] : i \in 1 .. Len(s) - 1}
  BY <1>2 DEF OnStack
<1>8. Last(s) \in OnStack(s) /\ Last(s) \in Wrappers
  BY <1>1, <1>3, <1>5 DEF OnStack
<1>9. \A x \in OnStack(t) : x \in OnStack(s) /\ Depth(x) < Depth(Last(s))
  BY <1>6, <1>7
<1>10. Depth(Last(s)) \in Nat
  BY <1>8, DepthFacts
<1>11. OnStack(t) = OnStack(s) \ {Last(s)}
  <2>1. \A x \in OnStack(t) : x # Last(s)
    BY <1>9, <1>10
  <2>2. ASSUME NEW x \in OnStack(s), x # Last(s) PROVE x \in OnStack(t)
    <3>1. PICK i \in 1 .. Len(s) : x = s[i]
      BY <1>1, <2>2 DEF OnStack
    <3>2. i \in 1 .. Len(s) - 1
      BY <1>1, <1>3, <2>2, <3>1
    <3> QED BY <1>2, <1>7, <3>1, <3>2
  <2> QED BY <1>9, <2>1, <2>2
<1>12. Nested(t)
  BY <1>2, <1>4 DEF Nested
<1> QED BY <1>2, <1>3, <1>8, <1>9, <1>11, <1>12

(* The places of the chain.                                                *)
LEMMA ChainFacts ==
  /\ Chain[1] = "metrics" /\ Chain[2] = "ede" /\ Chain[3] = "ech" /\ Chain[4] = "client" /\ Chain[5] = "access"
  /\ Chain[6] = "ratelimit" /\ Chain[7] = "ddr" /\ Chain[8] = "sudn" /\ Chain[9] = "zone" /\ Chain[10] = "hosts"
  /\ Chain[11] = "rewrite" /\ Chain[12] = "safesearch" /\ Chain[13] = "ipv6" /\ Chain[14] = "privatePTR"
  /\ Chain[15] = "unqualified" /\ Chain[16] = "any" /\ Chain[17] = "filter" /\ Chain[18] = "safebrowsing"
  /\ Chain[19] = "rebind" /\ Chain[20] = "filterResponse" /\ Chain[21] = "dns64" /\ Chain[22] = "ecs"
  /\ Chain[23] = "cache" /\ Chain[24] = "bogus" /\ Chain[25] = "route" /\ Chain[26] = "forward"
BY DEF Chain

Places == {1, 2, 3, 4, 5, 6, 7, 8, 9, 10, 11, 12, 13, 14, 15, 16, 17, 18, 19, 20, 21, 22, 23, 24, 25, 26}
LEMMA PlacesAre == Places = 1 .. 26
BY DEF Places

LEMMA DownAt ==
  ASSUME NEW m, Down(m), q.at \in 1 .. 26
  PROVE  /\ q.dir = "down" /\ Chain[q.at] = m
         /\ m = "metrics" => q.at = 1
         /\ m = "ede" => q.at = 2
         /\ m = "ech" => q.at = 3
         /\ m = "client" => q.at = 4
         /\ m = "access" => q.at = 5
         /\ m = "ratelimit" => q.at = 6
         /\ m = "ddr" => q.at = 7
         /\ m = "sudn" => q.at = 8
         /\ m = "zone" => q.at = 9
         /\ m = "hosts" => q.at = 10
         /\ m = "rewrite" => q.at = 11
         /\ m = "safesearch" => q.at = 12
         /\ m = "ipv6" => q.at = 13
         /\ m = "privatePTR" => q.at = 14
         /\ m = "unqualified" => q.at = 15
         /\ m = "any" => q.at = 16
         /\ m = "filter" => q.at = 17
         /\ m = "safebrowsing" => q.at = 18
         /\ m = "rebind" => q.at = 19
         /\ m = "filterResponse" => q.at = 20
         /\ m = "dns64" => q.at = 21
         /\ m = "ecs" => q.at = 22
         /\ m = "cache" => q.at = 23
         /\ m = "bogus" => q.at = 24
         /\ m = "route" => q.at = 25
         /\ m = "forward" => q.at = 26
BY PlacesAre, ChainFacts DEF Places, Down

-----------------------------------------------------------------------------
(* What is known of a query stays known while features are switched and    *)
(* groups change: the histories only lose what they promise.               *)
Weaker == steady' \subseteq steady /\ (sameGroup' => sameGroup /\ groupOf' = groupOf)

LEMMA FilteredWeaker ==
  ASSUME NEW x, Weaker, sameGroup' /\ "filter" \in steady' /\ groupOf'[x.client] \in FilteredGroups
  PROVE  Filtered(x)
BY DEF Weaker, Filtered

LEMMA HeldWeaker ==
  ASSUME Held(q'), Weaker
  PROVE  Held(q)'
<1>1. Stacked(q)' /\ Asked(q)' /\ Told(q)' /\ (q \in Query)'
  BY DEF Held, Stacked, Nested, OnStack, Asked, Told, Flagged, Beyond
<1>2. Screened(q)'
  <2> SUFFICES ASSUME NEW i \in 1 .. 26, Beyond(q', i) PROVE Cleared(q, i)'
    BY DEF Screened, Beyond
  <2>1. Cleared(q', i)
    BY DEF Held, Screened
  <2>2. (Filtered(q))' => Filtered(q')
    BY FilteredWeaker DEF Filtered
  <2> QED BY <2>1, <2>2 DEF Cleared, Weaker
<1>3. Sendable(q)'
  BY DEF Held, Sendable, Weaker
<1>4. /\ (q'.attrs \cap {"access_blocked", "ratelimit_blocked", "rebinding_blocked"} # {} => Flagged(q'))
      /\ (q'.stale # NoAnswer => Good(q'.stale))
      /\ (q'.dir \in {"idle", "down", "wait"} => ~Flagged(q') /\ ~q'.err)
  BY DEF Held
<1>5. q'.dir \in {"up", "done"} => Replied(q)'
  <2> SUFFICES ASSUME q'.dir \in {"up", "done"} PROVE Replied(q)'
    OBVIOUS
  <2>1. Replied(q')
    BY DEF Held
  <2>2. (Filtered(q))' => Filtered(q')
    BY FilteredWeaker DEF Filtered
  <2>3. (Private(q))' => Private(q')
    BY DEF Private, Weaker
  <2>4. (Explained(q))' => Explained(q')
    BY DEF Explained, Weaker
  <2>5. "filterResponse" \in steady' => "filterResponse" \in steady
    BY DEF Weaker
  <2>6. Beyond(q, 20)' <=> Beyond(q', 20)
    BY DEF Beyond
  <2>7. Flagged(q)' <=> Flagged(q')
    BY DEF Flagged
  <2>8. Local(q)' <=> Local(q')
    BY DEF Local
  <2> QED BY <2>1, <2>2, <2>3, <2>4, <2>5, <2>6, <2>7, <2>8 DEF Replied, Good, FindBlockedIP
<1> QED BY <1>1, <1>2, <1>3, <1>4, <1>5 DEF Held, Flagged, Good

LEMMA OthersInv ==
  ASSUME Inv, Others, Held(q')
  PROVE  Inv'
<1>1. Around'
  BY DEF Inv, Others, Around, Stored, Good
<1>2. Held(q)'
  BY HeldWeaker DEF Others, Weaker
<1> QED BY <1>1, <1>2 DEF Inv

-----------------------------------------------------------------------------
(* The way down.                                                           *)
Kin(x, y) == /\ y.who = x.who /\ y.client = x.client /\ y.name = x.name /\ y.type = x.type
             /\ y.edns = x.edns

(* The query with what a middleware wrote into it before it called next(). *)
Onward(r) ==
  /\ r \in Query /\ Kin(q, r) /\ r.at = q.at /\ r.dir = "down" /\ r.stack = q.stack /\ Sendable(r)
  /\ r.err = q.err /\ r.attrs \subseteq q.attrs \cup {"safebrowsing_failed"}
  /\ r.stale # NoAnswer => Good(r.stale)
  /\ r.ecs = q.ecs \/ q.at = 22

LEMMA OnwardSelf ==
  ASSUME Held(q), q.dir = "down"
  PROVE  Onward(q)
BY DEF Held, Onward, Kin

(* Everything but the place, the direction and the stack.                  *)
Alike(x, y) ==
  /\ Kin(x, y) /\ y.ecs = x.ecs /\ y.group = x.group /\ y.resp = x.resp /\ y.err = x.err
  /\ y.ctxErr = x.ctxErr /\ y.attrs = x.attrs /\ y.source = x.source /\ y.hit = x.hit
  /\ y.stale = x.stale /\ y.sent = x.sent /\ y.status = x.status

LEMMA PassFields ==
  ASSUME NEW r \in Query, Pass(r)
  PROVE  q' \in Query /\ Alike(r, q') /\ q'.at = r.at + 1 /\ q'.dir = r.dir /\ q'.stack = r.stack
BY DEF Pass, Query, Alike, Kin

LEMMA WrapFields ==
  ASSUME NEW r \in Query, Wrap(r), Append(r.stack, Chain[r.at]) \in Seq(Wrappers)
  PROVE  /\ q' \in Query /\ Alike(r, q') /\ q'.at = r.at + 1 /\ q'.dir = r.dir
         /\ q'.stack = Append(r.stack, Chain[r.at])
<1>1. q' = [r EXCEPT !.at = r.at + 1, !.stack = Append(r.stack, Chain[r.at])]
  BY DEF Wrap
<1>2. PICK t \in Seq(Wrappers) : t = Append(r.stack, Chain[r.at])
  OBVIOUS
<1>3. PICK n \in Nat : n = r.at + 1
  BY DEF Query
<1>4. q' = [r EXCEPT !.at = n, !.stack = t]
  BY <1>1, <1>2, <1>3
<1>5. q' \in Query
  BY <1>4 DEF Query
<1>6. q'.at = n /\ q'.dir = r.dir /\ q'.stack = t
  BY <1>4 DEF Query
<1>7. Alike(r, q')
  BY <1>4 DEF Query, Alike, Kin
<1> QED BY <1>2, <1>3, <1>5, <1>6, <1>7

LEMMA TurnFields ==
  ASSUME NEW r \in Query, TurnRound(r)
  PROVE  q' \in Query /\ Alike(r, q') /\ q'.dir = "up" /\ q'.stack = r.stack
BY DEF TurnRound, Query, Alike, Kin

LEMMA ClimbFields ==
  ASSUME NEW r \in Query, Climb(r), Front(r.stack) \in Seq(Wrappers)
  PROVE  q' \in Query /\ Alike(r, q') /\ q'.dir = r.dir /\ q'.stack = Front(r.stack)
<1>1. PICK t \in Seq(Wrappers) : t = Front(r.stack)
  OBVIOUS
<1>2. q' = [r EXCEPT !.stack = t]
  BY <1>1 DEF Climb
<1> QED BY <1>1, <1>2 DEF Query, Alike, Kin

(* A query that has come one place further.                                *)
LEMMA DownHeld ==
  ASSUME Held(q), q.dir = "down", NEW r, Onward(r), q' \in Query, Alike(r, q'), q'.at = q.at + 1,
         q'.dir = "down", q.at < 26, Cleared(r, q.at), Stacked(q'),
         \A i \in 1 .. 26 : Beyond(q', i) => Beyond(q, i) \/ i = q.at
  PROVE  Held(q')
<1>1. Screened(q')
  <2> SUFFICES ASSUME NEW i \in 1 .. 26, Beyond(q', i) PROVE Cleared(q', i)
    BY DEF Screened
  <2>1. CASE i = q.at
    BY <2>1 DEF Cleared, Alike, Kin, Filtered
  <2>2. CASE i # q.at
    <3>1. Cleared(q, i) /\ Beyond(q, i)
      BY <2>2 DEF Held, Screened
    <3>2. i = 22 => q'.ecs = q.ecs
      <4>1. SUFFICES ASSUME i = 22, q.at = 22 PROVE FALSE
        BY DEF Onward, Alike
      <4> QED BY <2>2, <4>1
    <3>3. q'.client = q.client /\ q'.name = q.name /\ q'.type = q.type
      BY DEF Onward, Alike, Kin
    <3> QED BY <3>1, <3>2, <3>3 DEF Cleared, Filtered
  <2> QED BY <2>1, <2>2
<1>2. Asked(q')
  BY DEF Held, Asked, Onward, Alike, Kin
<1>3. Sendable(q')
  BY DEF Held, Sendable, Onward, Alike, Kin
<1>4. ~Flagged(q') /\ ~q'.err /\ q'.attrs \cap {"access_blocked", "ratelimit_blocked", "rebinding_blocked"} = {}
  BY DEF Held, Onward, Alike, Flagged
<1>5. q'.stale # NoAnswer => Good(q'.stale)
  BY DEF Onward, Alike
<1>6. Told(q')
  BY DEF Told
<1> QED BY <1>1, <1>2, <1>3, <1>4, <1>5, <1>6 DEF Held

LEMMA PassHeld ==
  ASSUME Held(q), q.dir = "down", NEW r, Onward(r), Pass(r), q.at < 26, q.at \notin {1, 2, 3, 19, 20, 24},
         Cleared(r, q.at)
  PROVE  Held(q')
<1>1. q' \in Query /\ Alike(r, q') /\ q'.at = q.at + 1 /\ q'.dir = "down" /\ q'.stack = q.stack
  BY PassFields DEF Onward
<1>2. q.at \in 1 .. 26 /\ Stacked(q)
  BY DEF Held, Stacked
<1>3. \A i \in 1 .. 26 : Beyond(q', i) => Beyond(q, i) \/ i = q.at
  BY <1>1, <1>2 DEF Beyond
<1>4. Stacked(q')
  <2>1. \A m \in OnStack(q.stack) : m \in Wrappers /\ Depth(m) \in Nat /\ Depth(m) < q.at
    BY <1>2, DepthFacts DEF Stacked, Nested, OnStack
  <2>2. ASSUME NEW m \in Always, Beyond(q', Depth(m)) PROVE m \in OnStack(q'.stack)
    <3>1. Depth(m) \in {1, 2, 3, 19, 20, 24}
      BY DepthValues DEF Always
    <3>2. Beyond(q, Depth(m))
      BY <1>3, <2>2, <3>1
    <3> QED BY <1>1, <1>2, <3>2 DEF Stacked
  <2>3. q'.at \in 1 .. 26 /\ \A m \in OnStack(q'.stack) : Depth(m) < q'.at
    BY <1>1, <1>2, <2>1
  <2> QED BY <1>1, <1>2, <2>2, <2>3 DEF Stacked
<1> QED BY <1>1, <1>3, <1>4, DownHeld

LEMMA WrapHeld ==
  ASSUME Held(q), q.dir = "down", NEW r, Onward(r), Wrap(r), q.at < 26, Cleared(r, q.at),
         Chain[q.at] \in Wrappers, Depth(Chain[q.at]) = q.at
  PROVE  Held(q')
<1>1. q.at \in 1 .. 26 /\ Stacked(q)
  BY DEF Held, Stacked
<1>2. PICK w \in Wrappers : w = Chain[q.at] /\ Depth(w) = q.at
  OBVIOUS
<1>3. \A m \in OnStack(q.stack) : m \in Wrappers /\ Depth(m) \in Nat /\ Depth(m) < q.at
  BY <1>1, DepthFacts DEF Stacked, Nested, OnStack
<1>4. PICK t : t = Append(q.stack, w)
  OBVIOUS
<1>5. t \in Seq(Wrappers) /\ Nested(t) /\ OnStack(t) = OnStack(q.stack) \cup {w}
  BY <1>1, <1>2, <1>3, <1>4, PushFacts DEF Stacked
<1>6. q' \in Query /\ Alike(r, q') /\ q'.at = q.at + 1 /\ q'.dir = "down" /\ q'.stack = t
  BY <1>2, <1>4, <1>5, WrapFields DEF Onward
<1>9. \A m \in OnStack(q'.stack) : m = w \/ m \in OnStack(q.stack)
  BY <1>5, <1>6
<1>7. \A i \in 1 .. 26 : Beyond(q', i) => Beyond(q, i) \/ i = q.at
  <2> SUFFICES ASSUME NEW i \in 1 .. 26, Beyond(q', i), i # q.at PROVE Beyond(q, i)
    OBVIOUS
  <2>1. CASE q.at > i
    BY <2>1 DEF Beyond
  <2>2. CASE ~(q.at > i)
    <3>1. ~(q.at + 1 > i) /\ ~(Depth(w) > i)
      BY <1>1, <1>2, <2>2
    <3>2. PICK m \in OnStack(q'.stack) : Depth(m) > i
      BY <1>6, <3>1 DEF Beyond
    <3> QED BY <1>9, <3>1, <3>2 DEF Beyond
  <2> QED BY <2>1, <2>2
<1>8. Stacked(q')
  <2>1. ASSUME NEW m \in Always, Beyond(q', Depth(m)) PROVE m \in OnStack(q'.stack)
    <3>1. Depth(m) \in {1, 2, 3, 19, 20, 24} /\ Depth(m) \in 1 .. 26
      BY DepthValues DEF Always
    <3>2. CASE Beyond(q, Depth(m))
      BY <1>1, <1>5, <1>6, <3>2 DEF Stacked
    <3>3. CASE Depth(m) = q.at
      <4>1. m = w
        <5>1. Depth(m) = Depth(w) /\ m \in Always /\ w \in Wrappers
          BY <1>2, <3>3
        <5> QED BY <5>1, DepthValues DEF Always, Wrappers
      <4> QED BY <1>5, <1>6, <4>1
    <3> QED BY <1>7, <2>1, <3>1, <3>2, <3>3
  <2>2. q'.at \in 1 .. 26 /\ \A m \in OnStack(q'.stack) : Depth(m) < q'.at
    <3>1. q.at + 1 \in 1 .. 26 /\ Depth(w) < q.at + 1
      BY <1>1, <1>2
    <3>2. \A m \in OnStack(q.stack) : Depth(m) < q.at + 1
      BY <1>1, <1>3
    <3> QED BY <1>6, <1>9, <3>1, <3>2
  <2> QED BY <1>5, <1>6, <2>1, <2>2 DEF Stacked
<1> QED BY <1>6, <1>7, <1>8, DownHeld

-----------------------------------------------------------------------------
(* The way up: the stack has become shorter, or is what it was.            *)
Shorter(s, t) ==
  /\ Nested(t) /\ OnStack(t) \subseteq OnStack(s)
  /\ \A m \in OnStack(s) : m \in OnStack(t) \/ \A n \in OnStack(t) : Depth(n) < Depth(m)

Marked(x) == /\ x.attrs \cap {"access_blocked", "ratelimit_blocked", "rebinding_blocked"} # {} => Flagged(x)
             /\ x.stale # NoAnswer => Good(x.stale)

LEMMA SameStack ==
  ASSUME NEW x, Stacked(x)
  PROVE  Shorter(x.stack, x.stack)
BY DEF Stacked, Shorter

LEMMA PopShorter ==
  ASSUME NEW x, Stacked(x), x.stack # <<>>
  PROVE  /\ Front(x.stack) \in Seq(Wrappers) /\ Shorter(x.stack, Front(x.stack))
         /\ Last(x.stack) \in OnStack(x.stack) /\ Last(x.stack) \in Wrappers
         /\ OnStack(Front(x.stack)) = OnStack(x.stack) \ {Last(x.stack)}
         /\ \A n \in OnStack(Front(x.stack)) : Depth(n) < Depth(Last(x.stack))
<1>1. PICK s : s = x.stack
  OBVIOUS
<1>2. Nested(s) /\ s # <<>>
  BY <1>1 DEF Stacked
<1>3. /\ Front(s) \in Seq(Wrappers) /\ Nested(Front(s)) /\ Last(s) \in OnStack(s) /\ Last(s) \in Wrappers
      /\ OnStack(Front(s)) = OnStack(s) \ {Last(s)}
      /\ \A n \in OnStack(Front(s)) : n \in OnStack(s) /\ Depth(n) < Depth(Last(s))
  BY <1>2, PopFacts
<1>4. PICK t, w : t = Front(s) /\ w = Last(s)
  OBVIOUS
<1>5. Shorter(s, t)
  BY <1>3, <1>4 DEF Shorter
<1> QED BY <1>1, <1>3, <1>4, <1>5

LEMMA UpHeld ==
  ASSUME Held(q), q.dir \in {"down", "wait", "up"}, q' \in Query, Kin(q, q'), q'.ecs = q.ecs, q'.dir = "up",
         Shorter(q.stack, q'.stack), Sendable(q'), Marked(q'), Replied(q')
  PROVE  Held(q')
<1>1. Stacked(q) /\ Screened(q)
  BY DEF Held
<1>2. \A m \in OnStack(q.stack) : m \in Wrappers /\ Depth(m) \in Nat
  BY <1>1, DepthFacts DEF Stacked, Nested, OnStack
<1>3. \A m \in OnStack(q'.stack) : m \in OnStack(q.stack)
  BY DEF Shorter
<1>4. \A i : Beyond(q', i) => Beyond(q, i)
  BY <1>3 DEF Beyond
<1>5. ASSUME NEW m \in Always, Beyond(q', Depth(m)) PROVE m \in OnStack(q'.stack)
  <2>1. PICK n \in OnStack(q'.stack) : Depth(n) > Depth(m)
    BY <1>5 DEF Beyond
  <2>2. m \in OnStack(q.stack)
    BY <1>1, <1>4, <1>5 DEF Stacked
  <2>3. Depth(n) \in Nat /\ Depth(m) \in Nat
    BY <1>2, <1>3, <2>2
  <2>4. ~(Depth(n) < Depth(m))
    BY <2>1, <2>3
  <2> QED BY <2>2, <2>4 DEF Shorter
<1>6. Stacked(q')
  BY <1>5 DEF Stacked, Shorter
<1>7. Screened(q')
  <2> SUFFICES ASSUME NEW i \in 1 .. 26, Beyond(q', i) PROVE Cleared(q', i)
    BY DEF Screened
  <2>1. Cleared(q, i)
    BY <1>1, <1>4 DEF Screened
  <2> QED BY <2>1 DEF Cleared, Filtered, Kin
<1>8. Asked(q') /\ Told(q')
  BY DEF Held, Asked, Told, Kin
<1> QED BY <1>6, <1>7, <1>8 DEF Held, Marked

LEMMA AnswerGood ==
  ASSUME NEW rc \in Rcodes, NEW h \in SUBSET Contents, rc # "NOERROR" => h = {},
         NEW f \in {"local", "block", "upstream", "clean", "forward"}
  PROVE  /\ Answer(rc, h, f) \in Answers /\ Good(Answer(rc, h, f))
         /\ Answer(rc, h, f).rcode = rc /\ Answer(rc, h, f).has = h /\ Answer(rc, h, f).from = f
BY DEF Answer, Answers, Good, Edes

(* What the stack and the place say of a query on its way down.            *)
LEMMA OnTheWay ==
  ASSUME Held(q), q.dir \in {"down", "wait"}
  PROVE  /\ q.at \in 1 .. 26 /\ q.stack \in Seq(Wrappers) /\ Stacked(q)
         /\ \A m \in OnStack(q.stack) : Depth(m) < q.at
         /\ q.at > 2 => "ede" \in OnStack(q.stack)
         /\ q.at > 19 => "rebind" \in OnStack(q.stack)
         /\ q.at > 20 => "filterResponse" \in OnStack(q.stack)
         /\ \A i \in 1 .. 26 : q.at > i => Cleared(q, i)
         /\ q.client \in Clients /\ q.who = q.client /\ q.name \in Names /\ q.type \in Types
         /\ <<q.name, q.type, q.group>> \in Keys
         /\ ~Flagged(q) /\ ~q.err
<1>1. q.at \in 1 .. 26 /\ Stacked(q) /\ q.stack \in Seq(Wrappers) /\ \A m \in OnStack(q.stack) : Depth(m) < q.at
  BY DEF Held, Stacked, Nested
<1>2. \A m \in Always : q.at > Depth(m) => m \in OnStack(q.stack)
  BY <1>1 DEF Stacked, Beyond
<1>3. /\ q.at > 2 => "ede" \in OnStack(q.stack)
      /\ q.at > 19 => "rebind" \in OnStack(q.stack)
      /\ q.at > 20 => "filterResponse" \in OnStack(q.stack)
  BY <1>2, DepthValues DEF Always
<1>4. \A i \in 1 .. 26 : q.at > i => Cleared(q, i)
  BY DEF Held, Screened, Beyond
<1>5. q.client \in Clients /\ q.who = q.client
  BY DEF Held, Asked
<1>6. PICK y \in Questions : q.name = y[1] /\ q.type = y[2]
  BY DEF Held, Asked
<1>7. q.name \in Names /\ q.type \in Types
  BY <1>6, PipelineAssumption
<1>8. <<q.name, q.type, q.group>> \in Keys
  <2>1. q.group \in Groups
    BY DEF Held, Query
  <2> QED BY <1>6, <2>1 DEF Keys
<1>9. ~Flagged(q) /\ ~q.err
  BY DEF Held
<1> QED BY <1>1, <1>3, <1>4, <1>5, <1>7, <1>8, <1>9

(* The query with the answer a middleware turns it round with.             *)
Turned(r) ==
  /\ r \in Query /\ Kin(q, r) /\ r.stack = q.stack /\ r.ecs = q.ecs
  /\ r.stale # NoAnswer => Good(r.stale)

LEMMA WithTurned ==
  ASSUME Held(q), NEW resp \in Answers, NEW src \in Sources, NEW hit \in Hits, NEW flags \in SUBSET Flags,
         NEW r, r = With(q, resp, src, hit, flags)
  PROVE  /\ Turned(r) /\ r.resp = resp /\ r.source = src /\ r.hit = hit /\ r.attrs = q.attrs \cup flags
         /\ r.err = q.err /\ r.sent = q.sent /\ r.group = q.group
<1>1. q \in Query /\ (q.stale # NoAnswer => Good(q.stale))
  BY DEF Held
<1>2. r = [q EXCEPT !.resp = resp, !.source = src, !.hit = hit, !.attrs = q.attrs \cup flags]
  BY <1>1 DEF With
<1>3. q.attrs \cup flags \in SUBSET Flags
  BY <1>1 DEF Query
<1>4. r \in Query
  BY <1>1, <1>2, <1>3 DEF Query
<1>5. /\ r.resp = resp /\ r.source = src /\ r.hit = hit /\ r.attrs = q.attrs \cup flags
      /\ r.err = q.err /\ r.sent = q.sent /\ r.group = q.group /\ r.stack = q.stack /\ r.ecs = q.ecs
      /\ r.stale = q.stale /\ Kin(q, r)
  BY <1>1, <1>2 DEF Query, Kin
<1> QED BY <1>1, <1>4, <1>5 DEF Turned

LEMMA TurnHeld ==
  ASSUME Held(q), q.dir = "down", NEW r, Turned(r), TurnRound(r), Sendable(q'), Marked(q'), Replied(q')
  PROVE  Held(q')
<1>1. q' \in Query /\ Alike(r, q') /\ q'.dir = "up" /\ q'.stack = q.stack
  BY TurnFields DEF Turned
<1>2. Kin(q, q') /\ q'.ecs = q.ecs
  BY <1>1 DEF Turned, Alike, Kin
<1>3. Shorter(q.stack, q'.stack)
  BY <1>1, SameStack DEF Held
<1> QED BY <1>1, <1>2, <1>3, UpHeld

LEMMA LocalHeld ==
  ASSUME Held(q), q.dir = "down", q.at > 5, NEW r, Turned(r), TurnRound(r),
         r.attrs = q.attrs, r.err = q.err, r.sent = q.sent,
         Good(r.resp), r.resp.from = "local", "badalias" \notin r.resp.has
  PROVE  Held(q')
<1>0. q.at \in 1 .. 26 /\ q.at > 2
  BY DEF Held, Stacked
<1>1. Alike(r, q') /\ q'.stack = q.stack
  BY TurnFields DEF Turned
<1>2. /\ q'.resp = r.resp /\ ~q'.err /\ q'.attrs = q.attrs /\ q'.sent = q.sent /\ q'.who = q.who
      /\ q'.stale = r.stale /\ q'.client = q.client
  BY <1>1, OnTheWay DEF Turned, Alike, Kin
<1>3. ~Flagged(q')
  BY <1>2, OnTheWay DEF Flagged
<1>4. Sendable(q')
  BY <1>2 DEF Held, Sendable
<1>5. Marked(q')
  BY <1>2, <1>3 DEF Held, Marked, Turned, Flagged
<1>6. q'.who \notin Denied
  BY <1>0, <1>2, OnTheWay DEF Cleared
<1>7. "ede" \in OnStack(q'.stack)
  BY <1>0, <1>1, OnTheWay
<1>8. Replied(q')
  BY <1>2, <1>3, <1>6, <1>7 DEF Replied, Private
<1> QED BY <1>4, <1>5, <1>8, TurnHeld

LEMMA BlockHeld ==
  ASSUME Held(q), q.dir = "down", q.at \in 5 .. 18, NEW r, Turned(r), TurnRound(r), Flagged(r),
         r.err = q.err, r.sent = q.sent,
         Good(r.resp), r.resp.from = "block", "badalias" \notin r.resp.has, r.resp.rcode # "SERVFAIL",
         q.at = 5 => r.resp.rcode = "REFUSED"
  PROVE  Held(q')
<1>0. q.at \in 1 .. 26 /\ q.at > 2
  BY DEF Held, Stacked
<1>1. Alike(r, q') /\ q'.stack = q.stack /\ q'.dir = "up"
  BY TurnFields DEF Turned
<1>2. /\ q'.resp = r.resp /\ ~q'.err /\ q'.attrs = r.attrs /\ q'.sent = q.sent /\ q'.who = q.who
      /\ q'.stale = r.stale /\ q'.client = q.client
  BY <1>1, OnTheWay DEF Turned, Alike, Kin
<1>3. Flagged(q')
  BY <1>2 DEF Flagged
<1>4. Sendable(q')
  BY <1>2 DEF Held, Sendable
<1>5. Marked(q')
  BY <1>2, <1>3 DEF Marked, Turned
<1>6. q'.who \in Denied => q.at = 5
  BY <1>0, <1>2, OnTheWay DEF Cleared
<1>7. "ede" \in OnStack(q'.stack)
  BY <1>0, <1>1, OnTheWay
<1>8. ~Beyond(q', 20)
  <2>1. \A m \in OnStack(q.stack) : m \in Wrappers /\ Depth(m) \in Nat /\ Depth(m) < q.at
    <3>1. Nested(q.stack) /\ \A m \in OnStack(q.stack) : Depth(m) < q.at
      BY DEF Held, Stacked
    <3> QED BY <3>1, DepthFacts DEF Nested, OnStack
  <2> QED BY <1>1, <2>1 DEF Beyond
<1>9. Replied(q')
  BY <1>2, <1>3, <1>6, <1>7, <1>8 DEF Replied, Private
<1> QED BY <1>4, <1>5, <1>9, TurnHeld

LEMMA AnswerHeld ==
  ASSUME Held(q), q.dir = "down", q.at > 22, NEW r, Turned(r), TurnRound(r),
         r.attrs = q.attrs, Sendable(r), Good(r.resp), r.err => r.resp.rcode = "SERVFAIL"
  PROVE  Held(q')
<1>0. q.at \in 1 .. 26 /\ q.at > 2 /\ q.at > 5 /\ q.at > 17 /\ q.at > 19 /\ q.at > 20
  BY DEF Held, Stacked
<1>1. Alike(r, q') /\ q'.stack = q.stack
  BY TurnFields DEF Turned
<1>2. /\ q'.resp = r.resp /\ q'.err = r.err /\ q'.attrs = q.attrs /\ q'.sent = r.sent /\ q'.who = q.who
      /\ q'.stale = r.stale /\ q'.client = q.client /\ q'.name = q.name
  BY <1>1 DEF Turned, Alike, Kin
<1>3. ~Flagged(q')
  BY <1>2, OnTheWay DEF Flagged
<1>4. Sendable(q')
  BY <1>1 DEF Sendable, Alike, Kin
<1>5. Marked(q')
  BY <1>2, <1>3 DEF Held, Marked, Turned, Flagged
<1>6. q'.who \notin Denied /\ (Filtered(q') => "blocked" \notin NameIs[q'.name])
  <2>1. Cleared(q, 5) /\ Cleared(q, 17) /\ q.who = q.client
    BY <1>0, OnTheWay
  <2> QED BY <1>2, <2>1 DEF Cleared, Filtered
<1>7. {"ede", "rebind", "filterResponse"} \subseteq OnStack(q'.stack)
  BY <1>0, <1>1, OnTheWay
<1>8. Replied(q')
  BY <1>2, <1>3, <1>6, <1>7 DEF Replied
<1> QED BY <1>4, <1>5, <1>8, TurnHeld

-----------------------------------------------------------------------------
(* Passing, wrapping, answering and blocking, whatever the middleware.     *)
LEMMA PassInv ==
  ASSUME Inv, q.dir = "down", Pass(q), Others, q.at < 26, q.at \notin {1, 2, 3, 19, 20, 24}, Cleared(q, q.at)
  PROVE  Inv'
<1>1. Held(q) /\ Onward(q)
  BY OnwardSelf DEF Inv
<1>2. Held(q')
  BY <1>1, PassHeld
<1> QED BY <1>2, OthersInv

LEMMA WrapInv ==
  ASSUME Inv, q.dir = "down", Wrap(q), Others, q.at < 26, Cleared(q, q.at),
         Chain[q.at] \in Wrappers, Depth(Chain[q.at]) = q.at
  PROVE  Inv'
<1>1. Held(q) /\ Onward(q)
  BY OnwardSelf DEF Inv
<1>2. Held(q')
  BY <1>1, WrapHeld
<1> QED BY <1>2, OthersInv

LEMMA ServeInv ==
  ASSUME Inv, q.dir = "down", q.at > 5, NEW resp, NEW src \in Sources, NEW hit \in Hits,
         Serve(resp, src, hit), Others, Good(resp), resp.from = "local", "badalias" \notin resp.has
  PROVE  Inv'
<1>0. PICK flags \in SUBSET Flags : flags = {}
  OBVIOUS
<1>1. PICK r : r = With(q, resp, src, hit, flags)
  OBVIOUS
<1>2. Held(q) /\ resp \in Answers
  BY DEF Inv, Good
<1>3. /\ Turned(r) /\ r.resp = resp /\ r.attrs = q.attrs \cup flags /\ r.err = q.err /\ r.sent = q.sent
  BY <1>1, <1>2, WithTurned
<1>4. TurnRound(r) /\ r.attrs = q.attrs
  BY <1>0, <1>1, <1>3 DEF Serve
<1>5. Held(q')
  BY <1>2, <1>3, <1>4, LocalHeld
<1> QED BY <1>5, OthersInv

LEMMA BlockInv ==
  ASSUME Inv, q.dir = "down", q.at \in 5 .. 18, NEW resp, NEW src \in Sources, NEW hit \in Hits,
         NEW flags \in SUBSET Flags, "filter_blocked" \in flags,
         TurnRound(With(q, resp, src, hit, flags)), Others,
         Good(resp), resp.from = "block", "badalias" \notin resp.has, resp.rcode # "SERVFAIL",
         q.at = 5 => resp.rcode = "REFUSED"
  PROVE  Inv'
<1>1. PICK r : r = With(q, resp, src, hit, flags)
  OBVIOUS
<1>2. Held(q) /\ resp \in Answers
  BY DEF Inv, Good
<1>3. /\ Turned(r) /\ r.resp = resp /\ r.attrs = q.attrs \cup flags /\ r.err = q.err /\ r.sent = q.sent
  BY <1>1, <1>2, WithTurned
<1>4. TurnRound(r) /\ Flagged(r)
  BY <1>1, <1>3 DEF Flagged
<1>5. Held(q')
  BY <1>2, <1>3, <1>4, BlockHeld
<1> QED BY <1>5, OthersInv

LEMMA BlocksAre ==
  ASSUME NEW rc \in {"NXDOMAIN", "REFUSED", "NOTIMP", "NOERROR"}, NEW resp, resp = Answer(rc, {}, "block")
  PROVE  /\ Good(resp) /\ resp.from = "block" /\ "badalias" \notin resp.has /\ resp.rcode # "SERVFAIL"
         /\ resp.rcode = rc
<1>1. {} \in SUBSET Contents /\ rc \in Rcodes
  BY DEF Rcodes
<1>2. /\ Good(Answer(rc, {}, "block")) /\ Answer(rc, {}, "block").rcode = rc
      /\ Answer(rc, {}, "block").has = {} /\ Answer(rc, {}, "block").from = "block"
  BY <1>1, AnswerGood
<1> QED BY <1>2

LEMMA LocalsAre ==
  ASSUME NEW rc \in {"NXDOMAIN", "NOERROR"}, NEW h \in {{}, {"addr"}, {"addr", "private"}},
         rc = "NXDOMAIN" => h = {}, NEW resp, resp = Answer(rc, h, "local")
  PROVE  Good(resp) /\ resp.from = "local" /\ "badalias" \notin resp.has
<1>1. h \in SUBSET Contents /\ rc \in Rcodes /\ "badalias" \notin h
  BY DEF Rcodes, Contents
<1>2. /\ Good(Answer(rc, h, "local"))
      /\ Answer(rc, h, "local").has = h /\ Answer(rc, h, "local").from = "local"
  BY <1>1, AnswerGood
<1> QED BY <1>1, <1>2

LEMMA BlockedResponses ==
  ASSUME NEW resp \in BuildBlockedResponse
  PROVE  Good(resp) /\ resp.from = "block" /\ "badalias" \notin resp.has /\ resp.rcode # "SERVFAIL"
<1>1. CASE resp = Answer("NXDOMAIN", {}, "block")
  BY <1>1, BlocksAre
<1>2. CASE resp = Answer("REFUSED", {}, "block")
  BY <1>2, BlocksAre
<1>3. CASE \E h \in {{}, {"addr", "private"}} : resp = Answer("NOERROR", h, "block")
  <2>1. PICK h \in {{}, {"addr", "private"}} : resp = Answer("NOERROR", h, "block")
    BY <1>3
  <2>2. h \in SUBSET Contents /\ "badalias" \notin h /\ "NOERROR" \in Rcodes
    BY DEF Contents, Rcodes
  <2>3. Good(resp) /\ resp.rcode = "NOERROR" /\ resp.has = h /\ resp.from = "block"
    BY <2>1, <2>2, AnswerGood
  <2> QED BY <2>2, <2>3
<1> QED BY <1>1, <1>2, <1>3 DEF BuildBlockedResponse

(* The outer wrappers and the entry checks.                                *)
LEMMA MetricsInv == ASSUME Inv, Metrics PROVE Inv'
<1>1. q.at \in 1 .. 26
  BY DEF Metrics, Down, Inv, Held, Stacked
<1>2. q.at = 1 /\ q.dir = "down"
  BY <1>1, DownAt DEF Metrics
<1> QED BY <1>2, WrapInv, ChainFacts, DepthValues DEF Metrics, Wrappers, Cleared

LEMMA EdeInv == ASSUME Inv, Ede PROVE Inv'
<1>1. q.at \in 1 .. 26
  BY DEF Ede, Down, Inv, Held, Stacked
<1>2. q.at = 2 /\ q.dir = "down"
  BY <1>1, DownAt DEF Ede
<1> QED BY <1>2, WrapInv, ChainFacts, DepthValues DEF Ede, Wrappers, Cleared

LEMMA EchInv == ASSUME Inv, Ech PROVE Inv'
<1>1. q.at \in 1 .. 26
  BY DEF Ech, Down, Inv, Held, Stacked
<1>2. q.at = 3 /\ q.dir = "down"
  BY <1>1, DownAt DEF Ech
<1> QED BY <1>2, WrapInv, ChainFacts, DepthValues DEF Ech, Wrappers, Cleared

LEMMA ClientInv == ASSUME Inv, Client PROVE Inv'
<1>1. q.at \in 1 .. 26 /\ Held(q) /\ q \in Query /\ (q.stale # NoAnswer => Good(q.stale))
  BY DEF Client, Down, Inv, Held, Stacked
<1>2. q.at = 4 /\ q.dir = "down"
  BY <1>1, DownAt DEF Client
<1>3. PICK g \in Groups : g = groupOf[q.client]
  BY <1>1, <1>2, OnTheWay DEF Inv, Around
<1>4. PICK r : r = [q EXCEPT !.group = g]
  OBVIOUS
<1>5. r \in Query
  BY <1>1, <1>4 DEF Query
<1>6. Onward(r)
  <2>1. Kin(q, r) /\ r.at = q.at /\ r.dir = q.dir /\ r.stack = q.stack /\ r.sent = q.sent /\ r.err = q.err
        /\ r.attrs = q.attrs /\ r.stale = q.stale /\ r.ecs = q.ecs
    BY <1>1, <1>4 DEF Query, Kin
  <2>2. Sendable(r)
    BY <1>1, <2>1 DEF Held, Sendable, Kin
  <2> QED BY <1>1, <1>2, <1>5, <2>1, <2>2 DEF Onward
<1>7. Pass(r) /\ Cleared(r, q.at)
  BY <1>2, <1>3, <1>4 DEF Client, Cleared
<1>8. Held(q')
  BY <1>1, <1>2, <1>6, <1>7, PassHeld
<1> QED BY <1>8, OthersInv DEF Client

LEMMA AccessInv == ASSUME Inv, Access PROVE Inv'
<1>1. q.at \in 1 .. 26 /\ Held(q) /\ q.source \in Sources /\ q.hit \in Hits
  BY DEF Access, Down, Inv, Held, Stacked, Query
<1>2. q.at = 5 /\ q.dir = "down"
  BY <1>1, DownAt DEF Access
<1>3. CASE q.client \in Denied
  <2>1. PICK resp : resp = Answer("REFUSED", {}, "block")
    OBVIOUS
  <2>2. /\ Good(resp) /\ resp.from = "block" /\ "badalias" \notin resp.has /\ resp.rcode = "REFUSED"
    BY <2>1, BlocksAre
  <2>3. PICK flags : flags = {"access_blocked"} \cup {"filter_blocked"}
    OBVIOUS
  <2>4. TurnRound(With(q, resp, q.source, q.hit, flags)) /\ Others
    BY <1>3, <2>1, <2>3 DEF Access, Block
  <2>5. "filter_blocked" \in flags /\ flags \in SUBSET Flags
    BY <2>3 DEF Flags
  <2> QED BY <1>1, <1>2, <2>2, <2>4, <2>5, BlockInv
<1>4. CASE q.client \notin Denied
  <2>1. Pass(q) /\ Others
    BY <1>4 DEF Access
  <2> QED BY <1>2, <1>4, <2>1, PassInv DEF Cleared
<1> QED BY <1>3, <1>4

LEMMA RateLimitInv == ASSUME Inv, RateLimit PROVE Inv'
<1>1. q.at \in 1 .. 26 /\ Held(q) /\ q.source \in Sources /\ q.hit \in Hits
  BY DEF RateLimit, Down, Inv, Held, Stacked, Query
<1>2. q.at = 6 /\ q.dir = "down"
  BY <1>1, DownAt DEF RateLimit
<1>3. CASE Pass(q)
  BY <1>2, <1>3, PassInv DEF Cleared, RateLimit
<1>4. CASE Block(Answer("REFUSED", {}, "block"), {"ratelimit_blocked"})
  <2>1. PICK resp : resp = Answer("REFUSED", {}, "block")
    OBVIOUS
  <2>2. /\ Good(resp) /\ resp.from = "block" /\ "badalias" \notin resp.has /\ resp.rcode = "REFUSED"
    BY <2>1, BlocksAre
  <2>3. PICK flags : flags = {"ratelimit_blocked"} \cup {"filter_blocked"}
    OBVIOUS
  <2>4. TurnRound(With(q, resp, q.source, q.hit, flags)) /\ Others
    BY <1>4, <2>1, <2>3 DEF RateLimit, Block
  <2>5. "filter_blocked" \in flags /\ flags \in SUBSET Flags
    BY <2>3 DEF Flags
  <2> QED BY <1>1, <1>2, <2>2, <2>4, <2>5, BlockInv
<1> QED BY <1>3, <1>4 DEF RateLimit

(* Answers of this machine.                                                *)
LEMMA DdrInv == ASSUME Inv, Ddr PROVE Inv'
<1>1. q.at \in 1 .. 26 /\ Held(q) /\ q.source \in Sources /\ q.hit \in Hits
  BY DEF Ddr, Down, Inv, Held, Stacked, Query
<1>2. q.at = 7 /\ q.dir = "down"
  BY <1>1, DownAt DEF Ddr
<1>3. CASE Pass(q)
  BY <1>2, <1>3, PassInv DEF Cleared, Ddr
<1>4. CASE Serve(Answer("NOERROR", {}, "local"), "ddr", q.hit)
  <2>1. PICK resp : resp = Answer("NOERROR", {}, "local")
    OBVIOUS
  <2>2. Good(resp) /\ resp.from = "local" /\ "badalias" \notin resp.has
    BY <2>1, LocalsAre
  <2>3. Serve(resp, "ddr", q.hit) /\ Others
    BY <1>4, <2>1 DEF Ddr
  <2> QED BY <1>1, <1>2, <2>2, <2>3, ServeInv DEF Sources, Hits
<1> QED BY <1>3, <1>4 DEF Ddr

LEMMA SudnInv == ASSUME Inv, Sudn PROVE Inv'
<1>1. q.at \in 1 .. 26 /\ Held(q) /\ q.source \in Sources /\ q.hit \in Hits
  BY DEF Sudn, Down, Inv, Held, Stacked, Query
<1>2. q.at = 8 /\ q.dir = "down"
  BY <1>1, DownAt DEF Sudn
<1>3. CASE \E rc \in {"NOERROR", "NXDOMAIN"}, h \in {{}, {"addr", "private"}}, src \in {"sudn", "sudn_ddr"} :
             (rc = "NXDOMAIN" => h = {}) /\ Serve(Answer(rc, h, "local"), src, q.hit)
  <2>1. PICK rc \in {"NOERROR", "NXDOMAIN"}, h \in {{}, {"addr", "private"}}, src \in {"sudn", "sudn_ddr"} :
             (rc = "NXDOMAIN" => h = {}) /\ Serve(Answer(rc, h, "local"), src, q.hit)
    BY <1>3
  <2>2. PICK resp : resp = Answer(rc, h, "local")
    OBVIOUS
  <2>3. Good(resp) /\ resp.from = "local" /\ "badalias" \notin resp.has
    BY <2>1, <2>2, LocalsAre
  <2>4. Serve(resp, src, q.hit) /\ Others
    BY <2>1, <2>2 DEF Sudn
  <2> QED BY <1>1, <1>2, <2>3, <2>4, ServeInv DEF Sources
<1>4. CASE Pass(q) /\ ~NameIn("localhost") /\ ~NameIn("special") /\ ~NameIn("resolverArpa")
  <2>1. Cleared(q, 8)
    BY <1>4 DEF Cleared, NameIn, Special
  <2> QED BY <1>2, <1>4, <2>1, PassInv DEF Sudn
<1>5. CASE NameIn("localhost")
  BY <1>3, <1>5 DEF Sudn
<1>6. CASE ~NameIn("localhost") /\ NameIn("special")
  BY <1>3, <1>6 DEF Sudn
<1>7. CASE ~NameIn("localhost") /\ ~NameIn("special") /\ NameIn("resolverArpa")
  BY <1>3, <1>7 DEF Sudn
<1>8. CASE ~NameIn("localhost") /\ ~NameIn("special") /\ ~NameIn("resolverArpa")
  BY <1>4, <1>8 DEF Sudn
<1> QED BY <1>5, <1>6, <1>7, <1>8

LEMMA ZoneInv == ASSUME Inv, Zone PROVE Inv'
<1>1. q.at \in 1 .. 26 /\ Held(q) /\ q.source \in Sources /\ q.hit \in Hits
  BY DEF Zone, Down, Inv, Held, Stacked, Query
<1>2. q.at = 9 /\ q.dir = "down"
  BY <1>1, DownAt DEF Zone
<1>3. CASE Pass(q)
  BY <1>2, <1>3, PassInv DEF Cleared, Zone
<1>4. CASE \E h \in {{}, {"addr", "private"}} :
             Serve(Answer("NOERROR", h, "local"), "zone", IF h = {} THEN "zone_nodata" ELSE "zone")
  <2>1. PICK h \in {{}, {"addr", "private"}} :
             Serve(Answer("NOERROR", h, "local"), "zone", IF h = {} THEN "zone_nodata" ELSE "zone")
    BY <1>4
  <2>2. PICK resp : resp = Answer("NOERROR", h, "local")
    OBVIOUS
  <2>3. PICK hit \in Hits : hit = IF h = {} THEN "zone_nodata" ELSE "zone"
    BY DEF Hits
  <2>4. Good(resp) /\ resp.from = "local" /\ "badalias" \notin resp.has
    BY <2>2, LocalsAre
  <2>5. Serve(resp, "zone", hit) /\ Others
    BY <2>1, <2>2, <2>3 DEF Zone
  <2> QED BY <1>1, <1>2, <2>4, <2>5, ServeInv DEF Sources
<1> QED BY <1>3, <1>4 DEF Zone

LEMMA HostsInv == ASSUME Inv, Hosts PROVE Inv'
<1>1. q.at \in 1 .. 26 /\ Held(q) /\ q.source \in Sources /\ q.hit \in Hits
  BY DEF Hosts, Down, Inv, Held, Stacked, Query
<1>2. q.at = 10 /\ q.dir = "down"
  BY <1>1, DownAt DEF Hosts
<1>3. CASE Pass(q)
  BY <1>2, <1>3, PassInv DEF Cleared, Hosts
<1>4. CASE NameIn("hosts") /\ q.type \in {"A", "AAAA", "PTR"}
  <2>1. PICK h \in {{}, {"addr", "private"}} : h = IF q.type = "A" THEN {"addr", "private"} ELSE {}
    OBVIOUS
  <2>2. PICK resp : resp = Answer("NOERROR", h, "local")
    OBVIOUS
  <2>3. PICK hit \in Hits : hit = IF q.type = "AAAA" THEN "hosts_nodata" ELSE "hosts"
    BY DEF Hits
  <2>4. Good(resp) /\ resp.from = "local" /\ "badalias" \notin resp.has
    BY <2>2, LocalsAre
  <2>5. Serve(resp, "hosts", hit) /\ Others
    BY <1>4, <2>1, <2>2, <2>3 DEF Hosts
  <2> QED BY <1>1, <1>2, <2>4, <2>5, ServeInv DEF Sources
<1> QED BY <1>3, <1>4 DEF Hosts

LEMMA RewriteInv == ASSUME Inv, Rewrite PROVE Inv'
<1>1. q.at \in 1 .. 26 /\ Held(q) /\ q.source \in Sources /\ q.hit \in Hits
  BY DEF Rewrite, Down, Inv, Held, Stacked, Query
<1>2. q.at = 11 /\ q.dir = "down"
  BY <1>1, DownAt DEF Rewrite
<1>3. CASE Pass(q)
  BY <1>2, <1>3, PassInv DEF Cleared, Rewrite
<1>4. CASE Serve(Answer("NXDOMAIN", {}, "local"), "rewrite", "rewrite_rcode")
  <2>1. PICK resp : resp = Answer("NXDOMAIN", {}, "local")
    OBVIOUS
  <2>2. Good(resp) /\ resp.from = "local" /\ "badalias" \notin resp.has
    BY <2>1, LocalsAre
  <2>3. Serve(resp, "rewrite", "rewrite_rcode") /\ Others
    BY <1>4, <2>1 DEF Rewrite
  <2> QED BY <1>1, <1>2, <2>2, <2>3, ServeInv DEF Sources, Hits
<1>5. CASE Serve(Answer("NOERROR", {"addr", "private"}, "local"), "rewrite", "rewrite")
  <2>1. PICK resp : resp = Answer("NOERROR", {"addr", "private"}, "local")
    OBVIOUS
  <2>2. Good(resp) /\ resp.from = "local" /\ "badalias" \notin resp.has
    BY <2>1, LocalsAre
  <2>3. Serve(resp, "rewrite", "rewrite") /\ Others
    BY <1>5, <2>1 DEF Rewrite
  <2> QED BY <1>1, <1>2, <2>2, <2>3, ServeInv DEF Sources, Hits
<1>6. CASE Serve(Answer("NOERROR", {}, "local"), "rewrite", "rewrite_nodata")
  <2>1. PICK resp : resp = Answer("NOERROR", {}, "local")
    OBVIOUS
  <2>2. Good(resp) /\ resp.from = "local" /\ "badalias" \notin resp.has
    BY <2>1, LocalsAre
  <2>3. Serve(resp, "rewrite", "rewrite_nodata") /\ Others
    BY <1>6, <2>1 DEF Rewrite
  <2> QED BY <1>1, <1>2, <2>2, <2>3, ServeInv DEF Sources, Hits
<1> QED BY <1>3, <1>4, <1>5, <1>6 DEF Rewrite

LEMMA SafeSearchInv == ASSUME Inv, SafeSearch PROVE Inv'
<1>1. q.at \in 1 .. 26 /\ Held(q) /\ q.source \in Sources /\ q.hit \in Hits
  BY DEF SafeSearch, Down, Inv, Held, Stacked, Query
<1>2. q.at = 12 /\ q.dir = "down"
  BY <1>1, DownAt DEF SafeSearch
<1>3. CASE Pass(q)
  BY <1>2, <1>3, PassInv DEF Cleared, SafeSearch
<1>4. CASE "safesearch" \in on /\ NameIn("safesearch") /\ q.type \in {"A", "AAAA", "HTTPS"}
  <2>1. PICK h \in {{}, {"addr"}} : h = IF q.type = "HTTPS" THEN {} ELSE {"addr"}
    OBVIOUS
  <2>2. PICK resp : resp = Answer("NOERROR", h, "local")
    OBVIOUS
  <2>3. Good(resp) /\ resp.from = "local" /\ "badalias" \notin resp.has
    BY <2>2, LocalsAre
  <2>4. Serve(resp, "safesearch", "safesearch") /\ Others
    BY <1>4, <2>1, <2>2 DEF SafeSearch
  <2> QED BY <1>1, <1>2, <2>3, <2>4, ServeInv DEF Sources, Hits
<1> QED BY <1>3, <1>4 DEF SafeSearch

(* Queries that must not leave this machine.                               *)
LEMMA Ipv6Inv == ASSUME Inv, Ipv6 PROVE Inv'
<1>1. q.at \in 1 .. 26 /\ Held(q) /\ q.source \in Sources /\ q.hit \in Hits
  BY DEF Ipv6, Down, Inv, Held, Stacked, Query
<1>2. q.at = 13 /\ q.dir = "down"
  BY <1>1, DownAt DEF Ipv6
<1>3. CASE "ipv6" \notin on
  <2>1. Pass(q) /\ Others /\ "ipv6" \notin steady
    BY <1>3 DEF Ipv6, Inv, Around
  <2> QED BY <1>2, <2>1, PassInv DEF Cleared
<1>4. CASE Serve(Answer("NOERROR", {}, "local"), "block_ipv6", q.hit)
  <2>1. PICK resp : resp = Answer("NOERROR", {}, "local")
    OBVIOUS
  <2>2. Good(resp) /\ resp.from = "local" /\ "badalias" \notin resp.has
    BY <2>1, LocalsAre
  <2>3. Serve(resp, "block_ipv6", q.hit) /\ Others
    BY <1>4, <2>1 DEF Ipv6
  <2> QED BY <1>1, <1>2, <2>2, <2>3, ServeInv DEF Sources, Hits
<1>5. CASE "ipv6" \in on /\ q.type # "AAAA"
  <2>1. Wrap(q) /\ Others
    BY <1>5 DEF Ipv6
  <2>2. Cleared(q, 13)
    BY <1>5 DEF Cleared
  <2>3. Chain[q.at] \in Wrappers /\ Depth(Chain[q.at]) = q.at
    BY <1>2, ChainFacts, DepthValues DEF Wrappers
  <2> QED BY <1>2, <2>1, <2>2, <2>3, WrapInv
<1>6. CASE "ipv6" \in on /\ q.type = "AAAA"
  BY <1>4, <1>6 DEF Ipv6
<1> QED BY <1>3, <1>5, <1>6

LEMMA PrivatePTRInv == ASSUME Inv, PrivatePTR PROVE Inv'
<1>1. q.at \in 1 .. 26 /\ Held(q) /\ q.source \in Sources /\ q.hit \in Hits
  BY DEF PrivatePTR, Down, Inv, Held, Stacked, Query
<1>2. q.at = 14 /\ q.dir = "down"
  BY <1>1, DownAt DEF PrivatePTR
<1>3. CASE Pass(q) /\ ~("ptr" \in on /\ q.type = "PTR" /\ NameIn("privateReverse"))
  <2>1. Cleared(q, 14)
    BY <1>3 DEF Cleared, NameIn, Inv, Around
  <2> QED BY <1>2, <1>3, <2>1, PassInv DEF PrivatePTR
<1>4. CASE Serve(Answer("NOERROR", {}, "local"), "client_resolver_ptr", q.hit)
  <2>1. PICK resp : resp = Answer("NOERROR", {}, "local")
    OBVIOUS
  <2>2. Good(resp) /\ resp.from = "local" /\ "badalias" \notin resp.has
    BY <2>1, LocalsAre
  <2>3. Serve(resp, "client_resolver_ptr", q.hit) /\ Others
    BY <1>4, <2>1 DEF PrivatePTR
  <2> QED BY <1>1, <1>2, <2>2, <2>3, ServeInv DEF Sources, Hits
<1>5. CASE Serve(Answer("NXDOMAIN", {}, "local"), "locally_served_zone", q.hit)
  <2>1. PICK resp : resp = Answer("NXDOMAIN", {}, "local")
    OBVIOUS
  <2>2. Good(resp) /\ resp.from = "local" /\ "badalias" \notin resp.has
    BY <2>1, LocalsAre
  <2>3. Serve(resp, "locally_served_zone", q.hit) /\ Others
    BY <1>5, <2>1 DEF PrivatePTR
  <2> QED BY <1>1, <1>2, <2>2, <2>3, ServeInv DEF Sources, Hits
<1> QED BY <1>3, <1>4, <1>5 DEF PrivatePTR

LEMMA UnqualifiedInv == ASSUME Inv, Unqualified PROVE Inv'
<1>1. q.at \in 1 .. 26 /\ Held(q) /\ q.source \in Sources /\ q.hit \in Hits
  BY DEF Unqualified, Down, Inv, Held, Stacked, Query
<1>2. q.at = 15 /\ q.dir = "down"
  BY <1>1, DownAt DEF Unqualified
<1>3. CASE Pass(q) /\ ~("unqualified" \in on /\ NameIn("singleLabel"))
  <2>1. Cleared(q, 15)
    BY <1>3 DEF Cleared, NameIn, Inv, Around
  <2> QED BY <1>2, <1>3, <2>1, PassInv DEF Unqualified
<1>4. CASE Block(Answer("NXDOMAIN", {}, "block"), {"unqualified_blocked"})
  <2>1. PICK resp : resp = Answer("NXDOMAIN", {}, "block")
    OBVIOUS
  <2>2. Good(resp) /\ resp.from = "block" /\ "badalias" \notin resp.has /\ resp.rcode # "SERVFAIL"
    BY <2>1, BlocksAre
  <2>3. PICK flags : flags = {"unqualified_blocked"} \cup {"filter_blocked"}
    OBVIOUS
  <2>4. TurnRound(With(q, resp, q.source, q.hit, flags)) /\ Others
    BY <1>4, <2>1, <2>3 DEF Unqualified, Block
  <2>5. "filter_blocked" \in flags /\ flags \in SUBSET Flags
    BY <2>3 DEF Flags
  <2> QED BY <1>1, <1>2, <2>2, <2>4, <2>5, BlockInv
<1> QED BY <1>3, <1>4 DEF Unqualified

LEMMA AnyQueryInv == ASSUME Inv, AnyQuery PROVE Inv'
<1>1. q.at \in 1 .. 26 /\ Held(q) /\ q.source \in Sources /\ q.hit \in Hits
  BY DEF AnyQuery, Down, Inv, Held, Stacked, Query
<1>2. q.at = 16 /\ q.dir = "down"
  BY <1>1, DownAt DEF AnyQuery
<1>3. CASE Pass(q) /\ ~("any" \in on /\ q.type = "ANY")
  <2>1. Cleared(q, 16)
    BY <1>3 DEF Cleared, Inv, Around
  <2> QED BY <1>2, <1>3, <2>1, PassInv DEF AnyQuery
<1>4. CASE Block(Answer("NOTIMP", {}, "block"), {"any_blocked"})
  <2>1. PICK resp : resp = Answer("NOTIMP", {}, "block")
    OBVIOUS
  <2>2. Good(resp) /\ resp.from = "block" /\ "badalias" \notin resp.has /\ resp.rcode # "SERVFAIL"
    BY <2>1, BlocksAre
  <2>3. PICK flags : flags = {"any_blocked"} \cup {"filter_blocked"}
    OBVIOUS
  <2>4. TurnRound(With(q, resp, q.source, q.hit, flags)) /\ Others
    BY <1>4, <2>1, <2>3 DEF AnyQuery, Block
  <2>5. "filter_blocked" \in flags /\ flags \in SUBSET Flags
    BY <2>3 DEF Flags
  <2> QED BY <1>1, <1>2, <2>2, <2>4, <2>5, BlockInv
<1>5. CASE Block(Answer("NOERROR", {}, "block"), {"any_blocked"})
  <2>1. PICK resp : resp = Answer("NOERROR", {}, "block")
    OBVIOUS
  <2>2. Good(resp) /\ resp.from = "block" /\ "badalias" \notin resp.has /\ resp.rcode # "SERVFAIL"
    BY <2>1, BlocksAre
  <2>3. PICK flags : flags = {"any_blocked"} \cup {"filter_blocked"}
    OBVIOUS
  <2>4. TurnRound(With(q, resp, q.source, q.hit, flags)) /\ Others
    BY <1>5, <2>1, <2>3 DEF AnyQuery, Block
  <2>5. "filter_blocked" \in flags /\ flags \in SUBSET Flags
    BY <2>3 DEF Flags
  <2> QED BY <1>1, <1>2, <2>2, <2>4, <2>5, BlockInv
<1> QED BY <1>3, <1>4, <1>5 DEF AnyQuery

-----------------------------------------------------------------------------
(* The filter and what lies between it and the cache.                      *)
LEMMA GroupTurned ==
  ASSUME NEW x, Turned(x), NEW g \in Groups, NEW r, r = [x EXCEPT !.group = g]
  PROVE  Turned(r) /\ r.resp = x.resp /\ r.attrs = x.attrs /\ r.err = x.err /\ r.sent = x.sent
<1>1. x \in Query
  BY DEF Turned
<1>2. r \in Query
  BY <1>1 DEF Query
<1>3. /\ r.resp = x.resp /\ r.attrs = x.attrs /\ r.err = x.err /\ r.sent = x.sent /\ r.stack = x.stack
      /\ r.ecs = x.ecs /\ r.stale = x.stale /\ Kin(x, r)
  BY <1>1 DEF Query, Kin
<1> QED BY <1>2, <1>3 DEF Turned, Kin

LEMMA FilterInv == ASSUME Inv, Filter PROVE Inv'
<1>1. q.at \in 1 .. 26 /\ Held(q) /\ q.source \in Sources /\ q.hit \in Hits
      /\ q \in Query /\ Sendable(q) /\ (q.stale # NoAnswer => Good(q.stale))
  BY DEF Filter, Down, Inv, Held, Stacked, Query
<1>2. q.at = 17 /\ q.dir = "down" /\ Others
  BY <1>1, DownAt DEF Filter
<1>3. PICK g \in Groups : g = groupOf[q.client]
  BY <1>1, <1>2, OnTheWay DEF Inv, Around
<1>9. /\ NameIn("serviceOff") => ~NameIn("dnsrewrite") /\ ~NameIn("blocked")
      /\ NameIn("dnsrewrite") => ~NameIn("blocked")
  <2>1. q.name \in Names
    BY <1>1, <1>2, OnTheWay
  <2> QED BY <2>1, PipelineAssumption DEF NameIn
<1>4. CASE "filter" \notin on
  <2>1. Pass(q) /\ "filter" \notin steady
    BY <1>4 DEF Filter, Inv, Around
  <2> QED BY <1>2, <2>1, PassInv DEF Cleared, Filtered
<1>5. CASE "filter" \in on /\ NameIn("serviceOff")
  <2>1. PICK r : r = [q EXCEPT !.group = g]
    OBVIOUS
  <2>2. r \in Query
    BY <1>1, <2>1 DEF Query
  <2>3. /\ Kin(q, r) /\ r.at = q.at /\ r.dir = q.dir /\ r.stack = q.stack /\ r.sent = q.sent /\ r.err = q.err
        /\ r.attrs = q.attrs /\ r.stale = q.stale /\ r.ecs = q.ecs
    BY <1>1, <2>1 DEF Query, Kin
  <2>4. Sendable(r)
    BY <1>1, <2>3 DEF Sendable, Kin
  <2>5. Onward(r)
    BY <1>1, <1>2, <2>2, <2>3, <2>4 DEF Onward
  <2>6. Pass(r)
    BY <1>3, <1>5, <1>9, <2>1 DEF Filter
  <2>7. Cleared(r, 17)
    BY <1>5, <1>9, <2>3 DEF Cleared, NameIn, Kin
  <2>8. Held(q')
    BY <1>1, <1>2, <2>5, <2>6, <2>7, PassHeld
  <2> QED BY <1>2, <2>8, OthersInv
<1>6. CASE "filter" \in on /\ ~NameIn("serviceOff") /\ NameIn("dnsrewrite")
  <2>1. PICK resp : resp = Answer("NOERROR", {"addr", "private"}, "local")
    OBVIOUS
  <2>2. Good(resp) /\ resp.from = "local" /\ "badalias" \notin resp.has /\ resp \in Answers
    BY <2>1, LocalsAre DEF Good
  <2>3. PICK flags \in SUBSET Flags : flags = {}
    OBVIOUS
  <2>4. PICK x : x = With(q, resp, "dnsrewrite", "dnsrewrite", flags)
    OBVIOUS
  <2>5. Turned(x) /\ x.resp = resp /\ x.attrs = q.attrs \cup flags /\ x.err = q.err /\ x.sent = q.sent
    BY <1>1, <2>2, <2>4, WithTurned DEF Sources, Hits
  <2>6. PICK r : r = [x EXCEPT !.group = g]
    OBVIOUS
  <2>7. Turned(r) /\ r.resp = resp /\ r.attrs = q.attrs /\ r.err = q.err /\ r.sent = q.sent
    BY <2>3, <2>5, <2>6, GroupTurned
  <2>8. TurnRound(r)
    BY <1>3, <1>6, <1>9, <2>1, <2>3, <2>4, <2>6 DEF Filter
  <2>9. Held(q')
    BY <1>1, <1>2, <2>2, <2>7, <2>8, LocalHeld
  <2> QED BY <1>2, <2>9, OthersInv
<1>7. CASE "filter" \in on /\ ~NameIn("serviceOff") /\ ~NameIn("dnsrewrite") /\ NameIn("blocked")
           /\ g \in FilteredGroups
  <2>1. PICK resp \in BuildBlockedResponse :
          TurnRound([With(q, resp, q.source, q.hit, {"filter_blocked"}) EXCEPT !.group = g])
    BY <1>3, <1>7 DEF Filter
  <2>2. Good(resp) /\ resp.from = "block" /\ "badalias" \notin resp.has /\ resp.rcode # "SERVFAIL"
        /\ resp \in Answers
    BY BlockedResponses DEF Good
  <2>3. PICK flags : flags = {"filter_blocked"}
    OBVIOUS
  <2>4. PICK x : x = With(q, resp, q.source, q.hit, flags)
    OBVIOUS
  <2>5. flags \in SUBSET Flags
    BY <2>3 DEF Flags
  <2>6. Turned(x) /\ x.resp = resp /\ x.attrs = q.attrs \cup flags /\ x.err = q.err /\ x.sent = q.sent
    BY <1>1, <2>2, <2>4, <2>5, WithTurned
  <2>7. PICK r : r = [x EXCEPT !.group = g]
    OBVIOUS
  <2>8. Turned(r) /\ r.resp = resp /\ Flagged(r) /\ r.err = q.err /\ r.sent = q.sent
    BY <2>3, <2>6, <2>7, GroupTurned DEF Flagged
  <2>9. TurnRound(r)
    BY <2>1, <2>3, <2>4, <2>7
  <2>10. Held(q')
    BY <1>1, <1>2, <2>2, <2>8, <2>9, BlockHeld
  <2> QED BY <1>2, <2>10, OthersInv
<1>8. CASE "filter" \in on /\ ~NameIn("serviceOff") /\ ~NameIn("dnsrewrite")
           /\ ~(NameIn("blocked") /\ g \in FilteredGroups)
  <2>1. Pass(q)
    BY <1>3, <1>8 DEF Filter
  <2>2. Cleared(q, 17)
    BY <1>3, <1>8 DEF Cleared, Filtered, NameIn
  <2> QED BY <1>2, <2>1, <2>2, PassInv
<1> QED BY <1>4, <1>5, <1>6, <1>7, <1>8

LEMMA SafeBrowsingInv == ASSUME Inv, SafeBrowsing PROVE Inv'
<1>1. q.at \in 1 .. 26 /\ Held(q) /\ q \in Query /\ Sendable(q) /\ (q.stale # NoAnswer => Good(q.stale))
  BY DEF SafeBrowsing, Down, Inv, Held, Stacked
<1>2. q.at = 18 /\ q.dir = "down" /\ Others
  BY <1>1, DownAt DEF SafeBrowsing
<1>3. CASE Pass(q)
  BY <1>2, <1>3, PassInv DEF Cleared
<1>4. CASE \E resp \in BuildBlockedResponse :
             TurnRound(With(q, resp, "safebrowsing", "safebrowsing", {"filter_blocked"}))
  <2>1. PICK resp \in BuildBlockedResponse :
             TurnRound(With(q, resp, "safebrowsing", "safebrowsing", {"filter_blocked"}))
    BY <1>4
  <2>2. Good(resp) /\ resp.from = "block" /\ "badalias" \notin resp.has /\ resp.rcode # "SERVFAIL"
    BY BlockedResponses
  <2>3. PICK flags : flags = {"filter_blocked"}
    OBVIOUS
  <2>4. flags \in SUBSET Flags /\ "filter_blocked" \in flags /\ "safebrowsing" \in Sources
        /\ "safebrowsing" \in Hits
    BY <2>3 DEF Flags, Sources, Hits
  <2>5. TurnRound(With(q, resp, "safebrowsing", "safebrowsing", flags))
    BY <2>1, <2>3
  <2> QED BY <1>2, <2>2, <2>4, <2>5, BlockInv
<1>5. CASE Pass(Set({"safebrowsing_failed"}, q))
  <2>1. PICK flags : flags = q.attrs \cup {"safebrowsing_failed"}
    OBVIOUS
  <2>2. flags \in SUBSET Flags
    BY <1>1, <2>1 DEF Flags, Query
  <2>3. PICK r : r = [q EXCEPT !.attrs = flags]
    OBVIOUS
  <2>4. Pass(r)
    BY <1>1, <1>5, <2>1, <2>3 DEF Set, Query
  <2>5. r \in Query
    BY <1>1, <2>2, <2>3 DEF Query
  <2>6. /\ Kin(q, r) /\ r.at = q.at /\ r.dir = q.dir /\ r.stack = q.stack /\ r.sent = q.sent /\ r.err = q.err
        /\ r.attrs = flags /\ r.stale = q.stale /\ r.ecs = q.ecs
    BY <1>1, <2>3 DEF Query, Kin
  <2>7. Sendable(r)
    BY <1>1, <2>6 DEF Sendable, Kin
  <2>8. Onward(r) /\ Cleared(r, 18)
    BY <1>1, <1>2, <2>1, <2>5, <2>6, <2>7 DEF Onward, Cleared
  <2>9. Held(q')
    BY <1>1, <1>2, <2>4, <2>8, PassHeld
  <2> QED BY <1>2, <2>9, OthersInv
<1> QED BY <1>3, <1>4, <1>5 DEF SafeBrowsing

LEMMA RebindInv == ASSUME Inv, Rebind PROVE Inv'
<1>1. q.at \in 1 .. 26
  BY DEF Rebind, Down, Inv, Held, Stacked
<1>2. q.at = 19 /\ q.dir = "down"
  BY <1>1, DownAt DEF Rebind
<1> QED BY <1>2, WrapInv, ChainFacts, DepthValues DEF Rebind, Wrappers, Cleared

LEMMA FilterResponseInv == ASSUME Inv, FilterResponse PROVE Inv'
<1>1. q.at \in 1 .. 26
  BY DEF FilterResponse, Down, Inv, Held, Stacked
<1>2. q.at = 20 /\ q.dir = "down"
  BY <1>1, DownAt DEF FilterResponse
<1> QED BY <1>2, WrapInv, ChainFacts, DepthValues DEF FilterResponse, Wrappers, Cleared

LEMMA Dns64Inv == ASSUME Inv, Dns64 PROVE Inv'
<1>1. q.at \in 1 .. 26
  BY DEF Dns64, Down, Inv, Held, Stacked
<1>2. q.at = 21 /\ q.dir = "down" /\ Others
  BY <1>1, DownAt DEF Dns64
<1>3. CASE Wrap(q)
  BY <1>2, <1>3, WrapInv, ChainFacts, DepthValues DEF Wrappers, Cleared
<1>4. CASE Pass(q)
  BY <1>2, <1>4, PassInv DEF Cleared
<1> QED BY <1>3, <1>4 DEF Dns64

LEMMA EcsInv == ASSUME Inv, Ecs PROVE Inv'
<1>1. q.at \in 1 .. 26 /\ Held(q) /\ q \in Query /\ Sendable(q) /\ (q.stale # NoAnswer => Good(q.stale))
  BY DEF Ecs, Down, Inv, Held, Stacked
<1>2. q.at = 22 /\ q.dir = "down" /\ Others
  BY <1>1, DownAt DEF Ecs
<1>3. PICK e : e = IF "ecs" \notin on THEN q.ecs ELSE IF EcsMode = "custom" THEN "custom" ELSE "none"
  OBVIOUS
<1>4. e \in {"none", "client", "custom"} /\ ("ecs" \in on => e # "client")
  BY <1>1, <1>3 DEF Query
<1>5. PICK r : r = [q EXCEPT !.ecs = e]
  OBVIOUS
<1>6. Pass(r)
  BY <1>1, <1>3, <1>5 DEF Ecs, Query
<1>7. r \in Query
  BY <1>1, <1>4, <1>5 DEF Query
<1>8. /\ Kin(q, r) /\ r.at = q.at /\ r.dir = q.dir /\ r.stack = q.stack /\ r.sent = q.sent /\ r.err = q.err
      /\ r.attrs = q.attrs /\ r.stale = q.stale /\ r.ecs = e
  BY <1>1, <1>5 DEF Query, Kin
<1>9. Sendable(r)
  BY <1>1, <1>8 DEF Sendable, Kin
<1>10. Onward(r) /\ Cleared(r, 22)
  BY <1>1, <1>2, <1>4, <1>7, <1>8, <1>9 DEF Onward, Cleared, Inv, Around
<1>11. Held(q')
  BY <1>1, <1>2, <1>6, <1>10, PassHeld
<1> QED BY <1>2, <1>11, OthersInv

-----------------------------------------------------------------------------
(* The cache, the upstreams and the refresh.                               *)
LEMMA FrameInv ==
  ASSUME Inv, UNCHANGED <<on, groupOf, steady, sameGroup>>, Stored(cache'),
         refresh' = NoRefresh \/ refresh'.key \in Keys, Held(q')
  PROVE  Inv'
<1>1. Around'
  BY DEF Inv, Around, Stored, Good
<1>2. Held(q)'
  BY HeldWeaker DEF Weaker
<1> QED BY <1>1, <1>2 DEF Inv

LEMMA LookupFacts ==
  ASSUME NEW c, Stored(c), NEW k, NEW e, e = Lookup(c, k)
  PROVE  /\ e.answer \in Answers \cup {NoAnswer} /\ (e.answer # NoAnswer => Good(e.answer))
         /\ e.fresh => k \in DOMAIN c /\ e.answer = c[k].answer /\ Good(e.answer)
<1>1. CASE k \in DOMAIN c
  BY <1>1 DEF Lookup, Stored, Entry
<1>2. CASE k \notin DOMAIN c
  BY <1>2 DEF Lookup, Nothing
<1> QED BY <1>1, <1>2

LEMMA PutStored ==
  ASSUME Stored(cache), NEW k \in Keys, NEW a, Good(a)
  PROVE  Stored(PutForGroup(k, a))
<1>1. CASE a.rcode \in {"NOERROR", "NXDOMAIN"}
  <2>1. PICK c : c = [x \in DOMAIN cache \cup {k} |-> IF x = k THEN [answer |-> a, fresh |-> TRUE] ELSE cache[x]]
    OBVIOUS
  <2>2. PutForGroup(k, a) = c
    BY <1>1, <2>1 DEF PutForGroup
  <2>3. DOMAIN c = DOMAIN cache \cup {k}
    BY <2>1
  <2>4. ASSUME NEW x \in DOMAIN c PROVE c[x] \in Entry /\ Good(c[x].answer)
    <3>1. CASE x = k
      <4>1. c[x] = [answer |-> a, fresh |-> TRUE]
        BY <2>1, <2>4, <2>3, <3>1
      <4> QED BY <4>1 DEF Entry, Good
    <3>2. CASE x # k
      <4>1. c[x] = cache[x] /\ x \in DOMAIN cache
        BY <2>1, <2>4, <2>3, <3>2
      <4> QED BY <4>1 DEF Stored
    <3> QED BY <3>1, <3>2
  <2> QED BY <2>2, <2>3, <2>4 DEF Stored
<1>2. CASE a.rcode \notin {"NOERROR", "NXDOMAIN"}
  BY <1>2 DEF PutForGroup
<1> QED BY <1>1, <1>2

LEMMA RemoveStored ==
  ASSUME Stored(cache), NEW k
  PROVE  Stored(RemoveForGroup(k))
BY DEF Stored, RemoveForGroup

LEMMA UpstreamGood ==
  ASSUME NEW t, NEW a \in Upstream(t)
  PROVE  Good(a) /\ a \in Answers /\ (a = Failed => a.rcode = "SERVFAIL")
<1>1. CASE a = Answer("NXDOMAIN", {}, "upstream")
  <2>1. {} \in SUBSET Contents /\ "NXDOMAIN" \in Rcodes
    BY DEF Rcodes
  <2>2. Good(a) /\ a.rcode = "NXDOMAIN"
    BY <1>1, <2>1, AnswerGood
  <2> QED BY <2>2 DEF Good, Failed, Answer
<1>2. CASE a = Failed
  <2>1. {} \in SUBSET Contents /\ "SERVFAIL" \in Rcodes
    BY DEF Rcodes
  <2>2. Good(a) /\ a.rcode = "SERVFAIL"
    BY <1>2, <2>1, AnswerGood DEF Failed
  <2> QED BY <2>2 DEF Good
<1>3. CASE \E h \in UpstreamHas(t) : a = Answer("NOERROR", h, "upstream")
  <2>1. PICK h \in UpstreamHas(t) : a = Answer("NOERROR", h, "upstream")
    BY <1>3
  <2>2. h \in SUBSET Contents /\ "NOERROR" \in Rcodes
    <3>1. h \in {{"addr"}, {"addr", "private"}, {"addr", "bogus"}, {"addr", "badalias"},
                 {"addr", "deepalias"}, {},
                 {"hint6", "ech"}, {"private"}}
      BY DEF UpstreamHas
    <3> QED BY <3>1 DEF Contents, Rcodes
  <2>3. Good(a) /\ a.rcode = "NOERROR"
    BY <2>1, <2>2, AnswerGood
  <2> QED BY <2>3 DEF Good, Failed, Answer
<1> QED BY <1>1, <1>2, <1>3 DEF Upstream

LEMMA SentSendable ==
  ASSUME Held(q), q.dir = "down", q.at > 22, NEW r, r = Sent(q)
  PROVE  /\ Turned(r) /\ Sendable(r) /\ r.attrs = q.attrs /\ r.err = q.err /\ r.at = q.at /\ r.dir = q.dir
         /\ r.stale = q.stale
<1>0. q.at \in 1 .. 26 /\ q \in Query /\ Sendable(q) /\ (q.stale # NoAnswer => Good(q.stale))
  BY DEF Held, Stacked
<1>1. PICK m : m = [name |-> q.name, type |-> q.type, ecs |-> q.ecs]
  OBVIOUS
<1>2. q.name \in Names /\ q.type \in Types
  BY OnTheWay
<1>3. m \in [name : Names, type : Types, ecs : {"none", "client", "custom"}]
  BY <1>0, <1>1, <1>2 DEF Query
<1>4. PICK t : t = q.sent \cup {m}
  OBVIOUS
<1>5. t \in SUBSET [name : Names, type : Types, ecs : {"none", "client", "custom"}]
  BY <1>0, <1>3, <1>4 DEF Query
<1>6. r = [q EXCEPT !.sent = t]
  BY <1>0, <1>1, <1>4 DEF Sent, Query
<1>7. r \in Query
  BY <1>0, <1>5, <1>6 DEF Query
<1>8. /\ Kin(q, r) /\ r.stack = q.stack /\ r.ecs = q.ecs /\ r.stale = q.stale /\ r.attrs = q.attrs
      /\ r.err = q.err /\ r.at = q.at /\ r.dir = q.dir /\ r.sent = t
  BY <1>0, <1>6 DEF Query, Kin
<1>9. /\ Cleared(q, 5) /\ Cleared(q, 8) /\ Cleared(q, 13) /\ Cleared(q, 14) /\ Cleared(q, 15) /\ Cleared(q, 16)
      /\ Cleared(q, 22) /\ q.who = q.client
  <2>1. q.at > 5 /\ q.at > 8 /\ q.at > 13 /\ q.at > 14 /\ q.at > 15 /\ q.at > 16
    BY <1>0
  <2> QED BY <2>1, OnTheWay
<1>10. r.who \notin Denied
  BY <1>8, <1>9 DEF Cleared, Kin
<1>11. /\ NameIs[m.name] \cap Special = {}
       /\ "unqualified" \in steady => "singleLabel" \notin NameIs[m.name]
       /\ "ptr" \in steady /\ m.type = "PTR" => "privateReverse" \notin NameIs[m.name]
       /\ "any" \in steady => m.type # "ANY"
       /\ "ipv6" \in steady => m.type # "AAAA"
       /\ "ecs" \in steady => m.ecs # "client"
  BY <1>1, <1>9 DEF Cleared
<1>12. Sendable(r)
  BY <1>0, <1>4, <1>8, <1>10, <1>11 DEF Sendable
<1> QED BY <1>0, <1>7, <1>8, <1>12 DEF Turned

LEMMA BogusInv == ASSUME Inv, Bogus PROVE Inv'
<1>1. q.at \in 1 .. 26
  BY DEF Bogus, Down, Inv, Held, Stacked
<1>2. q.at = 24 /\ q.dir = "down"
  BY <1>1, DownAt DEF Bogus
<1> QED BY <1>2, WrapInv, ChainFacts, DepthValues DEF Bogus, Wrappers, Cleared

LEMMA RespTurned ==
  ASSUME NEW x, Turned(x), Sendable(x), NEW a \in Answers, NEW r, r = [x EXCEPT !.resp = a]
  PROVE  Turned(r) /\ Sendable(r) /\ r.resp = a /\ r.attrs = x.attrs /\ r.err = x.err
<1>1. x \in Query
  BY DEF Turned
<1>2. r \in Query
  BY <1>1 DEF Query
<1>3. /\ r.resp = a /\ r.attrs = x.attrs /\ r.err = x.err /\ r.sent = x.sent /\ r.stack = x.stack
      /\ r.ecs = x.ecs /\ r.stale = x.stale /\ Kin(x, r)
  BY <1>1 DEF Query, Kin
<1>4. Turned(r)
  BY <1>2, <1>3 DEF Turned, Kin
<1>5. Sendable(r)
  BY <1>3 DEF Sendable, Kin
<1> QED BY <1>3, <1>4, <1>5

LEMMA FailTurned ==
  ASSUME NEW x, Turned(x), Sendable(x), NEW a \in Answers, NEW r,
         r = [x EXCEPT !.resp = a, !.err = TRUE, !.ctxErr = TRUE]
  PROVE  Turned(r) /\ Sendable(r) /\ r.resp = a /\ r.attrs = x.attrs /\ r.err
<1>1. x \in Query
  BY DEF Turned
<1>2. r \in Query
  BY <1>1 DEF Query
<1>3. /\ r.resp = a /\ r.attrs = x.attrs /\ r.sent = x.sent /\ r.stack = x.stack
      /\ r.ecs = x.ecs /\ r.stale = x.stale /\ Kin(x, r) /\ r.err
  BY <1>1 DEF Query, Kin
<1>4. Turned(r)
  BY <1>2, <1>3 DEF Turned, Kin
<1>5. Sendable(r)
  BY <1>3 DEF Sendable, Kin
<1> QED BY <1>3, <1>4, <1>5

LEMMA ClearTurned ==
  ASSUME NEW x, Turned(x), Sendable(x), NEW a \in Answers, NEW r,
         r = [x EXCEPT !.resp = a, !.err = FALSE, !.ctxErr = FALSE]
  PROVE  Turned(r) /\ Sendable(r) /\ r.resp = a /\ r.attrs = x.attrs /\ ~r.err
<1>1. x \in Query
  BY DEF Turned
<1>2. r \in Query
  BY <1>1 DEF Query
<1>3. /\ r.resp = a /\ r.attrs = x.attrs /\ r.sent = x.sent /\ r.stack = x.stack
      /\ r.ecs = x.ecs /\ r.stale = x.stale /\ Kin(x, r) /\ ~r.err
  BY <1>1 DEF Query, Kin
<1>4. Turned(r)
  BY <1>2, <1>3 DEF Turned, Kin
<1>5. Sendable(r)
  BY <1>3 DEF Sendable, Kin
<1> QED BY <1>3, <1>4, <1>5

LEMMA RouteInv == ASSUME Inv, Route PROVE Inv'
<1>1. q.at \in 1 .. 26 /\ Held(q) /\ q \in Query /\ ~q.err
  BY DEF Route, Down, Inv, Held, Stacked
<1>2. q.at = 25 /\ q.dir = "down" /\ Others
  BY <1>1, DownAt DEF Route
<1>3. PICK x : x = Sent(q)
  OBVIOUS
<1>4. /\ Turned(x) /\ Sendable(x) /\ x.attrs = q.attrs /\ x.err = q.err /\ x.at = q.at /\ x.dir = q.dir
      /\ x.stale = q.stale
  BY <1>1, <1>2, <1>3, SentSendable
<1>5. CASE Pass(q)
  BY <1>2, <1>5, PassInv DEF Cleared
<1>6. CASE Pass(Sent(q))
  <2>1. Onward(x)
    BY <1>2, <1>4 DEF Onward, Turned
  <2>2. Held(q')
    BY <1>1, <1>2, <1>3, <1>6, <2>1, PassHeld DEF Cleared
  <2> QED BY <1>2, <2>2, OthersInv
<1>7. CASE \E a \in Upstream(q.type) \ {Failed} : TurnRound([Sent(q) EXCEPT !.resp = a])
  <2>1. PICK a \in Upstream(q.type) : TurnRound([Sent(q) EXCEPT !.resp = a])
    BY <1>7
  <2>2. PICK r : r = [x EXCEPT !.resp = a]
    OBVIOUS
  <2>3. Good(a) /\ a \in Answers
    BY UpstreamGood
  <2>5. Turned(r) /\ Sendable(r) /\ r.resp = a /\ r.attrs = q.attrs /\ r.err = x.err
    BY <1>4, <2>2, <2>3, RespTurned
  <2>6. TurnRound(r)
    BY <1>3, <2>1, <2>2
  <2>7. ~r.err
    BY <1>1, <1>4, <2>5
  <2>8. Held(q')
    BY <1>1, <1>2, <2>3, <2>5, <2>6, <2>7, AnswerHeld
  <2> QED BY <1>2, <2>8, OthersInv
<1> QED BY <1>5, <1>6, <1>7 DEF Route

LEMMA ForwardInv == ASSUME Inv, Forward PROVE Inv'
<1>1. q.at \in 1 .. 26 /\ Held(q) /\ q \in Query
  BY DEF Forward, Down, Inv, Held, Stacked
<1>2. q.at = 26 /\ q.dir = "down" /\ Others
  BY <1>1, DownAt DEF Forward
<1>3. PICK x : x = Sent(q)
  OBVIOUS
<1>4. Turned(x) /\ Sendable(x) /\ x.attrs = q.attrs
  BY <1>1, <1>2, <1>3, SentSendable
<1>5. PICK a \in Upstream(q.type) :
        TurnRound([Sent(q) EXCEPT !.resp = a, !.err = (a = Failed), !.ctxErr = (a = Failed)])
  BY DEF Forward
<1>6. Good(a) /\ a \in Answers /\ (a = Failed => a.rcode = "SERVFAIL")
  BY UpstreamGood
<1>7. PICK r : TurnRound(r) /\ Turned(r) /\ Sendable(r) /\ r.resp = a /\ r.attrs = x.attrs
                /\ (r.err => a.rcode = "SERVFAIL")
  <2>1. CASE a = Failed
    <3>1. PICK r : r = [x EXCEPT !.resp = a, !.err = TRUE, !.ctxErr = TRUE]
      OBVIOUS
    <3>2. (a = Failed) = TRUE
      BY <2>1
    <3>3. TurnRound(r)
      BY <1>3, <1>5, <3>1, <3>2
    <3> QED BY <1>4, <1>6, <2>1, <3>1, <3>3, FailTurned
  <2>2. CASE a # Failed
    <3>1. PICK r : r = [x EXCEPT !.resp = a, !.err = FALSE, !.ctxErr = FALSE]
      OBVIOUS
    <3>2. (a = Failed) = FALSE
      BY <2>2
    <3>3. TurnRound(r)
      BY <1>3, <1>5, <3>1, <3>2
    <3> QED BY <1>4, <1>6, <3>1, <3>3, ClearTurned
  <2> QED BY <2>1, <2>2
<1>8. Held(q')
  BY <1>1, <1>2, <1>4, <1>6, <1>7, AnswerHeld
<1> QED BY <1>2, <1>8, OthersInv

LEMMA CacheServeHeld ==
  ASSUME Held(q), q.dir = "down", q.at = 23, NEW a, Good(a), NEW hit \in Hits, Serve(a, q.source, hit)
  PROVE  Held(q')
<1>1. PICK flags \in SUBSET Flags : flags = {}
  OBVIOUS
<1>2. PICK r : r = With(q, a, q.source, hit, flags)
  OBVIOUS
<1>3. q.source \in Sources /\ a \in Answers
  BY DEF Held, Query, Good
<1>4. Turned(r) /\ r.resp = a /\ r.attrs = q.attrs \cup flags /\ r.err = q.err /\ r.sent = q.sent
  BY <1>2, <1>3, WithTurned
<1>5. TurnRound(r) /\ r.attrs = q.attrs
  BY <1>1, <1>2, <1>4 DEF Serve
<1>6. Sendable(r)
  BY <1>4 DEF Held, Sendable, Turned, Kin
<1>7. ~r.err
  BY <1>4, OnTheWay
<1> QED BY <1>4, <1>5, <1>6, <1>7, AnswerHeld

LEMMA WaitHeld ==
  ASSUME Held(q), q.dir = "down", q.at = 23, NEW r, Onward(r), q' = [r EXCEPT !.dir = "wait"]
  PROVE  Held(q')
<1>1. r \in Query
  BY DEF Onward
<1>2. /\ q' \in Query /\ Kin(r, q') /\ q'.at = r.at /\ q'.dir = "wait" /\ q'.stack = r.stack
      /\ q'.sent = r.sent /\ q'.err = r.err /\ q'.attrs = r.attrs /\ q'.stale = r.stale /\ q'.ecs = r.ecs
  BY <1>1 DEF Query, Kin
<1>3. /\ Kin(q, q') /\ q'.at = 23 /\ q'.stack = q.stack /\ q'.err = q.err /\ q'.ecs = q.ecs
      /\ q'.attrs \subseteq q.attrs \cup {"safebrowsing_failed"} /\ (q'.stale # NoAnswer => Good(q'.stale))
  BY <1>2 DEF Onward, Kin
<1>4. \A i : Beyond(q', i) <=> Beyond(q, i)
  BY <1>2, <1>3 DEF Beyond
<1>5. Stacked(q')
  BY <1>2, <1>3, <1>4 DEF Held, Stacked
<1>6. Screened(q')
  <2> SUFFICES ASSUME NEW i \in 1 .. 26, Beyond(q', i) PROVE Cleared(q', i)
    BY DEF Screened
  <2>1. Cleared(q, i)
    BY <1>4 DEF Held, Screened
  <2> QED BY <1>3, <2>1 DEF Cleared, Filtered, Kin
<1>7. Asked(q') /\ Told(q')
  BY <1>2, <1>3 DEF Held, Asked, Told, Kin
<1>8. Sendable(q')
  BY <1>2 DEF Onward, Sendable, Kin
<1>9. ~Flagged(q') /\ ~q'.err
      /\ q'.attrs \cap {"access_blocked", "ratelimit_blocked", "rebinding_blocked"} = {}
  BY <1>3 DEF Held, Flagged
<1> QED BY <1>2, <1>3, <1>5, <1>6, <1>7, <1>8, <1>9 DEF Held

LEMMA CacheInv == ASSUME Inv, Cache PROVE Inv'
<1>1. q.at \in 1 .. 26 /\ Held(q) /\ q \in Query /\ Sendable(q) /\ ~q.err
  BY DEF Cache, Down, Inv, Held, Stacked
<1>2. q.at = 23 /\ q.dir = "down"
  BY <1>1, DownAt DEF Cache
<1>3. PICK k \in Keys : k = KeyOf(q)
  BY <1>1, <1>2, OnTheWay DEF KeyOf
<1>4. PICK e : e = Lookup(cache, k)
  OBVIOUS
<1>5. /\ e.answer \in Answers \cup {NoAnswer} /\ (e.answer # NoAnswer => Good(e.answer))
      /\ (e.fresh => Good(e.answer))
  BY <1>4, LookupFacts DEF Inv, Around
<1>6. PICK r : r = [q EXCEPT !.stale = e.answer]
  OBVIOUS
<1>7. Onward(r)
  <2>1. r \in Query
    BY <1>1, <1>5, <1>6 DEF Query
  <2>2. /\ Kin(q, r) /\ r.at = q.at /\ r.dir = q.dir /\ r.stack = q.stack /\ r.sent = q.sent /\ r.err = q.err
        /\ r.attrs = q.attrs /\ r.stale = e.answer /\ r.ecs = q.ecs
    BY <1>1, <1>6 DEF Query, Kin
  <2>3. Sendable(r)
    BY <1>1, <2>2 DEF Sendable, Kin
  <2> QED BY <1>2, <1>5, <2>1, <2>2, <2>3 DEF Onward
<1>8. CASE Pass(q) /\ Others
  BY <1>2, <1>8, PassInv DEF Cleared
<1>9. CASE e.fresh /\ Serve(e.answer, q.source, "fresh") /\ Others
  <2>1. "fresh" \in Hits
    BY DEF Hits
  <2>2. Held(q')
    BY <1>1, <1>2, <1>5, <1>9, <2>1, CacheServeHeld
  <2> QED BY <1>9, <2>2, OthersInv
<1>10. CASE /\ e.answer # NoAnswer /\ Serve(e.answer, q.source, "stale")
            /\ refresh' = IF refresh = NoRefresh THEN [key |-> k, ecs |-> q.ecs] ELSE refresh
            /\ UNCHANGED <<on, groupOf, cache, steady, sameGroup, left>>
  <2>1. "stale" \in Hits
    BY DEF Hits
  <2>2. Held(q')
    BY <1>1, <1>2, <1>5, <1>10, <2>1, CacheServeHeld
  <2>3. refresh' = NoRefresh \/ refresh'.key \in Keys
    BY <1>10 DEF Inv, Around
  <2>4. Stored(cache')
    BY <1>10 DEF Inv, Around
  <2> QED BY <1>10, <2>2, <2>3, <2>4, FrameInv
<1>11. CASE q' = [r EXCEPT !.dir = "wait"] /\ Others
  <2>1. Held(q')
    BY <1>1, <1>2, <1>7, <1>11, WaitHeld
  <2> QED BY <1>11, <2>1, OthersInv
<1>12. CASE Wrap(r) /\ Others
  <2>1. Chain[q.at] \in Wrappers /\ Depth(Chain[q.at]) = q.at
    BY <1>2, ChainFacts, DepthValues DEF Wrappers
  <2>2. Held(q')
    BY <1>1, <1>2, <1>7, <1>12, <2>1, WrapHeld DEF Cleared
  <2> QED BY <1>12, <2>2, OthersInv
<1>13. \/ Pass(q) /\ Others
       \/ e.fresh /\ Serve(e.answer, q.source, "fresh") /\ Others
       \/ /\ e.answer # NoAnswer /\ Serve(e.answer, q.source, "stale")
          /\ refresh' = IF refresh = NoRefresh THEN [key |-> k, ecs |-> q.ecs] ELSE refresh
          /\ UNCHANGED <<on, groupOf, cache, steady, sameGroup, left>>
       \/ q' = [r EXCEPT !.dir = "wait"] /\ Others
       \/ Wrap(r) /\ Others
  BY <1>3, <1>4, <1>6 DEF Cache
<1> QED BY <1>8, <1>9, <1>10, <1>11, <1>12, <1>13

(* A query that waited for a refresh leaves with what it brought.          *)
LEMMA WaitEnds ==
  ASSUME Held(q), q.dir = "wait", NEW r \in Query, q' = r, Kin(q, r), r.stack = q.stack, r.ecs = q.ecs,
         r.stale = q.stale, r.sent = q.sent, r.attrs = q.attrs, r.dir = "up",
         Good(r.resp), r.err => r.resp.rcode = "SERVFAIL"
  PROVE  Held(q')
<1>1. q.at = 23 /\ q.at > 2 /\ q.at > 5 /\ q.at > 17 /\ q.at > 19 /\ q.at > 20
  BY DEF Held, Stacked
<1>2. ~Flagged(q') /\ Marked(q')
  BY OnTheWay DEF Held, Marked, Flagged
<1>3. Sendable(q')
  BY DEF Held, Sendable, Kin
<1>4. q'.who \notin Denied /\ (Filtered(q') => "blocked" \notin NameIs[q'.name])
  <2>1. Cleared(q, 5) /\ Cleared(q, 17) /\ q.who = q.client
    BY <1>1, OnTheWay
  <2> QED BY <2>1 DEF Cleared, Filtered, Kin
<1>5. {"ede", "rebind", "filterResponse"} \subseteq OnStack(q'.stack)
  BY <1>1, OnTheWay
<1>6. Replied(q')
  BY <1>2, <1>4, <1>5 DEF Replied
<1>7. Shorter(q.stack, q'.stack)
  BY SameStack DEF Held
<1> QED BY <1>2, <1>3, <1>6, <1>7, UpHeld

LEMMA SharedHeld ==
  ASSUME Held(q), q.dir = "wait", NEW c, Stored(c), NEW t, NEW a \in Upstream(t), q' = Shared(c, a)
  PROVE  Held(q')
<1>1. q \in Query /\ q.stale \in Answers \cup {NoAnswer} /\ (q.stale # NoAnswer => Good(q.stale)) /\ ~q.err
  BY DEF Held, Query
<1>2. PICK k : k = KeyOf(q)
  OBVIOUS
<1>3. PICK e : e = Lookup(c, k)
  OBVIOUS
<1>4. e.fresh => e.answer = c[k].answer /\ Good(e.answer)
  BY <1>3, LookupFacts
<1>5. Good(a) /\ a \in Answers /\ (a = Failed => a.rcode = "SERVFAIL")
  BY UpstreamGood
<1>6. CASE e.fresh
  <2>1. PICK r : r = [q EXCEPT !.resp = e.answer, !.hit = "fresh", !.dir = "up"]
    OBVIOUS
  <2>2. q' = r
    BY <1>2, <1>3, <1>4, <1>6, <2>1 DEF Shared
  <2>3. r \in Query
    BY <1>1, <1>4, <1>6, <2>1 DEF Query, Good, Hits
  <2>4. /\ Kin(q, r) /\ r.stack = q.stack /\ r.ecs = q.ecs /\ r.stale = q.stale /\ r.sent = q.sent
        /\ r.attrs = q.attrs /\ r.dir = "up" /\ r.resp = e.answer /\ ~r.err
    BY <1>1, <2>1 DEF Query, Kin
  <2> QED BY <1>4, <1>6, <2>2, <2>3, <2>4, WaitEnds
<1>7. CASE ~e.fresh /\ Stale(q) /\ a.rcode = "SERVFAIL"
  <2>1. PICK r : r = [q EXCEPT !.resp = q.stale, !.hit = "stale_fallback", !.err = FALSE, !.ctxErr = FALSE,
                               !.dir = "up"]
    OBVIOUS
  <2>2. q' = r
    <3>1. q' = [Fallback(q) EXCEPT !.dir = "up"]
      BY <1>2, <1>3, <1>7 DEF Shared
    <3> QED BY <1>1, <2>1, <3>1 DEF Fallback, Query
  <2>3. r \in Query
    BY <1>1, <2>1 DEF Query, Hits
  <2>4. /\ Kin(q, r) /\ r.stack = q.stack /\ r.ecs = q.ecs /\ r.stale = q.stale /\ r.sent = q.sent
        /\ r.attrs = q.attrs /\ r.dir = "up" /\ r.resp = q.stale /\ ~r.err
    BY <1>1, <2>1 DEF Query, Kin
  <2> QED BY <1>1, <1>7, <2>2, <2>3, <2>4, WaitEnds DEF Stale
<1>8. CASE ~e.fresh /\ ~(Stale(q) /\ a.rcode = "SERVFAIL")
  <2>1. q' = [q EXCEPT !.resp = a, !.dir = "up", !.err = (a = Failed), !.ctxErr = (a = Failed)]
    BY <1>2, <1>3, <1>8 DEF Shared
  <2>2. CASE a = Failed
    <3>1. PICK r : r = [q EXCEPT !.resp = a, !.dir = "up", !.err = TRUE, !.ctxErr = TRUE]
      OBVIOUS
    <3>2. (a = Failed) = TRUE
      BY <2>2
    <3>3. q' = r
      BY <2>1, <3>1, <3>2
    <3>4. r \in Query
      BY <1>1, <1>5, <3>1 DEF Query
    <3>5. /\ Kin(q, r) /\ r.stack = q.stack /\ r.ecs = q.ecs /\ r.stale = q.stale /\ r.sent = q.sent
          /\ r.attrs = q.attrs /\ r.dir = "up" /\ r.resp = a
      BY <1>1, <3>1 DEF Query, Kin
    <3> QED BY <1>5, <2>2, <3>3, <3>4, <3>5, WaitEnds
  <2>3. CASE a # Failed
    <3>1. PICK r : r = [q EXCEPT !.resp = a, !.dir = "up", !.err = FALSE, !.ctxErr = FALSE]
      OBVIOUS
    <3>2. (a = Failed) = FALSE
      BY <2>3
    <3>3. q' = r
      BY <2>1, <3>1, <3>2
    <3>4. r \in Query
      BY <1>1, <1>5, <3>1 DEF Query
    <3>5. /\ Kin(q, r) /\ r.stack = q.stack /\ r.ecs = q.ecs /\ r.stale = q.stale /\ r.sent = q.sent
          /\ r.attrs = q.attrs /\ r.dir = "up" /\ r.resp = a /\ ~r.err
      BY <1>1, <3>1 DEF Query, Kin
    <3> QED BY <1>5, <3>3, <3>4, <3>5, WaitEnds
  <2> QED BY <2>2, <2>3
<1> QED BY <1>6, <1>7, <1>8

LEMMA RefreshInv == ASSUME Inv, RefreshEnds PROVE Inv'
<1>1. PICK a \in Upstream(refresh.key[2]) :
        /\ cache' = PutForGroup(refresh.key, a)
        /\ q' = IF q.dir = "wait" THEN Shared(PutForGroup(refresh.key, a), a) ELSE q
  BY DEF RefreshEnds
<1>2. PICK t, k : t = refresh.key[2] /\ k = refresh.key
  OBVIOUS
<1>3. k \in Keys /\ Stored(cache) /\ Held(q)
  BY <1>2 DEF Inv, Around, RefreshEnds
<1>4. Good(a) /\ a \in Upstream(t)
  BY <1>2, UpstreamGood
<1>5. PICK c : c = PutForGroup(k, a)
  OBVIOUS
<1>6. Stored(c) /\ cache' = c
  BY <1>1, <1>2, <1>3, <1>4, <1>5, PutStored
<1>7. Held(q')
  <2>1. CASE q.dir = "wait"
    <3>1. q' = Shared(c, a)
      BY <1>1, <1>2, <1>5, <2>1
    <3> QED BY <1>3, <1>4, <1>6, <2>1, <3>1, SharedHeld
  <2>2. CASE q.dir # "wait"
    BY <1>1, <1>3, <2>2
  <2> QED BY <2>1, <2>2
<1> QED BY <1>6, <1>7, FrameInv DEF RefreshEnds

-----------------------------------------------------------------------------
(* An answer and the wrappers S it has still to pass.                      *)
Settled(x, S) ==
  /\ Good(x.resp) /\ (x.err => x.resp.rcode = "SERVFAIL")
  /\ Flagged(x) => /\ x.resp.from \in {"block", "clean"} /\ "badalias" \notin x.resp.has
                   /\ x.resp.rcode # "SERVFAIL"
  /\ Flagged(x) /\ (\E m \in S : Depth(m) > 20) => x.resp.rcode = "NXDOMAIN"
  /\ "rebind" \notin S /\ Private(x) => ~FindBlockedIP(x.resp.has)
  /\ "filterResponse" \notin S /\ Filtered(x) /\ "filterResponse" \in steady /\ ~Local(x)
       => "badalias" \notin x.resp.has
  /\ "ede" \notin S /\ Explained(x) => (Flagged(x) <=> x.resp.ede \in {"Prohibited", "Blocked"})
  /\ x.who \in Denied => x.resp.rcode = "REFUSED"
  /\ Filtered(x) /\ "blocked" \in NameIs[x.name] => x.resp.from # "upstream"

LEMMA SettledReplied ==
  ASSUME NEW x, x.dir \in {"up", "done"}
  PROVE  Replied(x) <=> Settled(x, OnStack(x.stack))
<1>1. Beyond(x, 20) <=> \E m \in OnStack(x.stack) : Depth(m) > 20
  BY DEF Beyond
<1> QED BY <1>1 DEF Replied, Settled

LEMMA SettledAlike ==
  ASSUME NEW x, NEW y, Alike(x, y), NEW S, Settled(x, S)
  PROVE  Settled(y, S)
<1>1. /\ y.resp = x.resp /\ y.err = x.err /\ y.who = x.who /\ y.name = x.name
      /\ (Flagged(y) <=> Flagged(x)) /\ (Private(y) <=> Private(x)) /\ (Filtered(y) <=> Filtered(x))
      /\ (Local(y) <=> Local(x)) /\ (Explained(y) <=> Explained(x))
  BY DEF Alike, Kin, Flagged, Private, Filtered, Local, Explained
<1> QED BY <1>1 DEF Settled

(* The same answer to fewer wrappers.                                      *)
LEMMA SettledFewer ==
  ASSUME NEW x, NEW S, Settled(x, S), NEW T, T \subseteq S,
         "rebind" \in T \/ "rebind" \notin S, "filterResponse" \in T \/ "filterResponse" \notin S,
         "ede" \in T \/ "ede" \notin S
  PROVE  Settled(x, T)
<1>1. (\E m \in T : Depth(m) > 20) => (\E m \in S : Depth(m) > 20)
  OBVIOUS
<1> QED BY <1>1 DEF Settled

LEMMA UpFacts ==
  ASSUME Held(q), NEW w, Up(w), NEW S, S = OnStack(q.stack) \ {w}
  PROVE  /\ q.dir = "up" /\ Settled(q, OnStack(q.stack)) /\ w \in OnStack(q.stack) /\ w \in Wrappers
         /\ Front(q.stack) \in Seq(Wrappers) /\ Shorter(q.stack, Front(q.stack)) /\ OnStack(Front(q.stack)) = S
         /\ S \subseteq OnStack(q.stack) /\ \A n \in S : Depth(n) \in Nat /\ Depth(n) < Depth(w)
         /\ \A i \in 1 .. 26 : Depth(w) > i => Cleared(q, i)
         /\ Depth(w) > 2 => "ede" \in S
         /\ Depth(w) > 19 => "rebind" \in S
         /\ Depth(w) > 20 => "filterResponse" \in S
         /\ q \in Query /\ Sendable(q) /\ Marked(q) /\ Turned(q)
         /\ q.client \in Clients /\ q.who = q.client /\ q.name \in Names /\ q.type \in Types
         /\ KeyOf(q) \in Keys
<1>1. q.dir = "up" /\ Stacked(q) /\ q.stack # <<>> /\ Last(q.stack) = w
  BY DEF Held, Up
<1>2. /\ Front(q.stack) \in Seq(Wrappers) /\ Shorter(q.stack, Front(q.stack))
      /\ w \in OnStack(q.stack) /\ w \in Wrappers
      /\ OnStack(Front(q.stack)) = OnStack(q.stack) \ {w}
      /\ \A n \in OnStack(Front(q.stack)) : Depth(n) < Depth(w)
  BY <1>1, PopShorter
<1>3. Settled(q, OnStack(q.stack))
  BY <1>1, SettledReplied DEF Held
<1>4. \A i : Depth(w) > i => Beyond(q, i)
  BY <1>2 DEF Beyond
<1>5. \A i \in 1 .. 26 : Depth(w) > i => Cleared(q, i)
  BY <1>4 DEF Held, Screened
<1>6. \A m \in Always : Depth(w) > Depth(m) => m \in OnStack(q.stack)
  BY <1>1, <1>4 DEF Stacked
<1>7. /\ Depth(w) > 2 => "ede" \in S
      /\ Depth(w) > 19 => "rebind" \in S
      /\ Depth(w) > 20 => "filterResponse" \in S
  BY <1>6, DepthValues DEF Always
<1>8. S \subseteq OnStack(q.stack) /\ \A n \in S : Depth(n) \in Nat /\ Depth(n) < Depth(w)
  <2>1. \A n \in OnStack(q.stack) : n \in Wrappers
    BY <1>1 DEF Stacked, Nested, OnStack
  <2> QED BY <1>2, <2>1, DepthFacts
<1>9. q \in Query /\ Sendable(q) /\ Marked(q) /\ Turned(q)
  BY DEF Held, Marked, Turned, Kin
<1>10. q.client \in Clients /\ q.who = q.client
  BY <1>1 DEF Held, Asked
<1>11. PICK y \in Questions : q.name = y[1] /\ q.type = y[2]
  BY <1>1 DEF Held, Asked
<1>12. q.name \in Names /\ q.type \in Types
  BY <1>11, PipelineAssumption
<1>13. KeyOf(q) \in Keys
  <2>1. q.group \in Groups
    BY <1>9 DEF Query
  <2> QED BY <1>11, <2>1 DEF Keys, KeyOf
<1> QED BY <1>1, <1>2, <1>3, <1>5, <1>7, <1>8, <1>9, <1>10, <1>12, <1>13

LEMMA ClimbHeld ==
  ASSUME Held(q), NEW w, Up(w), NEW r, Turned(r), r.dir = "up", Climb(r), Sendable(r), Marked(r),
         Settled(r, OnStack(q.stack) \ {w})
  PROVE  Held(q')
<1>1. PICK S : S = OnStack(q.stack) \ {w}
  OBVIOUS
<1>2. /\ q.dir = "up" /\ Front(q.stack) \in Seq(Wrappers) /\ Shorter(q.stack, Front(q.stack))
      /\ OnStack(Front(q.stack)) = S
  BY <1>1, UpFacts
<1>3. q' \in Query /\ Alike(r, q') /\ q'.dir = "up" /\ q'.stack = Front(q.stack)
  BY <1>2, ClimbFields DEF Turned
<1>4. Kin(q, q') /\ q'.ecs = q.ecs
  BY <1>3 DEF Turned, Alike, Kin
<1>5. Replied(q')
  <2>1. Settled(r, S)
    BY <1>1
  <2>2. Settled(q', S)
    BY <1>3, <2>1, SettledAlike
  <2>3. OnStack(q'.stack) = S
    BY <1>2, <1>3
  <2> QED BY <1>3, <2>2, <2>3, SettledReplied
<1>6. Sendable(q')
  BY <1>3 DEF Alike, Kin, Sendable
<1>7. Marked(q')
  BY <1>3 DEF Alike, Marked, Flagged
<1> QED BY <1>2, <1>3, <1>4, <1>5, <1>6, <1>7, UpHeld

(* A wrapper that leaves the answer as it is.                              *)
LEMMA ClimbSame ==
  ASSUME Held(q), NEW w, Up(w), Climb(q), Settled(q, OnStack(q.stack) \ {w})
  PROVE  Held(q')
<1>1. PICK S : S = OnStack(q.stack) \ {w}
  OBVIOUS
<1>2. q.dir = "up" /\ Sendable(q) /\ Marked(q) /\ Turned(q)
  BY <1>1, UpFacts
<1> QED BY <1>2, ClimbHeld

(* One that puts an answer of its own in its place.                        *)
LEMMA ReplaceHeld ==
  ASSUME Held(q), NEW w, Up(w), NEW r, Turned(r), r.dir = "up", r.sent = q.sent, Climb(r), Flagged(r), ~q.err,
         r.err = q.err, Depth(w) > 5, Good(r.resp), r.resp.from \in {"block", "clean"},
         "badalias" \notin r.resp.has, r.resp.rcode # "SERVFAIL",
         r.resp.rcode = "NXDOMAIN" \/ Depth(w) < 21
  PROVE  Held(q')
<1>1. PICK S : S = OnStack(q.stack) \ {w}
  OBVIOUS
<1>2. /\ w \in Wrappers /\ Sendable(q) /\ \A n \in S : Depth(n) \in Nat /\ Depth(n) < Depth(w)
      /\ \A i \in 1 .. 26 : Depth(w) > i => Cleared(q, i)
      /\ (Depth(w) > 2 => "ede" \in S) /\ q.who = q.client
  BY <1>1, UpFacts
<1>3. Depth(w) \in Nat /\ Depth(w) > 2
  BY <1>2, DepthFacts
<1>4. Sendable(r)
  BY <1>2 DEF Sendable, Turned, Kin
<1>5. Marked(r)
  BY DEF Marked, Turned
<1>6. r.who \notin Denied
  BY <1>2, <1>3 DEF Cleared, Turned, Kin
<1>7. (\E m \in S : Depth(m) > 20) => r.resp.rcode = "NXDOMAIN"
  BY <1>2, <1>3
<1>8. Settled(r, S)
  BY <1>2, <1>3, <1>6, <1>7 DEF Settled, Private
<1> QED BY <1>1, <1>4, <1>5, <1>8, ClimbHeld

LEMMA BogusUpInv == ASSUME Inv, BogusUp PROVE Inv'
<1>1. Held(q) /\ Up("bogus") /\ Others /\ q \in Query
  BY DEF Inv, BogusUp, Held
<1>2. PICK S : S = OnStack(q.stack) \ {"bogus"}
  OBVIOUS
<1>3. /\ q.dir = "up" /\ Settled(q, OnStack(q.stack)) /\ {"ede", "rebind", "filterResponse"} \subseteq S
      /\ S \subseteq OnStack(q.stack)
  BY <1>1, <1>2, UpFacts, DepthValues
<1>4. CASE Climb(q)
  <2>1. Settled(q, S)
    BY <1>3, SettledFewer
  <2>2. Held(q')
    BY <1>1, <1>2, <1>4, <2>1, ClimbSame
  <2> QED BY <1>1, <2>2, OthersInv
<1>5. CASE /\ q.resp.rcode = "NOERROR"
           /\ Climb(With(q, Answer("NXDOMAIN", {}, "block"), q.source, q.hit,
                       {"filter_blocked", "bogus_nxdomain"}))
  <2>1. PICK resp : resp = Answer("NXDOMAIN", {}, "block")
    OBVIOUS
  <2>2. /\ Good(resp) /\ resp.from = "block" /\ "badalias" \notin resp.has /\ resp.rcode = "NXDOMAIN"
        /\ resp \in Answers
    BY <2>1, BlocksAre DEF Good
  <2>3. PICK flags : flags = {"filter_blocked", "bogus_nxdomain"}
    OBVIOUS
  <2>4. flags \in SUBSET Flags /\ q.source \in Sources /\ q.hit \in Hits
    BY <1>1, <2>3 DEF Flags, Query
  <2>5. PICK r : r = With(q, resp, q.source, q.hit, flags)
    OBVIOUS
  <2>6. Turned(r) /\ r.resp = resp /\ r.attrs = q.attrs \cup flags /\ r.err = q.err /\ r.sent = q.sent
    BY <1>1, <2>2, <2>4, <2>5, WithTurned
  <2>7. r.dir = "up" /\ Climb(r) /\ Flagged(r)
    BY <1>1, <1>3, <1>5, <2>1, <2>3, <2>5, <2>6 DEF With, Query, Flagged
  <2>8. ~q.err
    BY <1>3, <1>5 DEF Settled
  <2>9. Held(q')
    BY <1>1, <2>2, <2>6, <2>7, <2>8, ReplaceHeld, DepthValues
  <2> QED BY <1>1, <2>9, OthersInv
<1> QED BY <1>4, <1>5 DEF BogusUp

LEMMA CacheUpInv == ASSUME Inv, CacheUp PROVE Inv'
<1>1. Held(q) /\ Up("cache") /\ q \in Query /\ Stored(cache)
  BY DEF Inv, CacheUp, Held, Around
<1>2. PICK S : S = OnStack(q.stack) \ {"cache"}
  OBVIOUS
<1>3. /\ q.dir = "up" /\ Settled(q, OnStack(q.stack)) /\ {"ede", "rebind", "filterResponse"} \subseteq S
      /\ S \subseteq OnStack(q.stack) /\ KeyOf(q) \in Keys /\ Sendable(q) /\ Marked(q) /\ Turned(q)
      /\ Cleared(q, 5) /\ Cleared(q, 17) /\ q.who = q.client
  <2>1. \A i \in 1 .. 26 : 23 > i => Cleared(q, i)
    BY <1>1, <1>2, UpFacts, DepthValues
  <2>2. Cleared(q, 5) /\ Cleared(q, 17)
    BY <2>1
  <2> QED BY <1>1, <1>2, <2>2, UpFacts, DepthValues
<1>4. Stored(cache')
  <2>1. Good(q.resp)
    BY <1>3 DEF Settled
  <2>2. Stored(PutForGroup(KeyOf(q), q.resp))
    BY <1>1, <1>3, <2>1, PutStored
  <2> QED BY <1>1, <2>2 DEF CacheUp
<1>5. Held(q')
  <2>1. CASE Climb(q)
    <3>1. Settled(q, S)
      BY <1>3, SettledFewer
    <3> QED BY <1>1, <1>2, <2>1, <3>1, ClimbSame
  <2>2. CASE (q.err \/ q.resp.rcode = "SERVFAIL") /\ Stale(q) /\ Climb(Fallback(q))
    <3>1. PICK r : r = [q EXCEPT !.resp = q.stale, !.hit = "stale_fallback", !.err = FALSE, !.ctxErr = FALSE]
      OBVIOUS
    <3>2. Climb(r)
      BY <2>2, <3>1 DEF Fallback
    <3>3. Good(q.stale) /\ q.stale \in Answers
      BY <1>3, <2>2 DEF Marked, Stale, Good
    <3>4. r \in Query
      BY <1>1, <3>1, <3>3 DEF Query, Hits
    <3>5. /\ Kin(q, r) /\ r.stack = q.stack /\ r.ecs = q.ecs /\ r.stale = q.stale /\ r.sent = q.sent
          /\ r.attrs = q.attrs /\ r.dir = q.dir /\ r.resp = q.stale /\ ~r.err
      BY <1>1, <3>1 DEF Query, Kin
    <3>6. Turned(r) /\ Marked(r)
      BY <1>3, <3>3, <3>4, <3>5 DEF Turned, Marked, Flagged
    <3>7. Sendable(r)
      BY <1>3, <3>5 DEF Sendable, Kin
    <3>8. ~Flagged(r)
      BY <1>3, <2>2, <3>5 DEF Settled, Flagged
    <3>9. r.who \notin Denied /\ (Filtered(r) => "blocked" \notin NameIs[r.name])
      BY <1>3, <3>5 DEF Cleared, Filtered, Kin
    <3>10. Settled(r, S)
      BY <1>3, <3>3, <3>5, <3>8, <3>9 DEF Settled
    <3> QED BY <1>1, <1>2, <1>3, <3>2, <3>5, <3>6, <3>7, <3>10, ClimbHeld
  <2> QED BY <2>1, <2>2 DEF CacheUp
<1>6. refresh' = NoRefresh \/ refresh'.key \in Keys
  BY DEF Inv, Around, CacheUp
<1> QED BY <1>4, <1>5, <1>6, FrameInv DEF CacheUp

LEMMA FilterResponseUpInv == ASSUME Inv, FilterResponseUp PROVE Inv'
<1>1. Held(q) /\ Up("filterResponse") /\ q \in Query /\ Stored(cache) /\ steady \subseteq on
  BY DEF Inv, FilterResponseUp, Held, Around
<1>2. PICK S : S = OnStack(q.stack) \ {"filterResponse"}
  OBVIOUS
<1>3. /\ q.dir = "up" /\ Settled(q, OnStack(q.stack)) /\ {"ede", "rebind"} \subseteq S
      /\ S \subseteq OnStack(q.stack) /\ q.client \in Clients
  BY <1>1, <1>2, UpFacts, DepthValues
<1>4. PICK g \in Groups : g = groupOf[q.client]
  BY <1>3 DEF Inv, Around
<1>5. refresh' = NoRefresh \/ refresh'.key \in Keys
  BY DEF Inv, Around, FilterResponseUp
<1>6. CASE /\ {"filterResponse", "filter"} \subseteq on
           /\ "filter_blocked" \notin q.attrs /\ ~LocallyServed
           /\ q.resp.rcode = "NOERROR" /\ MatchResponse(q.resp, g)
  <2>1. PICK resp \in BuildBlockedResponse :
          Climb([With(q, resp, q.source, q.hit, {"filter_blocked", "response_filtered"}) EXCEPT !.group = g])
    BY <1>4, <1>6 DEF FilterResponseUp
  <2>2. /\ Good(resp) /\ resp.from = "block" /\ "badalias" \notin resp.has /\ resp.rcode # "SERVFAIL"
        /\ resp \in Answers
    BY BlockedResponses DEF Good
  <2>3. PICK flags : flags = {"filter_blocked", "response_filtered"}
    OBVIOUS
  <2>4. flags \in SUBSET Flags /\ q.source \in Sources /\ q.hit \in Hits
    BY <1>1, <2>3 DEF Flags, Query
  <2>5. PICK x : x = With(q, resp, q.source, q.hit, flags)
    OBVIOUS
  <2>6. Turned(x) /\ x.resp = resp /\ x.attrs = q.attrs \cup flags /\ x.err = q.err /\ x.sent = q.sent
    BY <1>1, <2>2, <2>4, <2>5, WithTurned
  <2>7. PICK r : r = [x EXCEPT !.group = g]
    OBVIOUS
  <2>8. Turned(r) /\ r.resp = resp /\ r.attrs = q.attrs \cup flags /\ r.err = q.err /\ r.sent = q.sent
    BY <2>6, <2>7, GroupTurned
  <2>9. Climb(r) /\ Flagged(r)
    BY <2>1, <2>3, <2>5, <2>7, <2>8 DEF Flagged
  <2>10. x.dir = "up"
    BY <1>1, <1>3, <2>5 DEF With, Query
  <2>11. r.dir = "up"
    BY <2>6, <2>7, <2>10 DEF Turned, Query
  <2>12. ~q.err
    BY <1>3, <1>6 DEF Settled
  <2>13. Held(q')
    BY <1>1, <2>2, <2>8, <2>9, <2>11, <2>12, ReplaceHeld, DepthValues
  <2>14. Stored(cache')
    BY <1>1, <1>4, <1>6, RemoveStored DEF FilterResponseUp
  <2> QED BY <1>5, <2>13, <2>14, FrameInv DEF FilterResponseUp
<1>7. CASE ~(/\ {"filterResponse", "filter"} \subseteq on
             /\ "filter_blocked" \notin q.attrs /\ ~LocallyServed
             /\ q.resp.rcode = "NOERROR" /\ MatchResponse(q.resp, g))
  <2>1. Climb(q) /\ UNCHANGED cache
    BY <1>4, <1>7 DEF FilterResponseUp
  <2>2. Filtered(q) /\ "filterResponse" \in steady /\ ~Local(q) => "badalias" \notin q.resp.has
    <3>1. SUFFICES ASSUME Filtered(q), "filterResponse" \in steady, ~Local(q), "badalias" \in q.resp.has
                   PROVE  FALSE
      OBVIOUS
    <3>2. {"filterResponse", "filter"} \subseteq on /\ ~LocallyServed /\ g \in FilteredGroups
      BY <1>1, <1>4, <3>1 DEF Filtered, Local, LocallyServed
    <3>3. "filter_blocked" \notin q.attrs /\ q.resp.rcode = "NOERROR"
      BY <1>3, <3>1 DEF Settled, Flagged, Good
    <3> QED BY <1>7, <3>1, <3>2, <3>3 DEF MatchResponse
  <2>3. (\E m \in S : Depth(m) > 20) => (\E m \in OnStack(q.stack) : Depth(m) > 20)
    BY <1>3
  <2>4. Settled(q, S)
    BY <1>3, <2>2, <2>3 DEF Settled
  <2>5. Held(q')
    BY <1>1, <1>2, <2>1, <2>4, ClimbSame
  <2>6. Stored(cache')
    BY <1>1, <2>1
  <2> QED BY <1>5, <2>5, <2>6, FrameInv DEF FilterResponseUp
<1> QED BY <1>6, <1>7

LEMMA RebindUpInv == ASSUME Inv, RebindUp PROVE Inv'
<1>1. Held(q) /\ Up("rebind") /\ q \in Query /\ Stored(cache) /\ steady \subseteq on
  BY DEF Inv, RebindUp, Held, Around
<1>2. PICK S : S = OnStack(q.stack) \ {"rebind"}
  OBVIOUS
<1>3. /\ q.dir = "up" /\ Settled(q, OnStack(q.stack)) /\ "ede" \in S
      /\ S \subseteq OnStack(q.stack)
  BY <1>1, <1>2, UpFacts, DepthValues
<1>4. "filterResponse" \in S \/ "filterResponse" \notin OnStack(q.stack)
  BY <1>2
<1>5. refresh' = NoRefresh \/ refresh'.key \in Keys
  BY DEF Inv, Around, RebindUp
<1>6. CASE /\ "rebind" \in on /\ "filter_blocked" \notin q.attrs
           /\ FindBlockedIP(q.resp.has) /\ ~NameIn("rebindAllowed")
  <2>1. PICK resp : resp = Answer("NOERROR", {}, "clean")
    OBVIOUS
  <2>2. /\ Good(resp) /\ resp.from = "clean" /\ "badalias" \notin resp.has /\ resp.rcode = "NOERROR"
        /\ resp \in Answers
    <3>1. {} \in SUBSET Contents /\ "NOERROR" \in Rcodes
      BY DEF Rcodes
    <3> QED BY <2>1, <3>1, AnswerGood
  <2>3. PICK flags : flags = {"filter_blocked", "rebinding_blocked"}
    OBVIOUS
  <2>4. flags \in SUBSET Flags /\ q.source \in Sources /\ q.hit \in Hits
    BY <1>1, <2>3 DEF Flags, Query
  <2>5. PICK r : r = With(q, resp, q.source, q.hit, flags)
    OBVIOUS
  <2>6. Turned(r) /\ r.resp = resp /\ r.attrs = q.attrs \cup flags /\ r.err = q.err /\ r.sent = q.sent
    BY <1>1, <2>2, <2>4, <2>5, WithTurned
  <2>7. Climb(r) /\ Flagged(r)
    BY <1>6, <2>1, <2>3, <2>5, <2>6 DEF RebindUp, Flagged
  <2>8. r.dir = "up"
    BY <1>1, <1>3, <2>5 DEF With, Query
  <2>9. ~q.err
    BY <1>3, <1>6 DEF Settled, Good, FindBlockedIP
  <2>10. Held(q')
    BY <1>1, <2>2, <2>6, <2>7, <2>8, <2>9, ReplaceHeld, DepthValues
  <2>11. Stored(cache')
    BY <1>1, <1>6, RemoveStored DEF RebindUp
  <2> QED BY <1>5, <2>10, <2>11, FrameInv DEF RebindUp
<1>7. CASE ~(/\ "rebind" \in on /\ "filter_blocked" \notin q.attrs
             /\ FindBlockedIP(q.resp.has) /\ ~NameIn("rebindAllowed"))
  <2>1. Climb(q) /\ UNCHANGED cache
    BY <1>7 DEF RebindUp
  <2>2. Private(q) => ~FindBlockedIP(q.resp.has)
    BY <1>1, <1>3, <1>7 DEF Private, NameIn, Settled, Flagged
  <2>3. (\E m \in S : Depth(m) > 20) => (\E m \in OnStack(q.stack) : Depth(m) > 20)
    BY <1>3
  <2>4. Settled(q, S)
    BY <1>3, <1>4, <2>2, <2>3 DEF Settled
  <2>5. Held(q')
    BY <1>1, <1>2, <2>1, <2>4, ClimbSame
  <2>6. Stored(cache')
    BY <1>1, <2>1
  <2> QED BY <1>5, <2>5, <2>6, FrameInv DEF RebindUp
<1> QED BY <1>6, <1>7

(* A wrapper that takes something out of the answer.                       *)
LEMMA TrimHeld ==
  ASSUME Held(q), NEW w, Up(w), w \in {"ipv6", "ech"}, NEW d, Climb([q EXCEPT !.resp.has = @ \ {d}])
  PROVE  Held(q')
<1>1. PICK S : S = OnStack(q.stack) \ {w}
  OBVIOUS
<1>2. /\ q.dir = "up" /\ Settled(q, OnStack(q.stack)) /\ "ede" \in S
      /\ S \subseteq OnStack(q.stack) /\ q \in Query /\ Sendable(q) /\ Marked(q) /\ Turned(q)
  BY <1>1, UpFacts, DepthValues
<1>3. q.resp \in Answers /\ Good(q.resp)
  BY <1>2 DEF Settled, Good
<1>4. PICK h : h = q.resp.has \ {d}
  OBVIOUS
<1>5. PICK a : a = [q.resp EXCEPT !.has = h]
  OBVIOUS
<1>6. /\ a \in Answers /\ a.has = h /\ a.rcode = q.resp.rcode /\ a.from = q.resp.from /\ a.ede = q.resp.ede
  BY <1>3, <1>4, <1>5 DEF Answers
<1>7. PICK r : r = [q EXCEPT !.resp = a]
  OBVIOUS
<1>8. Climb(r)
  BY <1>2, <1>3, <1>4, <1>5, <1>7 DEF Query, Answers
<1>9. Turned(r) /\ Sendable(r) /\ r.resp = a /\ r.attrs = q.attrs /\ r.err = q.err
  BY <1>2, <1>6, <1>7, RespTurned
<1>10. r.dir = "up" /\ r.source = q.source /\ r.stale = q.stale /\ Kin(q, r)
  BY <1>2, <1>7 DEF Query, Kin
<1>11. Marked(r)
  BY <1>2, <1>9, <1>10 DEF Marked, Flagged
<1>12. Good(a)
  BY <1>3, <1>4, <1>6 DEF Good
<1>13. Settled(r, S)
  <2>1. /\ (Flagged(r) <=> Flagged(q)) /\ (Private(r) <=> Private(q)) /\ (Filtered(r) <=> Filtered(q))
        /\ (Local(r) <=> Local(q)) /\ r.who = q.who /\ r.name = q.name
    BY <1>6, <1>9, <1>10 DEF Flagged, Private, Filtered, Local, Kin
  <2>2. (\E m \in S : Depth(m) > 20) => (\E m \in OnStack(q.stack) : Depth(m) > 20)
    BY <1>2
  <2>3. /\ "rebind" \in S \/ "rebind" \notin OnStack(q.stack)
        /\ "filterResponse" \in S \/ "filterResponse" \notin OnStack(q.stack)
    BY <1>1
  <2>4. h \subseteq q.resp.has /\ (FindBlockedIP(h) => FindBlockedIP(q.resp.has))
    BY <1>4 DEF FindBlockedIP
  <2> QED BY <1>2, <1>6, <1>9, <1>12, <2>1, <2>2, <2>3, <2>4 DEF Settled
<1> QED BY <1>1, <1>8, <1>9, <1>10, <1>11, <1>13, ClimbHeld

LEMMA Ipv6UpInv == ASSUME Inv, Ipv6Up PROVE Inv'
<1>1. Held(q) /\ Up("ipv6") /\ Others
  BY DEF Inv, Ipv6Up
<1>2. CASE Climb(q)
  <2>1. PICK S : S = OnStack(q.stack) \ {"ipv6"}
    OBVIOUS
  <2>2. Settled(q, OnStack(q.stack)) /\ S \subseteq OnStack(q.stack)
    BY <1>1, <2>1, UpFacts
  <2>3. Settled(q, S)
    BY <2>1, <2>2, SettledFewer
  <2>4. Held(q')
    BY <1>1, <1>2, <2>1, <2>3, ClimbSame
  <2> QED BY <1>1, <2>4, OthersInv
<1>3. CASE Climb([q EXCEPT !.resp.has = @ \ {"hint6"}])
  BY <1>1, <1>3, TrimHeld, OthersInv
<1> QED BY <1>2, <1>3 DEF Ipv6Up

LEMMA EchUpInv == ASSUME Inv, EchUp PROVE Inv'
<1>1. Held(q) /\ Up("ech") /\ Others
  BY DEF Inv, EchUp
<1>2. CASE Climb(q)
  <2>1. PICK S : S = OnStack(q.stack) \ {"ech"}
    OBVIOUS
  <2>2. Settled(q, OnStack(q.stack)) /\ S \subseteq OnStack(q.stack)
    BY <1>1, <2>1, UpFacts
  <2>3. Settled(q, S)
    BY <2>1, <2>2, SettledFewer
  <2>4. Held(q')
    BY <1>1, <1>2, <2>1, <2>3, ClimbSame
  <2> QED BY <1>1, <2>4, OthersInv
<1>3. CASE Climb([q EXCEPT !.resp.has = @ \ {"ech"}])
  BY <1>1, <1>3, TrimHeld, OthersInv
<1> QED BY <1>2, <1>3 DEF EchUp

LEMMA EdeCodes ==
  ASSUME NEW x, Marked(x)
  PROVE  EdeCode(x) \in Edes /\ (Flagged(x) <=> EdeCode(x) \in {"Prohibited", "Blocked"})
<1>1. CASE {"access_blocked", "ratelimit_blocked", "rebinding_blocked"} \cap x.attrs # {}
  <2>1. Flagged(x) /\ EdeCode(x) = "Prohibited"
    BY <1>1 DEF Marked, EdeCode, Flagged
  <2> QED BY <2>1 DEF Edes
<1>2. CASE {"access_blocked", "ratelimit_blocked", "rebinding_blocked"} \cap x.attrs = {} /\ Flagged(x)
  <2>1. EdeCode(x) = "Blocked"
    BY <1>2 DEF EdeCode, Flagged
  <2> QED BY <1>2, <2>1 DEF Edes
<1>3. CASE {"access_blocked", "ratelimit_blocked", "rebinding_blocked"} \cap x.attrs = {} /\ ~Flagged(x)
  <2>1. EdeCode(x) \in {"NetworkError", "CachedError", "none"}
    BY <1>3 DEF EdeCode, Flagged
  <2> QED BY <1>3, <2>1 DEF Edes
<1> QED BY <1>1, <1>2, <1>3

LEMMA EdeUpInv == ASSUME Inv, EdeUp PROVE Inv'
<1>1. Held(q) /\ Up("ede") /\ Others /\ steady \subseteq on
  BY DEF Inv, EdeUp, Around
<1>2. PICK S : S = OnStack(q.stack) \ {"ede"}
  OBVIOUS
<1>3. /\ q.dir = "up" /\ Settled(q, OnStack(q.stack)) /\ S \subseteq OnStack(q.stack) /\ q \in Query
      /\ Sendable(q) /\ Marked(q) /\ Turned(q)
  BY <1>1, <1>2, UpFacts
<1>4. (\E m \in S : Depth(m) > 20) => (\E m \in OnStack(q.stack) : Depth(m) > 20)
  BY <1>3
<1>5. /\ "rebind" \in S \/ "rebind" \notin OnStack(q.stack)
      /\ "filterResponse" \in S \/ "filterResponse" \notin OnStack(q.stack)
  BY <1>2
<1>6. CASE ~("ede" \in on /\ q.edns)
  <2>1. Climb(q)
    BY <1>6 DEF EdeUp
  <2>2. ~Explained(q)
    BY <1>1, <1>6 DEF Explained
  <2>3. Settled(q, S)
    BY <1>3, <1>4, <1>5, <2>2 DEF Settled
  <2>4. Held(q')
    BY <1>1, <1>2, <2>1, <2>3, ClimbSame
  <2> QED BY <1>1, <2>4, OthersInv
<1>7. CASE "ede" \in on /\ q.edns
  <2>1. PICK e \in Edes : e = EdeCode(q)
    BY <1>3, EdeCodes
  <2>2. q.resp \in Answers /\ Good(q.resp)
    BY <1>3 DEF Settled, Good
  <2>3. PICK a : a = [q.resp EXCEPT !.ede = e]
    OBVIOUS
  <2>4. /\ a \in Answers /\ a.has = q.resp.has /\ a.rcode = q.resp.rcode /\ a.from = q.resp.from /\ a.ede = e
    BY <2>2, <2>3 DEF Answers
  <2>5. PICK r : r = [q EXCEPT !.resp = a]
    OBVIOUS
  <2>6. Climb(r)
    BY <1>3, <1>7, <2>1, <2>2, <2>3, <2>5 DEF EdeUp, Query, Answers
  <2>7. Turned(r) /\ Sendable(r) /\ r.resp = a /\ r.attrs = q.attrs /\ r.err = q.err
    BY <1>3, <2>4, <2>5, RespTurned
  <2>8. r.dir = "up" /\ r.source = q.source /\ r.stale = q.stale /\ Kin(q, r)
    BY <1>3, <2>5 DEF Query, Kin
  <2>9. Marked(r)
    BY <1>3, <2>7, <2>8 DEF Marked, Flagged
  <2>10. Good(a)
    BY <2>2, <2>4 DEF Good
  <2>11. /\ (Flagged(r) <=> Flagged(q)) /\ (Private(r) <=> Private(q)) /\ (Filtered(r) <=> Filtered(q))
         /\ (Local(r) <=> Local(q)) /\ r.who = q.who /\ r.name = q.name
    BY <2>4, <2>7, <2>8 DEF Flagged, Private, Filtered, Local, Kin
  <2>12. Flagged(r) <=> a.ede \in {"Prohibited", "Blocked"}
    BY <1>3, <2>1, <2>4, <2>11, EdeCodes
  <2>13. Settled(r, S)
    BY <1>3, <1>4, <1>5, <2>4, <2>7, <2>10, <2>11, <2>12 DEF Settled
  <2>14. Held(q')
    BY <1>1, <1>2, <2>6, <2>7, <2>8, <2>9, <2>13, ClimbHeld
  <2> QED BY <1>1, <2>14, OthersInv
<1> QED BY <1>6, <1>7

LEMMA Dns64UpInv == ASSUME Inv, Dns64Up PROVE Inv'
<1>1. Held(q) /\ Up("dns64") /\ Others
  BY DEF Inv, Dns64Up
<1>2. PICK S : S = OnStack(q.stack) \ {"dns64"}
  OBVIOUS
<1>3. /\ q.dir = "up" /\ Settled(q, OnStack(q.stack)) /\ {"ede", "rebind", "filterResponse"} \subseteq S
      /\ S \subseteq OnStack(q.stack) /\ q \in Query /\ Sendable(q) /\ Marked(q) /\ Turned(q)
      /\ "dns64" \in OnStack(q.stack) /\ q.who = q.client /\ q.name \in Names
  BY <1>1, <1>2, UpFacts, DepthValues
<1>4. \A i \in 1 .. 26 : 21 > i => Cleared(q, i)
  BY <1>1, <1>2, UpFacts, DepthValues
<1>5. Cleared(q, 5) /\ Cleared(q, 8) /\ Cleared(q, 15) /\ Cleared(q, 17)
  BY <1>4
<1>6. CASE Climb(q)
  <2>1. Settled(q, S)
    BY <1>3, SettledFewer
  <2>2. Held(q')
    BY <1>1, <1>2, <1>6, <2>1, ClimbSame
  <2> QED BY <1>1, <2>2, OthersInv
<1>7. CASE ~(q.err \/ q.resp.rcode # "NOERROR" \/ "addr" \in q.resp.has)
  <2>1. PICK a \in Upstream("A") :
          Climb([q EXCEPT
            !.resp.has = IF a.rcode = "NOERROR" /\ "addr" \in a.has THEN @ \cup Synthesized(a.has) ELSE @,
            !.resp.from = "upstream",
            !.sent = @ \cup {[name |-> q.name, type |-> "A", ecs |-> "none"]}])
    BY <1>7 DEF Dns64Up
  <2>2. q.resp \in Answers /\ Good(q.resp)
    BY <1>3 DEF Settled, Good
  <2>3. PICK h : h = IF a.rcode = "NOERROR" /\ "addr" \in a.has
                       THEN q.resp.has \cup Synthesized(a.has) ELSE q.resp.has
    OBVIOUS
  <2>4. h \in SUBSET Contents
    <3>1. a.has \subseteq Contents
      BY UpstreamGood DEF Answers
    <3>2. Synthesized(a.has) \subseteq Contents
      BY <3>1 DEF Synthesized, Contents
    <3> QED BY <2>2, <2>3, <3>2 DEF Answers
  <2>5. PICK b : b = [q.resp EXCEPT !.has = h, !.from = "upstream"]
    OBVIOUS
  <2>6. b \in Answers /\ b.has = h /\ b.from = "upstream" /\ b.rcode = q.resp.rcode
    BY <2>2, <2>4, <2>5 DEF Answers
  <2>7. PICK m : m = [name |-> q.name, type |-> "A", ecs |-> "none"]
    OBVIOUS
  <2>8. PICK t : t = q.sent \cup {m}
    OBVIOUS
  <2>9. t \in SUBSET [name : Names, type : Types, ecs : {"none", "client", "custom"}]
    <3>1. m \in [name : Names, type : Types, ecs : {"none", "client", "custom"}]
      BY <1>3, <2>7 DEF Types
    <3> QED BY <1>3, <2>8, <3>1 DEF Query
  <2>10. PICK r : r = [q EXCEPT !.resp = b, !.sent = t]
    OBVIOUS
  <2>11. Climb(r)
    BY <1>3, <2>1, <2>2, <2>3, <2>5, <2>7, <2>8, <2>10 DEF Query, Answers
  <2>12. r \in Query
    BY <1>3, <2>6, <2>9, <2>10 DEF Query
  <2>13. /\ Kin(q, r) /\ r.stack = q.stack /\ r.ecs = q.ecs /\ r.stale = q.stale /\ r.attrs = q.attrs
         /\ r.dir = "up" /\ r.err = q.err /\ r.resp = b /\ r.sent = t
    BY <1>3, <2>10 DEF Query, Kin
  <2>14. Turned(r) /\ Marked(r)
    BY <1>3, <2>12, <2>13 DEF Turned, Marked, Flagged
  <2>15. ~Flagged(r)
    <3>1. \E n \in OnStack(q.stack) : Depth(n) > 20
      BY <1>3, DepthValues
    <3> QED BY <1>3, <1>7, <2>13, <3>1 DEF Settled, Flagged
  <2>16. r.who \notin Denied /\ (Filtered(r) => "blocked" \notin NameIs[r.name])
    BY <1>3, <1>5, <2>13 DEF Cleared, Filtered, Kin
  <2>17. Sendable(r)
    <3>1. /\ NameIs[m.name] \cap Special = {}
          /\ "unqualified" \in steady => "singleLabel" \notin NameIs[m.name]
          /\ m.type = "A" /\ m.ecs = "none"
      BY <1>5, <2>7 DEF Cleared
    <3>2. \A n \in r.sent : n = m \/ n \in q.sent
      BY <2>8, <2>13
    <3> QED BY <1>3, <2>16, <3>1, <3>2 DEF Sendable
  <2>18. Settled(r, S)
    BY <1>3, <1>7, <2>6, <2>13, <2>15, <2>16 DEF Settled, Good
  <2>19. Held(q')
    BY <1>1, <1>2, <2>11, <2>13, <2>14, <2>17, <2>18, ClimbHeld
  <2> QED BY <1>1, <2>19, OthersInv
<1> QED BY <1>6, <1>7 DEF Dns64Up

LEMMA MetricsUpInv == ASSUME Inv, MetricsUp PROVE Inv'
<1>1. Held(q) /\ Up("metrics") /\ Others
  BY DEF Inv, MetricsUp
<1>2. PICK S : S = OnStack(q.stack) \ {"metrics"}
  OBVIOUS
<1>3. /\ q.dir = "up" /\ Settled(q, OnStack(q.stack)) /\ q \in Query /\ Sendable(q) /\ Marked(q)
      /\ S \subseteq OnStack(q.stack) /\ \A n \in S : Depth(n) \in Nat /\ Depth(n) < 1
  BY <1>1, <1>2, UpFacts, DepthValues
<1>4. S = {}
  <2>1. \A n \in OnStack(q.stack) : n \in Wrappers
    BY <1>1 DEF Held, Stacked, Nested, OnStack
  <2>2. \A n \in S : Depth(n) >= 1
    BY <1>3, <2>1, DepthFacts
  <2> QED BY <1>3, <2>2
<1>5. Settled(q, {})
  <2>1. Settled(q, S)
    BY <1>2, <1>3, SettledFewer
  <2> QED BY <1>4, <2>1
<1>6. PICK s \in Statuses : s = Status(q)
  BY DEF Status, Statuses
<1>7. s = "blocked" <=> Flagged(q) /\ ~q.err
  BY <1>6 DEF Status, Flagged
<1>8. PICK t : t = <<>> /\ t \in Seq(Wrappers)
  <2>1. <<>> \in Seq(Wrappers)
    OBVIOUS
  <2> QED BY <2>1
<1>9. q' = [q EXCEPT !.status = s, !.dir = "done", !.stack = t]
  BY <1>6, <1>8 DEF MetricsUp
<1>10. q' \in Query
  BY <1>3, <1>8, <1>9 DEF Query
<1>11. /\ Kin(q, q') /\ q'.stack = t /\ q'.ecs = q.ecs /\ q'.stale = q.stale /\ q'.attrs = q.attrs
       /\ q'.dir = "done" /\ q'.err = q.err /\ q'.resp = q.resp /\ q'.sent = q.sent /\ q'.status = s
       /\ q'.source = q.source
  BY <1>3, <1>9 DEF Query, Kin
<1>12. OnStack(q'.stack) = {} /\ Nested(q'.stack)
  <2>1. OnStack(t) = {} /\ Nested(t)
    BY <1>8 DEF OnStack, Nested
  <2> QED BY <1>11, <2>1
<1>13. \A i : ~Beyond(q', i)
  BY <1>11, <1>12 DEF Beyond
<1>14. Stacked(q') /\ Screened(q')
  BY <1>11, <1>12, <1>13 DEF Stacked, Screened
<1>15. Replied(q')
  <2>1. /\ (Flagged(q') <=> Flagged(q)) /\ (Private(q') <=> Private(q)) /\ (Filtered(q') <=> Filtered(q))
        /\ (Local(q') <=> Local(q)) /\ (Explained(q') <=> Explained(q)) /\ q'.who = q.who /\ q'.name = q.name
    BY <1>11 DEF Flagged, Private, Filtered, Local, Explained, Kin
  <2>2. Settled(q', {})
    BY <1>5, <1>11, <2>1 DEF Settled
  <2>3. Settled(q', OnStack(q'.stack))
    BY <1>12, <2>2
  <2>4. q'.dir \in {"up", "done"}
    BY <1>11
  <2> QED BY <2>3, <2>4, SettledReplied
<1>16. Asked(q')
  BY <1>1, <1>3, <1>11 DEF Held, Asked, Kin
<1>17. Sendable(q')
  BY <1>3, <1>11 DEF Sendable, Kin
<1>18. Told(q')
  BY <1>7, <1>8, <1>11 DEF Told, Flagged
<1>19. Marked(q')
  BY <1>3, <1>11 DEF Marked, Flagged
<1>20. Held(q')
  BY <1>10, <1>11, <1>14, <1>15, <1>16, <1>17, <1>18, <1>19 DEF Held, Marked
<1> QED BY <1>1, <1>20, OthersInv

-----------------------------------------------------------------------------
(* A new query.  The address the chain decides on is the one of the        *)
(* machine that asked, whatever it wrote into the header.                  *)
LEMMA ForwardedIs ==
  ASSUME NEW c \in Clients \ Proxies, NEW h, NEW n \in Nat, n > 0, DOMAIN h = 1 .. n, h[n] = c
  PROVE  ParseForwardedFor(h) = c
<1> DEFINE U == {i \in DOMAIN h : ~Trusts(h[i])}
<1>1. n \in U /\ \A j \in U : j <= n
  BY DEF Trusts
<1>2. \A i \in U : (\A j \in U : j <= i) => i = n
  BY <1>1
<1> DEFINE last == CHOOSE i \in U : \A j \in U : j <= i
<1>3. last \in U /\ \A j \in U : j <= last
  BY <1>1
<1>4. last = n
  BY <1>2, <1>3
<1>5. U # {} /\ h[last] = c
  BY <1>1, <1>4
<1> QED BY <1>5 DEF ParseForwardedFor

(* The header a proxy wrote gives the machine it saw, an absent one gives  *)
(* nothing, and whatever they hold the address is one of those there are.  *)
LEMMA WrittenParses ==
  ASSUME NEW c \in Clients \ Proxies, NEW f \in [HeaderNames -> Forged], NEW w \in HeaderNames
  PROVE  Parse(w, Written(f, w, c)) = c
<1>1. PICK h : h = Written(f, w, c)[w]
  OBVIOUS
<1>2. f[w] \in Forged
  OBVIOUS
<1>3. CASE w = "X-Forwarded-For"
  <2>1. h = Append(f[w], c)
    BY <1>1, <1>3 DEF Written
  <2>2. PICK n \in Nat : n > 0 /\ DOMAIN h = 1 .. n /\ h[n] = c
    <3>1. CASE f[w] = <<>>
      <4>1. DOMAIN h = 1 .. 1 /\ h[1] = c
        BY <2>1, <3>1
      <4> QED BY <4>1
    <3>2. CASE \E y : f[w] = <<y>>
      <4>1. DOMAIN h = 1 .. 2 /\ h[2] = c
        BY <2>1, <3>2
      <4> QED BY <4>1
    <3> QED BY <1>2, <3>1, <3>2 DEF Forged
  <2>3. ParseForwardedFor(h) = c
    BY <2>2, ForwardedIs
  <2> QED BY <1>1, <1>3, <2>3 DEF Parse
<1>4. CASE w # "X-Forwarded-For"
  <2>1. h = <<c>>
    BY <1>1, <1>4 DEF Written
  <2> QED BY <1>1, <1>4, <2>1 DEF Parse, ParseIPHeader
<1> QED BY <1>3, <1>4

LEMMA AbsentParses == ASSUME NEW h, NEW x, h[x] = <<>> PROVE Parse(x, h) = "none"
<1>1. ParseForwardedFor(<<>>) = "none"
  BY DEF ParseForwardedFor
<1>2. ParseIPHeader(<<>>) = "none"
  BY DEF ParseIPHeader
<1> QED BY <1>1, <1>2 DEF Parse

LEMMA AddressIsKnown ==
  ASSUME NEW peer \in Clients, NEW h, NEW named PROVE RealClientIP(peer, h, named) \in Clients
<1>1. \A x : Parse(x, h) \in Clients \cup {"none"}
  BY DEF Parse, ParseForwardedFor, ParseIPHeader
<1> QED BY <1>1 DEF RealClientIP, IpFromCustomHeader, Trusts

LEMMA ClientIsTheAsker ==
  ASSUME NEW c \in Clients \ Proxies, NEW p \in Proxies, NEW f \in [HeaderNames -> Forged],
         NEW w \in HeaderNames, NEW named \in ProxyHeaders, Vouched(f, w, named)
  PROVE  RealClientIP(p, Written(f, w, c), named) = c
<1> DEFINE h == Written(f, w, c)
<1>1. Parse(w, h) = c /\ c # "none"
  BY WrittenParses, PipelineAssumption
<1>2. \A x \in HeaderNames \ {w} : h[x] = f[x]
  BY DEF Written
<1>3. \A x \in HeaderNames \ {w} : f[x] = <<>> => Parse(x, h) = "none"
  BY <1>2, AbsentParses
<1>4. named \in HeaderNames \cup {""}
  BY PipelineAssumption
<1>5. CASE w = named
  <2>1. w # ""
    BY DEF HeaderNames
  <2> QED BY <1>1, <1>5, <2>1 DEF RealClientIP, IpFromCustomHeader, Trusts
<1>6. CASE w # named /\ w = "X-Forwarded-For"
  <2>1. named = "" \/ Parse(named, h) = "none"
    BY <1>3, <1>4, <1>6 DEF Vouched, ReadBefore
  <2> QED BY <1>1, <1>6, <2>1 DEF RealClientIP, IpFromCustomHeader, Trusts
<1>7. CASE w # named /\ w # "X-Forwarded-For"
  <2>1. w = "X-Real-IP" /\ "X-Forwarded-For" \in HeaderNames
    BY <1>7 DEF Vouched, HeaderNames
  <2>2. \A x \in {named, "X-Forwarded-For"} \ {""} : f[x] = <<>>
    BY <1>7 DEF Vouched, ReadBefore
  <2>3. named = "" \/ Parse(named, h) = "none"
    BY <1>3, <1>4, <1>7, <2>2
  <2>4. Parse("X-Forwarded-For", h) = "none"
    BY <1>3, <1>7, <2>1, <2>2
  <2> QED BY <1>1, <2>1, <2>3, <2>4 DEF RealClientIP, IpFromCustomHeader, Trusts
<1> QED BY <1>5, <1>6, <1>7

LEMMA ArrivalIsTheAsker ==
  ASSUME NEW c \in Clients \ Proxies, NEW arrival \in Arrivals[c]
  PROVE  arrival.client \in Clients /\ arrival.who = arrival.client
<1>1. CASE \E f \in [HeaderNames -> Forged], named \in ProxyHeaders :
             arrival = Seen(RealClientIP(c, f, named), c)
  BY <1>1 DEF RealClientIP, Seen, Trusts
<1>2. CASE \E p \in Proxies, f \in [HeaderNames -> Forged], w \in HeaderNames, named \in ProxyHeaders :
             arrival = LET ip == RealClientIP(p, Written(f, w, c), named)
                       IN  Seen(ip, IF Vouched(f, w, named) THEN c ELSE ip)
  <2>1. PICK p \in Proxies, f \in [HeaderNames -> Forged], w \in HeaderNames, named \in ProxyHeaders :
             arrival = LET ip == RealClientIP(p, Written(f, w, c), named)
                       IN  Seen(ip, IF Vouched(f, w, named) THEN c ELSE ip)
    BY <1>2
  <2>2. PICK ip : ip = RealClientIP(p, Written(f, w, c), named)
    OBVIOUS
  <2>3. ip \in Clients
    BY <2>2, AddressIsKnown, PipelineAssumption
  <2>4. Vouched(f, w, named) => ip = c
    BY <2>2, ClientIsTheAsker
  <2> QED BY <2>1, <2>2, <2>3, <2>4 DEF Seen
<1> QED BY <1>1, <1>2 DEF Arrivals

LEMMA NewQueryInv == ASSUME Inv, NewQuery PROVE Inv'
<1>0. PICK d \in Clients \ Proxies, x \in Questions :
        \E arrival \in Arrivals[d] :
         q' = [NoQuery EXCEPT
                 !.who = arrival.who, !.client = arrival.client,
                 !.name = x[1], !.type = x[2], !.edns = x[3],
                 !.ecs = IF x[3] THEN "client" ELSE "none",
                 !.at = 1, !.dir = "down"]
  BY DEF NewQuery
<1>1. PICK arrival \in Arrivals[d] :
         q' = [NoQuery EXCEPT
                 !.who = arrival.who, !.client = arrival.client,
                 !.name = x[1], !.type = x[2], !.edns = x[3],
                 !.ecs = IF x[3] THEN "client" ELSE "none",
                 !.at = 1, !.dir = "down"]
  BY <1>0
<1>2. PICK c \in Clients : arrival.client = c /\ arrival.who = c
  BY ArrivalIsTheAsker
<1>3. PICK n, t, b, e : n = x[1] /\ t = x[2] /\ b = x[3] /\ e = IF x[3] THEN "client" ELSE "none"
  OBVIOUS
<1>4. n \in Names /\ t \in Types /\ b \in BOOLEAN /\ e \in {"none", "client", "custom"}
  BY <1>3, PipelineAssumption
<1>5. q' = [client |-> c, who |-> c, name |-> n, type |-> t,
            edns |-> b, ecs |-> e, group |-> Default, at |-> 1, stack |-> <<>>,
            dir |-> "down", resp |-> NoAnswer, err |-> FALSE, ctxErr |-> FALSE, attrs |-> {},
            source |-> "none", hit |-> "none", stale |-> NoAnswer, sent |-> {},
            status |-> "none"]
  BY <1>1, <1>2, <1>3 DEF NoQuery
<1>6. PICK s : s = <<>> /\ s \in Seq(Wrappers)
  <2>1. <<>> \in Seq(Wrappers)
    OBVIOUS
  <2> QED BY <2>1
<1>7. q' \in Query
  BY <1>4, <1>5, <1>6, PipelineAssumption DEF Query, Sources, Hits, Statuses
<1>8. /\ q'.client = c /\ q'.who = c /\ q'.name = n /\ q'.type = t /\ q'.at = 1 /\ q'.stack = s
      /\ q'.dir = "down" /\ ~q'.err /\ q'.attrs = {} /\ q'.stale = NoAnswer /\ q'.sent = {}
  BY <1>5, <1>6
<1>9. OnStack(q'.stack) = {} /\ Nested(q'.stack)
  <2>1. OnStack(s) = {} /\ Nested(s)
    BY <1>6 DEF OnStack, Nested
  <2> QED BY <1>8, <2>1
<1>10. \A i \in 1 .. 26 : ~Beyond(q', i)
  BY <1>8, <1>9 DEF Beyond
<1>11. \A m \in Always : Depth(m) \in 1 .. 26
  BY DepthValues DEF Always
<1>12. Stacked(q') /\ Screened(q')
  BY <1>8, <1>9, <1>10, <1>11 DEF Stacked, Screened
<1>13. Asked(q') /\ Told(q')
  BY <1>3, <1>8 DEF Asked, Told
<1>14. Stacked(q)' /\ Screened(q)' /\ Asked(q)' /\ Told(q)'
  BY <1>10, <1>12, <1>13 DEF Stacked, Screened, Beyond, Nested, OnStack, Asked, Told, Flagged
<1>15. Sendable(q)'
  BY <1>8 DEF Sendable
<1>16. Held(q)'
  BY <1>7, <1>8, <1>14, <1>15 DEF Held, Flagged
<1>17. Around'
  BY DEF Inv, Around, NewQuery, Stored, Good
<1> QED BY <1>16, <1>17 DEF Inv

(* What happens beside the query.                                          *)
LEMMA ToggleInv == ASSUME Inv, NEW f \in Switches, Toggle(f) PROVE Inv'
<1>1. Held(q') /\ Weaker
  BY DEF Inv, Toggle, Weaker
<1>2. Held(q)'
  BY <1>1, HeldWeaker
<1>3. f \in Features
  BY PipelineAssumption
<1>4. on' \subseteq Features /\ steady' \subseteq on'
  BY <1>3 DEF Inv, Around, Toggle
<1>5. Around'
  BY <1>4 DEF Inv, Around, Toggle, Stored, Good
<1> QED BY <1>2, <1>5 DEF Inv

LEMMA RegroupInv == ASSUME Inv, NEW c \in Movers, NEW g \in Groups, Regroup(c, g) PROVE Inv'
<1>1. Held(q') /\ Weaker
  BY DEF Inv, Regroup, Weaker
<1>2. Held(q)'
  BY <1>1, HeldWeaker
<1>3. groupOf' \in [Clients -> Groups]
  BY DEF Inv, Around, Regroup
<1>4. Around'
  BY <1>3 DEF Inv, Around, Regroup, Stored, Good
<1> QED BY <1>2, <1>4 DEF Inv

LEMMA ExpireInv == ASSUME Inv, NEW k \in DOMAIN cache, Expire(k) PROVE Inv'
<1>1. Held(q') /\ Weaker
  BY DEF Inv, Expire, Weaker
<1>2. Held(q)'
  BY <1>1, HeldWeaker
<1>3. Stored(cache')
  <2>1. CASE cache[k].fresh
    <3>1. PICK e : e = [cache[k] EXCEPT !.fresh = FALSE]
      OBVIOUS
    <3>2. cache' = [cache EXCEPT ![k] = e]
      BY <2>1, <3>1 DEF Expire
    <3>3. e \in Entry /\ e.answer = cache[k].answer
      BY <3>1 DEF Inv, Around, Stored, Entry
    <3>4. Stored(cache)
      BY DEF Inv, Around
    <3> QED BY <3>2, <3>3, <3>4 DEF Stored
  <2>2. CASE ~cache[k].fresh
    BY <2>2, RemoveStored DEF Inv, Around, Expire
  <2> QED BY <2>1, <2>2
<1>4. Around'
  BY <1>3 DEF Inv, Around, Expire, Stored, Good
<1> QED BY <1>2, <1>4 DEF Inv

-----------------------------------------------------------------------------
LEMMA InitInv == Init => Inv
<1> SUFFICES ASSUME Init PROVE Inv
  OBVIOUS
<1>1. PICK x \in FirstCached :
        cache = [k \in {x[1]} |-> [answer |-> Answer("NOERROR", x[2], "upstream"), fresh |-> TRUE]]
  BY DEF Init
<1>2. Stored(cache)
  <2>1. x[1] \in Keys /\ x[2] \in SUBSET Contents /\ "NOERROR" \in Rcodes
    BY PipelineAssumption DEF Rcodes
  <2>2. PICK a : a = Answer("NOERROR", x[2], "upstream")
    OBVIOUS
  <2>3. a \in Answers /\ Good(a)
    BY <2>1, <2>2, AnswerGood
  <2>4. DOMAIN cache = {x[1]} /\ cache[x[1]] = [answer |-> a, fresh |-> TRUE]
    BY <1>1, <2>2
  <2>5. [answer |-> a, fresh |-> TRUE] \in Entry /\ [answer |-> a, fresh |-> TRUE].answer = a
    BY <2>3 DEF Entry
  <2>6. \A k \in DOMAIN cache : cache[k] \in Entry /\ Good(cache[k].answer)
    BY <2>3, <2>4, <2>5
  <2>7. DOMAIN cache \subseteq Keys
    BY <2>1, <2>4
  <2> QED BY <2>6, <2>7 DEF Stored
<1>3. Around
  BY <1>2, PipelineAssumption DEF Init, Around
<1>4. PICK s : s = <<>> /\ s \in Seq(Wrappers)
  <2>1. <<>> \in Seq(Wrappers)
    OBVIOUS
  <2> QED BY <2>1
<1>5. q \in Query
  BY <1>4, PipelineAssumption DEF Init, NoQuery, Query, Sources, Hits, Statuses
<1>6. /\ q.stack = s /\ q.dir = "idle" /\ ~q.err /\ q.attrs = {} /\ q.stale = NoAnswer /\ q.sent = {}
  BY <1>4 DEF Init, NoQuery
<1>7. OnStack(q.stack) = {} /\ Nested(q.stack)
  <2>1. OnStack(s) = {} /\ Nested(s)
    BY <1>4 DEF OnStack, Nested
  <2> QED BY <1>6, <2>1
<1>8. \A i : ~Beyond(q, i)
  BY <1>6, <1>7 DEF Beyond
<1>9. Stacked(q) /\ Screened(q) /\ Asked(q) /\ Told(q) /\ Sendable(q)
  BY <1>6, <1>7, <1>8 DEF Stacked, Screened, Asked, Told, Sendable
<1> QED BY <1>3, <1>5, <1>6, <1>9 DEF Inv, Held, Flagged

LEMMA StepInv == ASSUME Inv, Step PROVE Inv'
BY MetricsInv, EdeInv, EchInv, ClientInv, AccessInv, RateLimitInv, DdrInv, SudnInv, ZoneInv, HostsInv,
   RewriteInv, SafeSearchInv, Ipv6Inv, PrivatePTRInv, UnqualifiedInv, AnyQueryInv, FilterInv, SafeBrowsingInv,
   RebindInv, FilterResponseInv, Dns64Inv, EcsInv, CacheInv, BogusInv, RouteInv, ForwardInv, CacheUpInv,
   BogusUpInv, Dns64UpInv, FilterResponseUpInv, RebindUpInv, Ipv6UpInv, EchUpInv, EdeUpInv, MetricsUpInv
   DEF Step

LEMMA NextInv == Inv /\ [Next]_vars => Inv'
<1> SUFFICES ASSUME Inv, [Next]_vars PROVE Inv'
  OBVIOUS
<1>1. CASE NewQuery
  BY <1>1, NewQueryInv
<1>2. CASE Step
  BY <1>2, StepInv
<1>3. CASE RefreshEnds
  BY <1>3, RefreshInv
<1>4. CASE \E f \in Switches : Toggle(f)
  BY <1>4, ToggleInv
<1>5. CASE \E c \in Movers, g \in Groups : Regroup(c, g)
  BY <1>5, RegroupInv
<1>6. CASE \E k \in DOMAIN cache : Expire(k)
  BY <1>6, ExpireInv
<1>7. CASE UNCHANGED vars
  <2>1. Held(q') /\ Weaker
    BY <1>7 DEF vars, Inv, Weaker
  <2>2. Held(q)'
    BY <2>1, HeldWeaker
  <2>3. Around'
    BY <1>7 DEF vars, Inv, Around, Stored, Good
  <2> QED BY <2>2, <2>3 DEF Inv
<1> QED BY <1>1, <1>2, <1>3, <1>4, <1>5, <1>6, <1>7 DEF Next

LEMMA AlwaysInv == Spec => []Inv
BY InitInv, NextInv, PTL DEF Spec

(* What is delivered has passed every wrapper.                             *)
LEMMA Delivered ==
  ASSUME Inv, Done
  PROVE  Settled(q, {}) /\ q.who = q.client /\ Told(q) /\ Sendable(q)
<1>1. q.stack = <<>> /\ q.dir \in {"up", "done"} /\ Replied(q) /\ Told(q) /\ Sendable(q) /\ q.who = q.client
  BY DEF Inv, Held, Told, Done, Asked
<1>2. Settled(q, OnStack(q.stack))
  BY <1>1, SettledReplied
<1>3. OnStack(q.stack) = {}
  <2>1. PICK s : s = q.stack
    OBVIOUS
  <2>2. s = <<>>
    BY <1>1, <2>1
  <2>3. OnStack(s) = {}
    BY <2>2 DEF OnStack
  <2> QED BY <2>1, <2>3
<1> QED BY <1>1, <1>2, <1>3

(* With rebinding protection on while the query is inside the chain, no    *)
(* private address of an upstream is delivered: not from the cache, not by *)
(* a refresh, not inside a synthesized address, for any names, groups,     *)
(* configurations and changes of them.                                     *)
THEOREM NoPrivateAddressComesThrough == Spec => []NoPrivateAddress
<1>1. Inv => NoPrivateAddress
  <2> SUFFICES ASSUME Inv, Done, "rebind" \in steady, Upstreamed, ~NameIn("rebindAllowed")
               PROVE  ~FindBlockedIP(q.resp.has)
    BY DEF NoPrivateAddress
  <2>1. Settled(q, {})
    BY Delivered
  <2>2. Private(q)
    BY DEF Private, Upstreamed, NameIn
  <2> QED BY <2>1, <2>2 DEF Settled
<1> QED BY <1>1, AlwaysInv, PTL

(* Names, types and subnets that must stay on this machine are sent to no  *)
(* upstream by any path through the chain: not by the cache, the group's   *)
(* own upstreams, the default ones, nor the address query of DNS64.        *)
THEOREM NothingLeaks == Spec => []NoLeak
<1>1. Inv => TypeOK
  <2> SUFFICES ASSUME Inv PROVE TypeOK
    OBVIOUS
  <2>1. /\ on \subseteq Features /\ steady \subseteq Features /\ sameGroup \in BOOLEAN
        /\ groupOf \in [Clients -> Groups]
        /\ DOMAIN cache \subseteq Keys /\ \A k \in DOMAIN cache : cache[k].answer \in Answers
        /\ refresh = NoRefresh \/ refresh.key \in Keys
    BY DEF Inv, Around, Stored, Good
  <2>2. q.dir \in {"idle", "down", "wait", "up", "done"}
    BY DEF Inv, Held, Query
  <2>3. q.dir \in {"up", "done"} => q.resp \in Answers
    BY DEF Inv, Held, Replied, Good
  <2> QED BY <2>1, <2>2, <2>3 DEF TypeOK
<1>2. Inv => NoLeak
  <2>1. ASSUME Inv PROVE Sendable(q)
    BY <2>1 DEF Inv, Held
  <2> QED BY <1>1, <2>1 DEF NoLeak, Sendable, Special
<1> QED BY <1>2, AlwaysInv, PTL

(* A refused client is refused whatever it writes into the forwarding      *)
(* header and sends nothing upstream; a blocked name, or an alias to one,  *)
(* is not answered from an upstream while the filter stays on, whoever     *)
(* filled the cache; and the extended error says what the log says.        *)
THEOREM PolicyAlwaysHolds == Spec => []PolicyHolds
<1>1. ASSUME Inv PROVE DeniedIsRefused
  <2> SUFFICES ASSUME Done, q.who \in Denied PROVE q.resp.rcode = "REFUSED" /\ q.sent = {}
    BY DEF DeniedIsRefused
  <2> QED BY <1>1, Delivered DEF Settled, Sendable
<1>2. ASSUME Inv PROVE FilterHolds
  <2> SUFFICES ASSUME Done, sameGroup, "filter" \in steady, groupOf[q.client] \in FilteredGroups
               PROVE  /\ NameIn("blocked") => ~Upstreamed
                      /\ "filterResponse" \in steady /\ ~LocallyServed => "badalias" \notin q.resp.has
    BY DEF FilterHolds
  <2>1. Settled(q, {}) /\ Filtered(q)
    BY <1>2, Delivered DEF Filtered
  <2> QED BY <2>1 DEF Settled, NameIn, Upstreamed, Local, LocallyServed
<1>3. ASSUME Inv PROVE BlockedIsExplained
  <2> SUFFICES ASSUME Done, q.edns, "ede" \in steady
               PROVE  (q.status = "blocked") = (q.resp.ede \in {"Prohibited", "Blocked"})
    BY DEF BlockedIsExplained
  <2>1. Settled(q, {}) /\ Explained(q) /\ Told(q)
    BY <1>3, Delivered DEF Explained
  <2>2. q.status = "blocked" <=> Flagged(q) /\ ~q.err
    BY <2>1 DEF Told, Done
  <2>3. Flagged(q) <=> q.resp.ede \in {"Prohibited", "Blocked"}
    BY <2>1 DEF Settled
  <2>4. Flagged(q) => ~q.err
    BY <2>1 DEF Settled
  <2> QED BY <2>2, <2>3, <2>4
<1>4. Inv => PolicyHolds
  BY <1>1, <1>2, <1>3 DEF PolicyHolds
<1> QED BY <1>4, AlwaysInv, PTL

=============================================================================
