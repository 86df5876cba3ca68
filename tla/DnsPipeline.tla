---------------------------- MODULE DnsPipeline ----------------------------
(***************************************************************************)
(* The middleware pipeline of the DNS server (internal/dns, assembled by   *)
(* cmd/service/controller_pipeline.go).  A query goes down the chain, one  *)
(* action per middleware; a middleware that answers turns it round, and    *)
(* the ones that wrapped it act on the answer on the way up, last first.   *)
(* The configuration and the client groups may change while a query is     *)
(* inside the chain, and a stale answer starts a refresh in the background.*)
(*                                                                         *)
(* A name is what the engines behind the chain know of it (NameIs); an     *)
(* answer is its rcode and which of the contents the chain looks for it    *)
(* carries.  The engines themselves are the subject of other modules.      *)
(***************************************************************************)
EXTENDS Naturals, Sequences, FiniteSets, SequencesExt

CONSTANTS
  Clients, Denied,    \* addresses, and those access control refuses
  Proxies,            \* the trusted reverse proxies of the DoH entry
  ProxyHeaders,       \* the header a user may have named for them ("": none)
  Groups, Default,    \* client groups
  FilteredGroups,     \* the groups the block lists apply to
  RoutedGroups,       \* the groups with upstreams of their own
  Names, NameIs,      \* names, and the set of tags of each
  Questions,          \* what is asked: <<name, type, whether EDNS is used>>
  Switches, Movers,   \* the features a user may switch and the clients he may
                      \* move to another group while queries run
  FirstConfigs,       \* the configurations the service may start with
  FirstGroups,        \* the groups clients may have at first
  FirstCached,        \* the keys and contents of upstream answers the cache may
                      \* hold at first (it is kept on disk over a restart)
  EcsMode,            \* "strip" or "custom"
  WellKnownPrefix,    \* DNS64 synthesizes under 64:ff9b::/96
  MaxQueries, MaxChanges, MaxExpiries   \* bounds

Features == {"ede", "ech", "ratelimit", "ddr", "zone", "rewrite", "safesearch", "ipv6",
             "ptr", "unqualified", "any", "filter", "safebrowsing", "rebind",
             "filterResponse", "dns64", "ecs", "cache", "optimistic", "bogus"}
Types == {"A", "AAAA", "HTTPS", "SVCB", "PTR", "ANY", "MX"}
Tags  == {"localhost", "special", "resolverArpa", "ddrName", "zone", "hosts", "rewrite",
          "safesearch", "privateReverse", "singleLabel", "blocked", "serviceOff",
          "dnsrewrite", "malicious", "rebindAllowed", "cacheExcluded"}

(* What the chain looks for in an answer: an address, a private one, one   *)
(* of the bogus addresses, an alias to a blocked name among the first      *)
(* MaxResponseAliasDepth names of the answer or further down, the address  *)
(* hints and the ECH keys of an HTTPS record, a private address inside a   *)
(* synthesized one.                                                        *)
Contents == {"addr", "private", "bogus", "badalias", "deepalias", "hint6", "ech", "embedded"}

HeaderNames == {"X-Forwarded-For", "X-Real-IP", "CF-Connecting-IP"}

Keys == {<<x[1], x[2], g>> : x \in Questions, g \in Groups}

\* A rule engine gives one verdict on a name: block, rewrite, or a block that
\* its service's schedule suspends.
ASSUME PipelineAssumption ==
  /\ Denied \subseteq Clients /\ Proxies \subseteq Clients /\ "none" \notin Clients
  /\ ProxyHeaders \subseteq HeaderNames \cup {""}
  /\ Default \in Groups /\ FilteredGroups \subseteq Groups /\ RoutedGroups \subseteq Groups
  /\ NameIs \in [Names -> SUBSET Tags] /\ Questions \subseteq Names \X Types \X BOOLEAN
  /\ \A n \in Names, s, t \in {"blocked", "serviceOff", "dnsrewrite"} :
       s \in NameIs[n] /\ t \in NameIs[n] => s = t
  /\ \A x \in FirstCached : x[1] \in Keys /\ x[2] \subseteq Contents
  /\ FirstGroups \subseteq [Clients -> Groups]
  /\ Switches \subseteq Features /\ Movers \subseteq Clients /\ FirstConfigs \subseteq SUBSET Features
  /\ EcsMode \in {"strip", "custom"} /\ WellKnownPrefix \in BOOLEAN
  /\ MaxQueries \in Nat /\ MaxChanges \in Nat /\ MaxExpiries \in Nat

VARIABLES
  on,        \* the features switched on
  groupOf,   \* the client groups (p.groupResolver)
  cache,     \* the answer cache, by name, type and group
  q,         \* the query inside the chain, or NoQuery
  refresh,   \* the background refresh under way, or NoRefresh
  steady,    \* history: the features on ever since the query came in
  sameGroup, \* history: no group changed since the query came in
  left       \* what is left of the bounds

vars == <<on, groupOf, cache, q, refresh, steady, sameGroup, left>>

-----------------------------------------------------------------------------
(* Answers.  "from" is who made the answer, "has" what it carries.         *)
Rcodes   == {"NOERROR", "NXDOMAIN", "SERVFAIL", "REFUSED", "NOTIMP"}
Edes     == {"none", "Prohibited", "Blocked", "NetworkError", "CachedError"}
Answer(rc, h, f) == [rcode |-> rc, has |-> h, from |-> f, ede |-> "none"]
NoAnswer == Answer("none", {}, "nobody")
(* Mutant: a failed exchange leaves the query without an answer.           *)
MutFailed == NoAnswer

Failed   == Answer("SERVFAIL", {}, "forward")
Answers  == [rcode : Rcodes, has : SUBSET Contents,
             from : {"local", "block", "upstream", "clean", "forward"}, ede : Edes]

(* What an upstream may answer to a question of this type.                 *)
UpstreamHas(t) ==
  CASE t = "A"     -> {{"addr"}, {"addr", "private"}, {"addr", "bogus"}, {"addr", "badalias"},
                         {"addr", "deepalias"}}
    [] t = "AAAA"  -> {{}, {"addr", "private"}}
    [] t = "HTTPS" -> {{"hint6", "ech"}, {"private"}}
    [] OTHER       -> {{}}
Upstream(t) == {Answer("NOERROR", h, "upstream") : h \in UpstreamHas(t)}
                 \cup {Answer("NXDOMAIN", {}, "upstream"), Failed}

Nothing == [answer |-> NoAnswer, fresh |-> FALSE]

NoQuery == [client |-> Default, who |-> Default, name |-> "none", type |-> "none",
            edns |-> FALSE, ecs |-> "none", group |-> Default, at |-> 0, stack |-> <<>>,
            dir |-> "idle", resp |-> NoAnswer, err |-> FALSE, ctxErr |-> FALSE, attrs |-> {},
            source |-> "none", hit |-> "none", stale |-> NoAnswer, sent |-> {},
            status |-> "none"]
NoRefresh == [key |-> <<>>, ecs |-> "none"]
NameIn(tag) == tag \in NameIs[q.name]

-----------------------------------------------------------------------------
(* The order of the chain (buildPipeline).                                 *)
(* Mutant: responses are checked below the cache.                          *)
MutChain == <<"metrics", "ede", "ech", "client", "access", "ratelimit", "ddr", "sudn",
              "zone", "hosts", "rewrite", "safesearch", "ipv6", "privatePTR", "unqualified",
              "any", "filter", "safebrowsing", "rebind", "dns64", "ecs",
              "cache", "filterResponse", "bogus", "route", "forward">>

Chain == <<"metrics", "ede", "ech", "client", "access", "ratelimit", "ddr", "sudn",
           "zone", "hosts", "rewrite", "safesearch", "ipv6", "privatePTR", "unqualified",
           "any", "filter", "safebrowsing", "rebind", "filterResponse", "dns64", "ecs",
           "cache", "bogus", "route", "forward">>

Down(m) == q.dir = "down" /\ Chain[q.at] = m
Up(m)   == q.dir = "up" /\ q.stack # <<>> /\ Last(q.stack) = m

(* next(): hand the query r on, or hand it on and wait for it to return.   *)
Pass(r) == q' = [r EXCEPT !.at = @ + 1]
Wrap(r) == q' = [r EXCEPT !.at = @ + 1, !.stack = Append(@, Chain[r.at])]
(* Return without calling next(), or return to the wrapper above.          *)
TurnRound(r) == q' = [r EXCEPT !.dir = "up", !.at = 0]
Climb(r)     == q' = [r EXCEPT !.stack = Front(@)]

With(r, resp, src, hit, attrs) ==
  [r EXCEPT !.resp = resp, !.source = src, !.hit = hit, !.attrs = @ \cup attrs]
Serve(resp, src, hit) == TurnRound(With(q, resp, src, hit, {}))
Block(resp, flags)    == TurnRound(With(q, resp, q.source, q.hit, flags \cup {"filter_blocked"}))
Set(flags, r) == [r EXCEPT !.attrs = @ \cup flags]

Others == UNCHANGED <<on, groupOf, cache, refresh, steady, sameGroup, left>>
-----------------------------------------------------------------------------
(* The client address of a DoH query (realip.go).  The headers are read    *)
(* only when the peer is a trusted proxy: first the one the user named,    *)
(* then X-Forwarded-For, then X-Real-IP; the first that gives an address   *)
(* decides.  A header is the sequence of its parts, <<>> when it is not    *)
(* there.  X-Forwarded-For is read from the right, up to the first address *)
(* that is not trusted; a part that is no address voids it.                *)
Trusts(ip) == ip \in Proxies

ParseForwardedFor(header) ==
  LET untrusted == {i \in DOMAIN header : ~Trusts(header[i])}
      last      == CHOOSE i \in untrusted : \A j \in untrusted : j <= i
  IN  IF untrusted = {} \/ header[last] \notin Clients THEN "none" ELSE header[last]

ParseIPHeader(header) ==
  IF Len(header) = 1 /\ header[1] \in Clients THEN header[1] ELSE "none"

Parse(name, h) ==
  IF name = "X-Forwarded-For" THEN ParseForwardedFor(h[name]) ELSE ParseIPHeader(h[name])

IpFromCustomHeader(named, h) == IF named = "" THEN "none" ELSE Parse(named, h)

(* Mutant: the leftmost address is taken.                                  *)
MutRealClientIP(peer, h, named) ==
  LET forwarded == h["X-Forwarded-For"]
  IN  IF peer \in Proxies /\ forwarded # <<>> /\ Head(forwarded) \in Clients
        THEN Head(forwarded) ELSE peer

RealClientIP(peer, h, named) ==
  LET custom    == IpFromCustomHeader(named, h)
      forwarded == Parse("X-Forwarded-For", h)
      real      == Parse("X-Real-IP", h)
  IN  IF ~Trusts(peer)            THEN peer
      ELSE IF custom # "none"     THEN custom
      ELSE IF forwarded # "none"  THEN forwarded
      ELSE IF real # "none"       THEN real
      ELSE peer

(* What reaches the server from client c: directly, or through a proxy,    *)
(* which writes the address it sees into one header (it appends to         *)
(* X-Forwarded-For and replaces another) and hands on the others, where    *)
(* the client may have put anything.                                       *)
Forged == {<<>>, <<"junk">>} \cup {<<x>> : x \in Clients}
Written(f, w, c) == [f EXCEPT ![w] = IF w = "X-Forwarded-For" THEN Append(@, c) ELSE <<c>>]

(* The headers that are read before header w, with this one named.  A      *)
(* proxy that writes w vouches for the client if w is read at all and the  *)
(* client sent none of those.                                              *)
ReadBefore(w, named) ==
  CASE w = named             -> {}
    [] w = "X-Forwarded-For" -> {named} \ {""}
    [] OTHER                 -> {named, "X-Forwarded-For"} \ {""}
Vouched(f, w, named) ==
  /\ w \in {named, "X-Forwarded-For", "X-Real-IP"}
  /\ \A x \in ReadBefore(w, named) : f[x] = <<>>

(* The address the chain will see, and the machine that asked: the one the *)
(* proxy vouches for, or when it vouches for none the one the code takes.  *)
Seen(client, who) == [client |-> client, who |-> who]
Arrivals ==
  [c \in Clients \ Proxies |->
     {Seen(RealClientIP(c, f, named), c) : f \in [HeaderNames -> Forged], named \in ProxyHeaders}
     \cup
     {LET ip == RealClientIP(p, Written(f, w, c), named)
      IN  Seen(ip, IF Vouched(f, w, named) THEN c ELSE ip) :
        p \in Proxies, f \in [HeaderNames -> Forged], w \in HeaderNames, named \in ProxyHeaders}]

(* NewDNSContext and Pipeline.Execute: a query enters the chain.           *)
NewQuery ==
  /\ q.dir \in {"idle", "done"} /\ left.queries > 0
  /\ \E c \in Clients \ Proxies, x \in Questions :
       \E arrival \in Arrivals[c] :
         q' = [NoQuery EXCEPT
                 !.who = arrival.who, !.client = arrival.client,
                 !.name = x[1], !.type = x[2], !.edns = x[3],
                 !.ecs = IF x[3] THEN "client" ELSE "none",
                 !.at = 1, !.dir = "down"]
  /\ left' = [left EXCEPT !.queries = @ - 1]
  /\ steady' = on /\ sameGroup' = TRUE
  /\ UNCHANGED <<on, groupOf, cache, refresh>>

-----------------------------------------------------------------------------
(* The outer wrappers and the entry checks.                                *)
Metrics == Down("metrics") /\ Wrap(q) /\ Others
Ede     == Down("ede") /\ Wrap(q) /\ Others
Ech     == Down("ech") /\ Wrap(q) /\ Others

(* The client middleware writes the group that cache and route will read.  *)
Client == Down("client") /\ Pass([q EXCEPT !.group = groupOf[q.client]]) /\ Others

Access ==
  /\ Down("access")
  /\ IF q.client \in Denied
       THEN Block(Answer("REFUSED", {}, "block"), {"access_blocked"})
       ELSE Pass(q)
  /\ Others

(* limiter.Allow is modelled in RateLimiter; here it may say either.       *)
RateLimit ==
  /\ Down("ratelimit")
  /\ \/ Pass(q)
     \/ /\ "ratelimit" \in on
        /\ Block(Answer("REFUSED", {}, "block"), {"ratelimit_blocked"})
  /\ Others

-----------------------------------------------------------------------------
(* Answers of this machine.                                                *)
Ddr ==
  /\ Down("ddr")
  /\ IF "ddr" \in on /\ NameIn("ddrName")
       THEN Serve(Answer("NOERROR", {}, "local"), "ddr", q.hit)
       ELSE Pass(q)
  /\ Others

(* Mutant: only the localhost names are kept local.                        *)
MutSudn ==
  /\ Down("sudn")
  /\ IF NameIn("localhost") THEN Serve(Answer("NOERROR", {}, "local"), "sudn", q.hit) ELSE Pass(q)
  /\ Others

Sudn ==
  /\ Down("sudn")
  /\ IF NameIn("localhost")
       THEN Serve(Answer("NOERROR", IF q.type \in {"A", "AAAA"} THEN {"addr", "private"} ELSE {},
                         "local"), "sudn", q.hit)
     ELSE IF NameIn("special")      THEN Serve(Answer("NXDOMAIN", {}, "local"), "sudn", q.hit)
     ELSE IF NameIn("resolverArpa") THEN Serve(Answer("NOERROR", {}, "local"), "sudn_ddr", q.hit)
     ELSE Pass(q)
  /\ Others

Zone ==
  /\ Down("zone")
  /\ IF "zone" \in on /\ NameIn("zone")
       THEN \E h \in {{}, {"addr", "private"}} :
              Serve(Answer("NOERROR", h, "local"), "zone", IF h = {} THEN "zone_nodata" ELSE "zone")
       ELSE Pass(q)
  /\ Others

(* A name of the hosts file has an A record here; its other address type   *)
(* is NODATA, and only PTR, A and AAAA are looked up.                      *)
Hosts ==
  /\ Down("hosts")
  /\ IF NameIn("hosts") /\ q.type \in {"A", "AAAA", "PTR"}
       THEN Serve(Answer("NOERROR", IF q.type = "A" THEN {"addr", "private"} ELSE {}, "local"),
                  "hosts", IF q.type = "AAAA" THEN "hosts_nodata" ELSE "hosts")
       ELSE Pass(q)
  /\ Others

Rewrite ==
  /\ Down("rewrite")
  /\ IF "rewrite" \in on /\ NameIn("rewrite")
       THEN \/ Serve(Answer("NXDOMAIN", {}, "local"), "rewrite", "rewrite_rcode")
            \/ Serve(Answer("NOERROR", {"addr", "private"}, "local"), "rewrite", "rewrite")
            \/ Serve(Answer("NOERROR", {}, "local"), "rewrite", "rewrite_nodata")
       ELSE Pass(q)
  /\ Others

SafeSearch ==
  /\ Down("safesearch")
  /\ IF "safesearch" \in on /\ NameIn("safesearch") /\ q.type \in {"A", "AAAA", "HTTPS"}
       THEN Serve(Answer("NOERROR", IF q.type = "HTTPS" THEN {} ELSE {"addr"}, "local"),
                  "safesearch", "safesearch")
       ELSE Pass(q)
  /\ Others

-----------------------------------------------------------------------------
(* Queries that must not leave this machine.                               *)
Ipv6 ==
  /\ Down("ipv6")
  /\ CASE "ipv6" \notin on -> Pass(q)
       [] "ipv6" \in on /\ q.type = "AAAA" ->
            Serve(Answer("NOERROR", {}, "local"), "block_ipv6", q.hit)
       [] OTHER -> Wrap(q)
  /\ Others

(* The name of a machine the client resolver knows, or NXDOMAIN.           *)
PrivatePTR ==
  /\ Down("privatePTR")
  /\ IF "ptr" \in on /\ q.type = "PTR" /\ NameIn("privateReverse")
       THEN \/ Serve(Answer("NOERROR", {}, "local"), "client_resolver_ptr", q.hit)
            \/ Serve(Answer("NXDOMAIN", {}, "local"), "locally_served_zone", q.hit)
       ELSE Pass(q)
  /\ Others

Unqualified ==
  /\ Down("unqualified")
  /\ IF "unqualified" \in on /\ NameIn("singleLabel")
       THEN Block(Answer("NXDOMAIN", {}, "block"), {"unqualified_blocked"})
       ELSE Pass(q)
  /\ Others

AnyQuery ==
  /\ Down("any")
  /\ IF "any" \in on /\ q.type = "ANY"
       THEN \E rc \in {"NOTIMP", "NOERROR"} : Block(Answer(rc, {}, "block"), {"any_blocked"})
       ELSE Pass(q)
  /\ Others

-----------------------------------------------------------------------------
(* The filter.  BuildBlockedResponse gives one of three forms; the null    *)
(* address of the third is an address rebinding protection would refuse.   *)
BuildBlockedResponse ==
  {Answer("NXDOMAIN", {}, "block"), Answer("REFUSED", {}, "block"),
   Answer("NOERROR", IF q.type \in {"A", "AAAA"} THEN {"addr", "private"} ELSE {}, "block")}

Filter ==
  LET g == groupOf[q.client]
  IN /\ Down("filter")
     /\ CASE "filter" \notin on -> Pass(q)
          [] "filter" \in on /\ NameIn("serviceOff") -> Pass([q EXCEPT !.group = g])
          [] "filter" \in on /\ NameIn("dnsrewrite") ->
               TurnRound([With(q, Answer("NOERROR", {"addr", "private"}, "local"),
                               "dnsrewrite", "dnsrewrite", {}) EXCEPT !.group = g])
          [] "filter" \in on /\ NameIn("blocked") /\ g \in FilteredGroups ->
               \E resp \in BuildBlockedResponse :
                 TurnRound([With(q, resp, q.source, q.hit, {"filter_blocked"}) EXCEPT !.group = g])
          [] OTHER -> Pass(q)
     /\ Others

(* The reputation service: a failed check lets the query through.          *)
SafeBrowsing ==
  /\ Down("safebrowsing")
  /\ \/ /\ "safebrowsing" \in on /\ NameIn("malicious") /\ q.type \in {"A", "AAAA", "HTTPS", "SVCB"}
        /\ \/ \E resp \in BuildBlockedResponse :
                TurnRound(With(q, resp, "safebrowsing", "safebrowsing", {"filter_blocked"}))
           \/ Pass(Set({"safebrowsing_failed"}, q))
     \/ /\ ~("safebrowsing" \in on /\ NameIn("malicious") /\ q.type \in {"A", "AAAA", "HTTPS", "SVCB"})
        /\ Pass(q)
  /\ Others

Rebind         == Down("rebind") /\ Wrap(q) /\ Others
FilterResponse == Down("filterResponse") /\ Wrap(q) /\ Others
Dns64 == /\ Down("dns64")
         /\ IF "dns64" \in on /\ q.type = "AAAA" THEN Wrap(q) ELSE Pass(q)
         /\ Others

Ecs ==
  /\ Down("ecs")
  /\ Pass([q EXCEPT !.ecs = IF "ecs" \notin on THEN @
                            ELSE IF EcsMode = "custom" THEN "custom" ELSE "none"])
  /\ Others

-----------------------------------------------------------------------------
(* The cache (core/cache.go, modelled in DnsCache): NOERROR and NXDOMAIN   *)
(* are kept.                                                               *)
KeyOf(r) == <<r.name, r.type, r.group>>
PutForGroup(k, a) ==
  IF a.rcode \in {"NOERROR", "NXDOMAIN"}
    THEN [x \in DOMAIN cache \cup {k} |-> IF x = k THEN [answer |-> a, fresh |-> TRUE] ELSE cache[x]]
    ELSE cache
RemoveForGroup(k) == [x \in DOMAIN cache \ {k} |-> cache[x]]
Lookup(c, k) == IF k \in DOMAIN c THEN c[k] ELSE Nothing

Stale(r) == r.stale # NoAnswer

Cache ==
  LET k == KeyOf(q)
      e == Lookup(cache, k)
      r == [q EXCEPT !.stale = e.answer]
  IN /\ Down("cache")
     /\ CASE "cache" \notin on \/ NameIn("cacheExcluded") -> Pass(q) /\ Others
          [] OTHER ->
               CASE e.fresh -> Serve(e.answer, q.source, "fresh") /\ Others
                 [] e.answer # NoAnswer /\ ~e.fresh /\ "optimistic" \in on ->
                      /\ Serve(e.answer, q.source, "stale")
                      /\ refresh' = IF refresh = NoRefresh THEN [key |-> k, ecs |-> q.ecs] ELSE refresh
                      /\ UNCHANGED <<on, groupOf, cache, steady, sameGroup, left>>
                 [] OTHER -> IF refresh.key = k
                               THEN q' = [r EXCEPT !.dir = "wait"] /\ Others
                               ELSE Wrap(r) /\ Others

Fallback(r) == [r EXCEPT !.resp = r.stale, !.hit = "stale_fallback", !.err = FALSE, !.ctxErr = FALSE]

CacheUp ==
  /\ Up("cache")
  /\ cache' = IF q.err THEN cache ELSE PutForGroup(KeyOf(q), q.resp)
  /\ Climb(IF (q.err \/ q.resp.rcode = "SERVFAIL") /\ Stale(q) THEN Fallback(q) ELSE q)
  /\ UNCHANGED <<on, groupOf, refresh, steady, sameGroup, left>>

(* The refresh ends.  It asks the resolver itself, past the middlewares    *)
(* below the cache, and a query that waits for its flight shares what it   *)
(* brought.                                                                *)
Shared(c, a) ==
  LET k == KeyOf(q)
  IN CASE Lookup(c, k).fresh -> [q EXCEPT !.resp = c[k].answer, !.hit = "fresh", !.dir = "up"]
       [] ~Lookup(c, k).fresh /\ Stale(q) /\ a.rcode = "SERVFAIL" -> [Fallback(q) EXCEPT !.dir = "up"]
       [] OTHER -> [q EXCEPT !.resp = a, !.dir = "up",
                             !.err = (a = Failed), !.ctxErr = (a = Failed)]

(* Mutant: a refresh that fails leaves the queries that wait for it.       *)
MutRefreshEnds ==
  /\ refresh # NoRefresh
  /\ \E a \in Upstream(refresh.key[2]) :
       LET c == PutForGroup(refresh.key, a)
       IN /\ cache' = c
          /\ q' = IF q.dir = "wait" /\ a # Failed THEN Shared(c, a) ELSE q
  /\ refresh' = NoRefresh
  /\ UNCHANGED <<on, groupOf, steady, sameGroup, left>>

RefreshEnds ==
  /\ refresh # NoRefresh
  /\ \E a \in Upstream(refresh.key[2]) :
       LET c == PutForGroup(refresh.key, a)
       IN /\ cache' = c
          /\ q' = IF q.dir = "wait" THEN Shared(c, a) ELSE q
  /\ refresh' = NoRefresh
  /\ UNCHANGED <<on, groupOf, steady, sameGroup, left>>

-----------------------------------------------------------------------------
(* Below the cache.                                                        *)
Bogus == Down("bogus") /\ Wrap(q) /\ Others

Sent(r) == [r EXCEPT !.sent = @ \cup {[name |-> r.name, type |-> r.type, ecs |-> r.ecs]}]

(* The group's own upstreams; when they fail the default ones are asked.   *)
Route ==
  /\ Down("route")
  /\ IF q.group # Default /\ q.group \in RoutedGroups
       THEN \/ \E a \in Upstream(q.type) \ {Failed} : TurnRound([Sent(q) EXCEPT !.resp = a])
            \/ Pass(Sent(q))
       ELSE Pass(q)
  /\ Others

Forward ==
  /\ Down("forward")
  /\ \E a \in Upstream(q.type) :
       TurnRound([Sent(q) EXCEPT !.resp = a, !.err = (a = Failed), !.ctxErr = (a = Failed)])
  /\ Others

-----------------------------------------------------------------------------
(* The way up.                                                             *)
BogusUp ==
  /\ Up("bogus")
  /\ IF "bogus" \in on /\ "filter_blocked" \notin q.attrs /\ q.resp.rcode = "NOERROR"
          /\ "bogus" \in q.resp.has
       THEN Climb(With(q, Answer("NXDOMAIN", {}, "block"), q.source, q.hit,
                       {"filter_blocked", "bogus_nxdomain"}))
       ELSE Climb(q)
  /\ Others

(* AAAA records are made from the A records the resolver gives itself.     *)
Synthesized(h) == (h \ {"private", "bogus"}) \cup (IF "private" \in h THEN {"embedded"} ELSE {})

Dns64Up ==
  /\ Up("dns64")
  /\ IF q.err \/ q.resp.rcode # "NOERROR" \/ "addr" \in q.resp.has
       THEN Climb(q)
       ELSE \E a \in Upstream("A") :
              Climb([q EXCEPT
                !.resp.has = IF a.rcode = "NOERROR" /\ "addr" \in a.has
                               THEN @ \cup Synthesized(a.has) ELSE @,
                !.resp.from = "upstream",
                !.sent = @ \cup {[name |-> q.name, type |-> "A", ecs |-> "none"]}])
  /\ Others

LocallyServed == q.source \in {"hosts", "rewrite", "sudn", "sudn_ddr", "locally_served_zone"}

(* The names of the answer, as far as ExtractResponseCheckNames goes down  *)
(* them, against the rules of a group.                                     *)
MatchResponse(a, g) == "badalias" \in a.has /\ g \in FilteredGroups

(* The group of the client is looked up afresh; the cache entry of that    *)
(* group is dropped.                                                       *)
FilterResponseUp ==
  LET g == groupOf[q.client]
  IN /\ Up("filterResponse")
     /\ IF /\ {"filterResponse", "filter"} \subseteq on
           /\ "filter_blocked" \notin q.attrs /\ ~LocallyServed
           /\ q.resp.rcode = "NOERROR" /\ MatchResponse(q.resp, g)
          THEN /\ \E resp \in BuildBlockedResponse :
                    Climb([With(q, resp, q.source, q.hit, {"filter_blocked", "response_filtered"})
                             EXCEPT !.group = g])
               /\ cache' = RemoveForGroup(<<q.name, q.type, g>>)
          ELSE Climb(q) /\ UNCHANGED cache
     /\ UNCHANGED <<on, groupOf, refresh, steady, sameGroup, left>>

FindBlockedIP(h) == "private" \in h \/ (WellKnownPrefix /\ "embedded" \in h)

(* Mutant: only the answers of the upstream itself are looked at, not the  *)
(* ones the cache gives.                                                   *)
MutRebindUp ==
  /\ Up("rebind")
  /\ IF /\ "rebind" \in on /\ "filter_blocked" \notin q.attrs /\ q.hit = "none"
        /\ FindBlockedIP(q.resp.has) /\ ~NameIn("rebindAllowed")
       THEN Climb(With(q, Answer("NOERROR", {}, "clean"), q.source, q.hit,
                       {"filter_blocked", "rebinding_blocked"}))
       ELSE Climb(q)
  /\ UNCHANGED <<on, groupOf, cache, refresh, steady, sameGroup, left>>

RebindUp ==
  /\ Up("rebind")
  /\ IF /\ "rebind" \in on /\ "filter_blocked" \notin q.attrs
        /\ FindBlockedIP(q.resp.has) /\ ~NameIn("rebindAllowed")
       THEN /\ Climb(With(q, Answer("NOERROR", {}, "clean"), q.source, q.hit,
                          {"filter_blocked", "rebinding_blocked"}))
            /\ cache' = RemoveForGroup(KeyOf(q))
       ELSE Climb(q) /\ UNCHANGED cache
  /\ UNCHANGED <<on, groupOf, refresh, steady, sameGroup, left>>

Ipv6Up ==
  /\ Up("ipv6")
  /\ Climb(IF q.err THEN q ELSE [q EXCEPT !.resp.has = @ \ {"hint6"}])
  /\ Others

EchUp ==
  /\ Up("ech")
  /\ Climb(IF q.err \/ "ech" \notin on THEN q ELSE [q EXCEPT !.resp.has = @ \ {"ech"}])
  /\ Others

(* Mutant: an answer filtered on its way up is not explained.              *)
MutEdeCode(r) ==
  IF {"access_blocked", "ratelimit_blocked", "rebinding_blocked"} \cap r.attrs # {} THEN "Prohibited"
  ELSE IF "filter_blocked" \in r.attrs /\ "response_filtered" \notin r.attrs THEN "Blocked"
  ELSE "none"

EdeCode(r) ==
  IF {"access_blocked", "ratelimit_blocked", "rebinding_blocked"} \cap r.attrs # {} THEN "Prohibited"
  ELSE IF "filter_blocked" \in r.attrs THEN "Blocked"
  ELSE IF r.ctxErr \/ r.resp.rcode = "SERVFAIL" THEN "NetworkError"
  ELSE IF r.hit = "stale" THEN "CachedError"
  ELSE "none"

EdeUp ==
  /\ Up("ede")
  /\ Climb(IF "ede" \in on /\ q.edns THEN [q EXCEPT !.resp.ede = EdeCode(q)] ELSE q)
  /\ Others

(* The status written to the query log and sent to the user interface.     *)
Status(r) ==
  IF r.err THEN "error"
  ELSE IF "filter_blocked" \in r.attrs THEN "blocked"
  ELSE IF r.hit = "stale" THEN "stale"
  ELSE IF r.hit # "none" THEN "cached"
  ELSE "allowed"

MetricsUp ==
  /\ Up("metrics")
  /\ q' = [q EXCEPT !.status = Status(q), !.dir = "done", !.stack = <<>>]
  /\ Others

-----------------------------------------------------------------------------
(* What happens beside the query: a switch is turned, a client moves to    *)
(* another group (ConfigureClientGroups), an entry grows old.              *)
Toggle(f) ==
  /\ left.changes > 0 /\ left' = [left EXCEPT !.changes = @ - 1]
  /\ on' = IF f \in on THEN on \ {f} ELSE on \cup {f}
  /\ steady' = steady \ {f}
  /\ UNCHANGED <<groupOf, cache, q, refresh, sameGroup>>

Regroup(c, g) ==
  /\ left.changes > 0 /\ left' = [left EXCEPT !.changes = @ - 1]
  /\ g # groupOf[c] /\ groupOf' = [groupOf EXCEPT ![c] = g]
  /\ sameGroup' = FALSE
  /\ UNCHANGED <<on, cache, q, refresh, steady>>

Expire(k) ==
  /\ left.expiries > 0 /\ left' = [left EXCEPT !.expiries = @ - 1]
  /\ cache' = IF cache[k].fresh THEN [cache EXCEPT ![k].fresh = FALSE] ELSE RemoveForGroup(k)
  /\ UNCHANGED <<on, groupOf, q, refresh, steady, sameGroup>>

Init ==
  /\ on \in FirstConfigs
  /\ groupOf \in FirstGroups
  /\ \E x \in FirstCached :
       cache = [k \in {x[1]} |-> [answer |-> Answer("NOERROR", x[2], "upstream"), fresh |-> TRUE]]
  /\ q = NoQuery /\ refresh = NoRefresh
  /\ steady = on /\ sameGroup = TRUE
  /\ left = [queries |-> MaxQueries, changes |-> MaxChanges, expiries |-> MaxExpiries]

Step == \/ Metrics \/ Ede \/ Ech \/ Client \/ Access \/ RateLimit \/ Ddr \/ Sudn \/ Zone
        \/ Hosts \/ Rewrite \/ SafeSearch \/ Ipv6 \/ PrivatePTR \/ Unqualified \/ AnyQuery
        \/ Filter \/ SafeBrowsing \/ Rebind \/ FilterResponse \/ Dns64 \/ Ecs \/ Cache
        \/ Bogus \/ Route \/ Forward
        \/ CacheUp \/ BogusUp \/ Dns64Up \/ FilterResponseUp \/ RebindUp \/ Ipv6Up
        \/ EchUp \/ EdeUp \/ MetricsUp

Next == \/ NewQuery \/ Step \/ RefreshEnds
        \/ \E f \in Switches : Toggle(f)
        \/ \E c \in Movers, g \in Groups : Regroup(c, g)
        \/ \E k \in DOMAIN cache : Expire(k)

Spec == Init /\ [][Next]_vars
(* The chain is straight-line code, and the resolver answers or times out. *)
FairSpec == Spec /\ WF_vars(Step) /\ WF_vars(RefreshEnds)

-----------------------------------------------------------------------------
(* Properties.                                                             *)
TypeOK ==
  /\ on \subseteq Features /\ steady \subseteq Features /\ sameGroup \in BOOLEAN
  /\ groupOf \in [Clients -> Groups]
  /\ DOMAIN cache \subseteq Keys /\ \A k \in DOMAIN cache : cache[k].answer \in Answers
  /\ refresh = NoRefresh \/ refresh.key \in Keys
  /\ q.dir \in {"idle", "down", "wait", "up", "done"}
  /\ q.dir \in {"up", "done"} => q.resp \in Answers

Done     == q.dir = "done"
Upstreamed == q.resp.from = "upstream"

(* Access control decides on the address of the machine that asked: one    *)
(* that is refused gets REFUSED and nothing of it is sent, when it asks    *)
(* directly or through a trusted proxy, whatever it writes into the        *)
(* headers that are not read before the one the proxy writes (Vouched).    *)
(* The code believes a header that is read before; the refusal is then     *)
(* that of the address it names (realip.go:105-121, access_middleware.go). *)
DeniedIsRefused == Done /\ q.who \in Denied => q.resp.rcode = "REFUSED" /\ q.sent = {}

(* With rebinding protection on from the arrival of the query to its       *)
(* answer, no private address an upstream gave is delivered, not from the  *)
(* cache, not by the background refresh and not embedded by DNS64 under    *)
(* the well-known prefix, unless the name is on the allow list             *)
(* (rebind_middleware.go, registered outside the cache and DNS64).         *)
NoPrivateAddress ==
  Done /\ "rebind" \in steady /\ Upstreamed /\ ~NameIn("rebindAllowed")
    => ~FindBlockedIP(q.resp.has)

(* With the filter on and the groups left alone, a name blocked for the    *)
(* client's group is never answered from an upstream, and with the check   *)
(* of responses on neither is an alias to such a name among the first      *)
(* eight names of the answer, whoever put it into the cache and whatever   *)
(* it was then (filter_response_middleware.go:15).                         *)
FilterHolds ==
  /\ Done /\ sameGroup /\ "filter" \in steady /\ groupOf[q.client] \in FilteredGroups
  => /\ NameIn("blocked") => ~Upstreamed
     /\ "filterResponse" \in steady /\ ~LocallyServed => "badalias" \notin q.resp.has

(* What is kept from the upstreams: the special-use names always, and the  *)
(* single labels, private reverse names, ANY and AAAA queries and the      *)
(* subnet of the client while their switches are on.                       *)
NoLeak ==
  TypeOK /\
  \A m \in q.sent :
    /\ NameIs[m.name] \cap {"localhost", "special", "resolverArpa"} = {}
    /\ "unqualified" \in steady => "singleLabel" \notin NameIs[m.name]
    /\ "ptr" \in steady /\ m.type = "PTR" => "privateReverse" \notin NameIs[m.name]
    /\ "any" \in steady => m.type # "ANY"
    /\ "ipv6" \in steady => m.type # "AAAA"
    /\ "ecs" \in steady => m.ecs # "client"

(* The log, the user interface and the client are told the same story: a   *)
(* query logged as blocked carries the extended error Prohibited or        *)
(* Blocked when the client understands them, and no other query does.      *)
BlockedIsExplained ==
  Done /\ q.edns /\ "ede" \in steady
    => (q.status = "blocked") = (q.resp.ede \in {"Prohibited", "Blocked"})

(* Who may ask and what is blocked is decided the same way for every       *)
(* query, from the cache or not, and told truthfully.                      *)
PolicyHolds == DeniedIsRefused /\ FilterHolds /\ BlockedIsExplained

(* Every query is answered: also one that waits for a refresh that fails.  *)
EveryQueryAnswered == (q.dir = "down") ~> Done
=============================================================================
