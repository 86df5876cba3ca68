--------------------------- MODULE ResolverProofs ---------------------------
(***************************************************************************)
(* The resolver: every query goes where its group, its name and the        *)
(* configuration send it, and failures are charged where they belong,      *)
(* for every number of queries, providers and configuration calls.         *)
(***************************************************************************)
EXTENDS Resolver, FiniteSetTheorems, SequenceTheorems, TLAPS

(* The providers of one configuration.                                     *)
Of(g) == {p \in Provider : p.gen = g}

Vias   == {"none", "default", "route"} \cup Groups
Phases == {"main", "fallback", "group", "route"}
Done   == {"no"} \cup Over

PlanType  == [fallback : Seq(Provider), onRcode : SUBSET {"nx", "servfail"}, onError : BOOLEAN,
              mode : Modes, gen : 0 .. MaxConfigures + 1]
QueryType == [at : {"idle", "match", "chain", "plan", "run"} \cup Ended, via : Vias,
              phase : Phases, rest : Seq(Provider), race : BOOLEAN, plan : PlanType,
              ctx : Done, mctx : Done, asked : SUBSET Provider, allowed : SUBSET Provider]
ExchangeType == [q : Queries, phase : Phases, p : Provider, at : {"start", "dial", "probe", "exec", "put"},
                 conn : Nat, over : Done, ans : Replies \cup {"none"}]

(* A configuration Configure accepts, with its providers of its own        *)
(* generation; and there is room for the generations of the calls that     *)
(* are left.                                                               *)
Accepted(c) ==
  /\ c.gen \in Nat /\ c.gen >= 1
  /\ c.mode \in Modes /\ c.onRcode \subseteq {"nx", "servfail"} /\ c.onError \in BOOLEAN
  /\ c.main \in Seq(Names) /\ c.main # <<>>
  /\ c.up \in Seq(Of(c.gen)) /\ Len(c.up) = Len(c.main)
  /\ c.fb \in Seq(Of(c.gen))
  /\ \A d \in DOMAIN c.routes : d \in Seq(STRING) /\ d # <<>> /\ c.routes[d] \in Names

InForce ==
  /\ Accepted(cfg)
  /\ admin \in [at : {"idle", "routes", "groups"}, groups : GroupConfigs, left : Nat]
  /\ cfg.gen + admin.left <= MaxConfigures + 1

Grouped ==
  /\ \A g \in DOMAIN group : g \in Groups /\ group[g] \in Seq(Range(cfg.up)) /\ group[g] # <<>>
  /\ admin.at = "idle" => group = Bind(cfg, admin.groups)

(* The routes are those of the configuration, all of them once Configure   *)
(* has returned.                                                           *)
Routed ==
  /\ DOMAIN routes \subseteq DOMAIN cfg.routes
  /\ \A d \in DOMAIN routes : routes[d] = RouteProvider(cfg, cfg.gen, d)
  /\ ~Locked => DOMAIN cfg.routes \subseteq DOMAIN routes

Counted ==
  /\ stats \in [Names -> [obj : 1 .. cfg.gen, fails : Nat]]
  /\ sick \subseteq Names
  /\ \A n \in Names : stats[n].fails > 0 => n \in sick

Pools ==
  /\ pool \in [Pooled -> Seq(Nat)] /\ \A n \in Pooled : Len(pool[n]) <= MaxIdle
  /\ closed \in {"no", "closing", "yes"} /\ ClosedPoolIsEmpty

(* One query: all it has asked and may still ask is on its path, and its   *)
(* path is of one configuration.  A query on its main chain may still go   *)
(* to its fallback chain, one on its fallback chain has been there.        *)
Promised(x) ==
  x.ctx = "no" /\ x.plan.fallback # <<>> /\ x.plan.onError /\ "servfail" \in x.plan.onRcode
    => x.asked \cap Range(x.plan.fallback) # {}

QueryOK(x) ==
  /\ x \in QueryType
  /\ x.asked \subseteq x.allowed /\ x.rest \in Seq(x.allowed) /\ x.allowed \subseteq Of(x.plan.gen)
  /\ x.at \in {"match", "chain", "plan"} => x.asked = {} /\ x.rest = <<>> /\ x.allowed = {}
  /\ x.at = "chain" => x.via # "default"
  /\ x.at = "run" => /\ x.via = "default" => x.phase \in {"main", "fallback"}
                     /\ x.phase = "main" => x.plan.fallback \in Seq(x.allowed)
                     /\ x.phase = "fallback" => x.asked \cap Range(x.plan.fallback) # {}
  /\ x.at = "failed" /\ x.via = "default" => Promised(x)

Asking == query \in [Queries -> QueryType] /\ \A q \in Queries : QueryOK(query[q])

(* Only an exchange with a pooled provider takes more than one step.       *)
GoodExchange == {w \in ExchangeType : w.at = "start" \/ w.p.name \in Pooled}

Exchanging == work \subseteq GoodExchange

Inductive == InForce /\ Grouped /\ Routed /\ Counted /\ Pools /\ Asking /\ Exchanging

-----------------------------------------------------------------------------
(* Ranks.                                                                  *)

(* The members of S below i in the order R.                                *)
Below(S, R, i) == {j \in S : <<j, i>> \in R}

(* In a finite set under a strict total order every rank is taken.         *)
LEMMA EveryRankIsTaken ==
  ASSUME NEW S, IsFiniteSet(S), NEW R,
         \A i \in S : <<i, i>> \notin R,
         \A i, j, k \in S : <<i, j>> \in R /\ <<j, k>> \in R => <<i, k>> \in R,
         \A i, j \in S : i # j => <<i, j>> \in R \/ <<j, i>> \in R,
         NEW k \in 1 .. Cardinality(S)
  PROVE  \E i \in S : Cardinality(Below(S, R, i)) = k - 1
<1> DEFINE B(i) == {j \in S : <<j, i>> \in R}
           n    == Cardinality(S)
           f    == [i \in S |-> Cardinality(B(i))]
<1>0. n \in Nat
  BY FS_CardinalityType
<1>1. ASSUME NEW i \in S
      PROVE  IsFiniteSet(B(i)) /\ Cardinality(B(i)) \in Nat /\ Cardinality(B(i)) < n
  <2>1. B(i) \in SUBSET S /\ i \notin B(i)
    OBVIOUS
  <2>2. IsFiniteSet(B(i)) /\ Cardinality(B(i)) <= n /\ (n = Cardinality(B(i)) => S = B(i))
    <3> HIDE DEF B
    <3> QED BY <2>1, FS_Subset
  <2>3. Cardinality(B(i)) \in Nat
    BY <2>2, FS_CardinalityType
  <2>4. S # B(i)
    BY <2>1
  <2> QED BY <1>0, <2>2, <2>3, <2>4
<1>2. ASSUME NEW i \in S, NEW j \in S, <<i, j>> \in R
      PROVE  Cardinality(B(i)) < Cardinality(B(j))
  <2>1. B(i) \in SUBSET B(j) /\ i \in B(j) /\ i \notin B(i)
    BY <1>2
  <2>2. IsFiniteSet(B(j)) /\ Cardinality(B(i)) \in Nat /\ Cardinality(B(j)) \in Nat
    BY <1>1
  <2>3. Cardinality(B(i)) <= Cardinality(B(j)) /\ (Cardinality(B(j)) = Cardinality(B(i)) => B(j) = B(i))
    <3> HIDE DEF B
    <3> QED BY <2>1, <2>2, FS_Subset
  <2> QED BY <2>1, <2>2, <2>3
<1>3. ASSUME NEW i \in S, NEW j \in S, Cardinality(B(i)) = Cardinality(B(j))
      PROVE  i = j
  <2>1. Cardinality(B(i)) \in Nat /\ Cardinality(B(j)) \in Nat
    BY <1>1
  <2>2. ASSUME i # j PROVE FALSE
    <3>1. CASE <<i, j>> \in R
      <4>1. Cardinality(B(i)) < Cardinality(B(j))
        BY <1>2, <3>1
      <4> QED BY <4>1, <2>1, <1>3
    <3>2. CASE <<j, i>> \in R
      <4>1. Cardinality(B(j)) < Cardinality(B(i))
        BY <1>2, <3>2
      <4> QED BY <4>1, <2>1, <1>3
    <3> QED BY <2>2, <3>1, <3>2
  <2> QED BY <2>2
<1>4. f \in Injection(S, 0 .. (n - 1))
  <2>1. \A i \in S : Cardinality(B(i)) \in 0 .. (n - 1)
    <3> HIDE DEF B
    <3> QED BY <1>0, <1>1
  <2>2. f \in [S -> 0 .. (n - 1)]
    <3> HIDE DEF B
    <3> QED BY <2>1
  <2>3. \A i, j \in S : f[i] = f[j] => i = j
    <3> HIDE DEF B
    <3> QED BY <1>3
  <2> HIDE DEF f
  <2> QED BY <2>2, <2>3 DEF Injection, IsInjective
<1>5. IsFiniteSet(0 .. (n - 1)) /\ Cardinality(0 .. (n - 1)) = n
  <2> HIDE DEF n
  <2>1. IsFiniteSet(0 .. (n - 1)) /\ Cardinality(0 .. (n - 1)) = IF 0 > n - 1 THEN 0 ELSE (n - 1) - 0 + 1
    <3>1. n - 1 \in Int /\ 0 \in Int
      BY <1>0
    <3> QED BY <3>1, FS_Interval
  <2> QED BY <1>0, <2>1
<1>6. f \in Surjection(S, 0 .. (n - 1))
  <2> HIDE DEF f
  <2> QED BY <1>4, <1>5, FS_Injection
<1>7. \E i \in S : f[i] = k - 1
  <2>1. k - 1 \in 0 .. (n - 1)
    BY <1>0
  <2> HIDE DEF f
  <2> QED BY <1>6, <2>1 DEF Surjection
<1>8. PICK i \in S : f[i] = k - 1
  BY <1>7
<1> QED BY <1>8 DEF Below

(* A set of indices has a k-th member for every k up to its size.          *)
LEMMA KthIsMember ==
  ASSUME NEW I \in SUBSET Nat, IsFiniteSet(I), NEW k \in 1 .. Cardinality(I)
  PROVE  Kth(I, k) \in I
<1> DEFINE R == {e \in I \X I : e[1] < e[2]}
<1>1. \A i, j \in I : <<i, j>> \in R <=> i < j
  OBVIOUS
<1>2. \E i \in I : Cardinality(Below(I, R, i)) = k - 1
  <2>1. \A i \in I : <<i, i>> \notin R
    BY <1>1
  <2>2. \A i, j, l \in I : <<i, j>> \in R /\ <<j, l>> \in R => <<i, l>> \in R
    <3> HIDE DEF R
    <3> QED BY <1>1
  <2>3. \A i, j \in I : i # j => <<i, j>> \in R \/ <<j, i>> \in R
    <3> HIDE DEF R
    <3> QED BY <1>1
  <2> HIDE DEF R
  <2> QED BY <2>1, <2>2, <2>3, EveryRankIsTaken
<1>3. PICK i \in I : Cardinality(Below(I, R, i)) = k - 1
  BY <1>2
<1>4. Below(I, R, i) = {j \in I : j < i}
  <2> HIDE DEF R
  <2> QED BY <1>1 DEF Below
<1>5. Cardinality({j \in I : j < i}) = k - 1
  BY <1>3, <1>4
<1> QED BY <1>5 DEF Kth


(* The positions of a list that count are positions, finitely many.        *)
LEMMA BoundPositions ==
  ASSUME NEW c, NEW ids \in Seq(Names)
  PROVE  /\ Bound(c, ids) \in SUBSET Nat /\ Bound(c, ids) \subseteq DOMAIN ids
         /\ IsFiniteSet(Bound(c, ids)) /\ Cardinality(Bound(c, ids)) \in Nat
         /\ Bound(c, ids) # {} => Cardinality(Bound(c, ids)) >= 1
<1>1. DOMAIN ids = 1 .. Len(ids) /\ Len(ids) \in Nat
  BY LenProperties
<1>2. Bound(c, ids) \in SUBSET (1 .. Len(ids))
  BY <1>1 DEF Bound
<1>3. IsFiniteSet(1 .. Len(ids))
  BY <1>1, FS_Interval
<1>4. IsFiniteSet(Bound(c, ids))
  BY <1>2, <1>3, FS_Subset
<1>5. Cardinality(Bound(c, ids)) \in Nat
  BY <1>4, FS_CardinalityType
<1>6. Cardinality(Bound(c, ids)) = 0 <=> Bound(c, ids) = {}
  BY <1>4, FS_EmptySet
<1> QED BY <1>1, <1>2, <1>4, <1>5, <1>6

(* A set of positions has a last one.                                      *)
LEMMA LastExists ==
  ASSUME NEW n \in Nat, NEW I \in SUBSET (1 .. n), I # {}
  PROVE  \E i \in I : \A j \in I : j <= i
<1> DEFINE J == {n - i : i \in I}
<1>1. J \in SUBSET Nat /\ J # {}
  <2>1. \A i \in I : n - i \in Nat
    OBVIOUS
  <2>2. PICK i \in I : TRUE
    OBVIOUS
  <2>3. n - i \in J
    BY <2>2
  <2> QED BY <2>1, <2>3
<1>2. PICK m \in J : \A y \in J : <<y, m>> \notin OpToRel(<, Nat)
  <2> HIDE DEF J
  <2> QED BY <1>1, NatLessThanWellFounded, WFMin
<1>3. PICK i \in I : m = n - i
  BY <1>2
<1>4. ASSUME NEW j \in I PROVE j <= i
  <2>1. n - j \in J /\ n - j \in Nat /\ m \in Nat
    BY <1>1
  <2>2. <<n - j, m>> \notin OpToRel(<, Nat)
    <3> HIDE DEF J
    <3> QED BY <2>1, <1>2
  <2>3. ~(n - j < m)
    BY <2>1, <2>2 DEF OpToRel
  <2> QED BY <2>1, <2>3, <1>3
<1> QED BY <1>3, <1>4

(* byID finds a provider of the main chain for every name in it.           *)
LEMMA ByIDIsProvider ==
  ASSUME NEW c, c.main \in Seq(Names), NEW S, c.up \in Seq(S), Len(c.up) = Len(c.main),
         NEW n \in Range(c.main)
  PROVE  ByID(c, n) \in Range(c.up)
<1> DEFINE I == {i \in DOMAIN c.main : c.main[i] = n}
<1>1. DOMAIN c.main = 1 .. Len(c.main) /\ Len(c.main) \in Nat /\ DOMAIN c.up = 1 .. Len(c.main)
  BY LenProperties
<1>2. I \in SUBSET (1 .. Len(c.main)) /\ I # {}
  BY <1>1 DEF Range
<1>3. \E i \in I : \A j \in I : j <= i
  <2> HIDE DEF I
  <2> QED BY <1>1, <1>2, LastExists
<1>4. \E i \in DOMAIN c.main : c.main[i] = n /\ \A j \in DOMAIN c.main : c.main[j] = n => j <= i
  BY <1>3
<1>5. PICK i \in DOMAIN c.up : ByID(c, n) = c.up[i]
  BY <1>1, <1>4 DEF ByID
<1> QED BY <1>5 DEF Range

(* The IDs of a bound group are IDs of the main chain.                     *)
LEMMA BindIsBound ==
  ASSUME NEW c, c.main \in Seq(Names), NEW S, c.up \in Seq(S), Len(c.up) = Len(c.main),
         NEW gc, \A g \in DOMAIN gc : gc[g] \in Seq(Names)
  PROVE  /\ DOMAIN Bind(c, gc) \subseteq DOMAIN gc
         /\ \A g \in DOMAIN Bind(c, gc) :
              Bind(c, gc)[g] \in Seq(Range(c.up)) /\ Bind(c, gc)[g] # <<>>
<1>1. /\ DOMAIN Bind(c, gc) \subseteq DOMAIN gc
      /\ \A g \in DOMAIN Bind(c, gc) :
           /\ Bound(c, gc[g]) # {}
           /\ Bind(c, gc)[g] = [k \in 1 .. Cardinality(Bound(c, gc[g])) |->
                                  ByID(c, gc[g][Kth(Bound(c, gc[g]), k)])]
  BY DEF Bind
<1>2. ASSUME NEW g \in DOMAIN Bind(c, gc)
      PROVE  Bind(c, gc)[g] \in Seq(Range(c.up)) /\ Bind(c, gc)[g] # <<>>
  <2> DEFINE I == Bound(c, gc[g])
             n == Cardinality(I)
  <2>1. g \in DOMAIN gc /\ gc[g] \in Seq(Names) /\ I # {}
    BY <1>1
  <2>2. I \in SUBSET Nat /\ I \subseteq DOMAIN gc[g] /\ IsFiniteSet(I) /\ n \in Nat /\ n >= 1
    BY <2>1, BoundPositions
  <2>3. ASSUME NEW k \in 1 .. n PROVE ByID(c, gc[g][Kth(I, k)]) \in Range(c.up)
    <3>1. Kth(I, k) \in I
      <4> HIDE DEF I
      <4> QED BY <2>2, KthIsMember
    <3>2. gc[g][Kth(I, k)] \in Range(c.main)
      BY <3>1 DEF Bound
    <3> HIDE DEF I
    <3> QED BY <3>2, ByIDIsProvider
  <2>4. Bind(c, gc)[g] = [k \in 1 .. n |-> ByID(c, gc[g][Kth(I, k)])]
    BY <1>1
  <2>5. Bind(c, gc)[g] \in [1 .. n -> Range(c.up)]
    <3> HIDE DEF I, n
    <3> QED BY <2>3, <2>4
  <2>6. Bind(c, gc)[g] \in Seq(Range(c.up)) /\ Len(Bind(c, gc)[g]) = n
    <3> HIDE DEF I, n
    <3> QED BY <2>2, <2>5
  <2> HIDE DEF I, n
  <2> QED BY <2>2, <2>6
<1> QED BY <1>1, <1>2


-----------------------------------------------------------------------------
(* The order in which a chain is asked.                                    *)

(* A provider's score is a number.                                         *)
LEMMA ScoreIsNat ==
  ASSUME Counted, NEW p \in Provider, NEW aged
  PROVE  WeightedScore(p, aged) \in Nat
<1>1. p.name \in Names
  BY DEF Provider
<1>2. Latency[p.name] \in Nat
  BY <1>1, ResolverAssumption
<1>3. stats[p.name].fails \in Nat
  BY <1>1 DEF Counted
<1>4. Fails(p) \in Nat
  BY <1>3 DEF Fails
<1>5. Least(Fails(p), 50) \in Nat
  BY <1>4 DEF Least
<1>6. Score(p, aged) \in Nat
  BY <1>2, <1>5 DEF Score
<1>7. Weight[p.name] \in Nat /\ Weight[p.name] > 0
  BY <1>1, ResolverAssumption
<1> QED BY <1>6, <1>7 DEF WeightedScore

(* Smart prediction only changes the order.                                *)
LEMMA SmartOrderIsOrder ==
  ASSUME Counted, NEW ps \in Seq(Provider), NEW aged
  PROVE  SmartOrder(ps, aged) \in Seq(Range(ps)) /\ Len(SmartOrder(ps, aged)) = Len(ps)
<1> DEFINE n == Len(ps)
           S == 1 .. n
           before(i, j) == \/ WeightedScore(ps[i], aged) < WeightedScore(ps[j], aged)
                           \/ WeightedScore(ps[i], aged) = WeightedScore(ps[j], aged) /\ i < j
           R == {e \in S \X S : before(e[1], e[2])}
<1>1. n \in Nat /\ DOMAIN ps = S
  BY LenProperties
<1>2. \A i \in S : WeightedScore(ps[i], aged) \in Nat
  <2>1. \A i \in S : ps[i] \in Provider
    BY ElementOfSeq
  <2> QED BY <2>1, ScoreIsNat
<1>3. \A i, j \in S : <<i, j>> \in R <=> before(i, j)
  OBVIOUS
<1>4. IsFiniteSet(S) /\ Cardinality(S) = n
  <2>1. IsFiniteSet(1 .. n) /\ Cardinality(1 .. n) = IF 1 > n THEN 0 ELSE n - 1 + 1
    <3> HIDE DEF n
    <3> QED BY <1>1, FS_Interval
  <2> HIDE DEF n
  <2> QED BY <1>1, <2>1
<1>5. ASSUME NEW k \in S PROVE \E i \in S : Cardinality(Below(S, R, i)) = k - 1
  <2>1. S \subseteq Nat
    BY <1>1
  <2>2. \A i \in S : <<i, i>> \notin R
    <3> HIDE DEF R, S
    <3> QED BY <1>2, <1>3, <2>1
  <2>3. \A i, j, l \in S : <<i, j>> \in R /\ <<j, l>> \in R => <<i, l>> \in R
    <3> HIDE DEF R, S
    <3> QED BY <1>2, <1>3, <2>1
  <2>4. \A i, j \in S : i # j => <<i, j>> \in R \/ <<j, i>> \in R
    <3> HIDE DEF R, S
    <3> QED BY <1>2, <1>3, <2>1
  <2>5. k \in 1 .. Cardinality(S)
    BY <1>4
  <2> HIDE DEF R, S
  <2> QED BY <1>4, <2>2, <2>3, <2>4, <2>5, EveryRankIsTaken
<1>6. ASSUME NEW i \in S PROVE Below(S, R, i) = {j \in S : before(j, i)}
  <2> HIDE DEF R, S, before
  <2> QED BY <1>3 DEF Below
<1>7. ASSUME NEW k \in S PROVE \E i \in S : Cardinality({j \in S : before(j, i)}) = k - 1
  <2>1. PICK i \in S : Cardinality(Below(S, R, i)) = k - 1
    BY <1>5
  <2>2. Cardinality({j \in S : before(j, i)}) = k - 1
    <3> HIDE DEF R, S, before
    <3> QED BY <1>6, <2>1
  <2> QED BY <2>2
<1> DEFINE at(k) == CHOOSE i \in S : Cardinality({j \in S : before(j, i)}) = k - 1
<1>8. \A k \in S : at(k) \in S
  <2> HIDE DEF S, before
  <2> QED BY <1>7
<1>9. SmartOrder(ps, aged) = [k \in S |-> ps[at(k)]]
  BY DEF SmartOrder
<1>10. \A k \in S : ps[at(k)] \in Range(ps)
  <2> HIDE DEF S, at
  <2> QED BY <1>1, <1>8 DEF Range
<1>11. SmartOrder(ps, aged) \in [S -> Range(ps)]
  <2> HIDE DEF S, at
  <2> QED BY <1>9, <1>10
<1> HIDE DEF n
<1> QED BY <1>1, <1>11

(* Every mode asks providers of the chain it is given, and at least one.   *)
LEMMA OrderedIsOrder ==
  ASSUME Counted, NEW ps \in Seq(Provider), ps # <<>>, NEW mode, NEW aged
  PROVE  /\ Ordered(mode, ps, aged) \in Seq(Range(ps))
         /\ Ordered(mode, ps, aged) # <<>>
<1>1. Len(ps) \in Nat /\ Len(ps) >= 1 /\ DOMAIN ps = 1 .. Len(ps)
  BY LenProperties, EmptySeq
<1>2. ps \in Seq(Range(ps))
  <2>1. ps \in [1 .. Len(ps) -> Range(ps)]
    BY <1>1, LenProperties DEF Range
  <2> QED BY <1>1, <2>1
<1>3. CASE mode = "single"
  <2>1. Ordered(mode, ps, aged) = SubSeq(ps, 1, 1)
    BY <1>3 DEF Ordered
  <2>2. \A i \in 1 .. 1 : ps[i] \in Range(ps)
    BY <1>1 DEF Range
  <2>3. SubSeq(ps, 1, 1) \in Seq(Range(ps)) /\ Len(SubSeq(ps, 1, 1)) = 1
    BY <2>2, SubSeqProperties
  <2> QED BY <2>1, <2>3
<1>4. CASE mode = "smart_prediction"
  <2>1. Ordered(mode, ps, aged) = SmartOrder(ps, aged)
    BY <1>4 DEF Ordered
  <2>2. SmartOrder(ps, aged) \in Seq(Range(ps)) /\ Len(SmartOrder(ps, aged)) = Len(ps)
    BY SmartOrderIsOrder
  <2> QED BY <1>1, <2>1, <2>2
<1>5. CASE mode # "single" /\ mode # "smart_prediction"
  <2>1. Ordered(mode, ps, aged) = ps
    BY <1>5 DEF Ordered
  <2> QED BY <1>2, <2>1
<1> QED BY <1>3, <1>4, <1>5

(* What a scheduler asks first: the whole chain or one provider of it.     *)
Asked(mode, ps, aged) ==
  IF mode = "parallel_race" /\ Len(ps) > 1 THEN Range(ps) ELSE {Head(Ordered(mode, ps, aged))}

LEMMA AskedIsInChain ==
  ASSUME Counted, NEW ps \in Seq(Provider), ps # <<>>, NEW mode, NEW aged
  PROVE  /\ Asked(mode, ps, aged) \subseteq Range(ps)
         /\ Asked(mode, ps, aged) \cap Range(ps) # {}
         /\ Tail(Ordered(mode, ps, aged)) \in Seq(Range(ps))
         /\ Range(ps) \subseteq Provider
<1>1. Len(ps) \in Nat /\ Len(ps) >= 1 /\ DOMAIN ps = 1 .. Len(ps)
  BY LenProperties, EmptySeq
<1>2. Range(ps) \subseteq Provider
  BY LenProperties DEF Range
<1>3. ps[1] \in Range(ps)
  BY <1>1 DEF Range
<1>4. Ordered(mode, ps, aged) \in Seq(Range(ps)) /\ Ordered(mode, ps, aged) # <<>>
  BY OrderedIsOrder
<1>5. /\ Head(Ordered(mode, ps, aged)) \in Range(ps)
      /\ Tail(Ordered(mode, ps, aged)) \in Seq(Range(ps))
  BY <1>4, HeadTailProperties
<1>6. Asked(mode, ps, aged) \subseteq Range(ps) /\ Asked(mode, ps, aged) \cap Range(ps) # {}
  BY <1>3, <1>5 DEF Asked
<1> QED BY <1>2, <1>5, <1>6


-----------------------------------------------------------------------------
(* What a step makes of one query.                                         *)

(* A sequence over a set is one over a larger set, and its entries are in  *)
(* it.                                                                     *)
LEMMA SeqWithin ==
  ASSUME NEW S, NEW T, S \subseteq T, NEW s \in Seq(S)
  PROVE  s \in Seq(T) /\ Range(s) \subseteq S
<1>1. s \in Seq(T)
  BY SeqMonotonic
<1>2. Range(s) \subseteq S
  BY LenProperties DEF Range
<1> QED BY <1>1, <1>2

(* A query that starts a chain within its path stays on it.                *)
LEMMA ChainedStaysOnPath ==
  ASSUME Counted, NEW x \in QueryType, x.asked \subseteq x.allowed, x.allowed \subseteq Of(x.plan.gen),
         NEW ps \in Seq(x.allowed), ps # <<>>, NEW phase \in Phases, NEW mode, NEW aged,
         x.via = "default" => phase \in {"main", "fallback"},
         phase = "main" => x.plan.fallback \in Seq(x.allowed),
         phase = "fallback" => ps = x.plan.fallback
  PROVE  QueryOK(Chained(x, phase, mode, ps, aged))
<1> DEFINE y == Chained(x, phase, mode, ps, aged)
<1>1. x.allowed \subseteq Provider
  BY DEF QueryType
<1>2. ps \in Seq(Provider) /\ Range(ps) \subseteq x.allowed
  BY <1>1, SeqWithin
<1>3. /\ Asked(mode, ps, aged) \subseteq Range(ps)
      /\ Asked(mode, ps, aged) \cap Range(ps) # {}
      /\ Tail(Ordered(mode, ps, aged)) \in Seq(Range(ps))
  BY <1>2, AskedIsInChain
<1>4. y = [x EXCEPT !.at = "run", !.phase = phase, !.race = (mode = "parallel_race" /\ Len(ps) > 1),
                    !.rest = IF mode = "parallel_race" /\ Len(ps) > 1 THEN <<>> ELSE Tail(Ordered(mode, ps, aged)),
                    !.asked = @ \cup Asked(mode, ps, aged)]
  BY DEF Chained, Asked
<1>5. y.rest \in Seq(x.allowed) /\ y.rest \in Seq(Provider)
  <2>1. y.rest = <<>> \/ y.rest = Tail(Ordered(mode, ps, aged))
    BY <1>4 DEF QueryType
  <2>2. y.rest \in Seq(Range(ps))
    BY <2>1, <1>3, EmptySeq
  <2>3. y.rest \in Seq(x.allowed)
    BY <2>2, <1>2, SeqWithin
  <2>4. y.rest \in Seq(Provider)
    BY <2>3, <1>1, SeqWithin
  <2> QED BY <2>3, <2>4
<1>6. /\ y.at = "run" /\ y.phase = phase /\ y.via = x.via /\ y.plan = x.plan /\ y.ctx = x.ctx /\ y.mctx = x.mctx
      /\ y.allowed = x.allowed /\ y.asked = x.asked \cup Asked(mode, ps, aged) /\ y.race \in BOOLEAN
      /\ y = [at |-> y.at, via |-> y.via, phase |-> y.phase, rest |-> y.rest, race |-> y.race, plan |-> y.plan,
              ctx |-> y.ctx, mctx |-> y.mctx, asked |-> y.asked, allowed |-> y.allowed]
  <2> HIDE DEF y
  <2> QED BY <1>4 DEF QueryType
<1> HIDE DEF y
<1>7. y.asked \subseteq y.allowed
  BY <1>2, <1>3, <1>6
<1>8. y \in QueryType
  <2>1. y.asked \in SUBSET Provider /\ y.allowed \in SUBSET Provider
    BY <1>1, <1>6, <1>7
  <2>2. x.via \in Vias /\ x.plan \in PlanType /\ x.ctx \in Done /\ x.mctx \in Done
    BY DEF QueryType
  <2>3. y.at \in {"idle", "match", "chain", "plan", "run"} \cup Ended
    BY <1>6
  <2> QED BY <1>5, <1>6, <2>1, <2>2, <2>3 DEF QueryType
<1>9. phase = "fallback" => y.asked \cap Range(y.plan.fallback) # {}
  BY <1>3, <1>6
<1>10. y.allowed \subseteq Of(y.plan.gen) /\ y.rest \in Seq(y.allowed)
  BY <1>5, <1>6
<1>11. /\ y.via = "default" => y.phase \in {"main", "fallback"}
       /\ y.phase = "main" => y.plan.fallback \in Seq(y.allowed)
       /\ y.phase = "fallback" => y.asked \cap Range(y.plan.fallback) # {}
  BY <1>6, <1>9
<1>12. y.at \notin {"match", "chain", "plan"} /\ y.at # "chain" /\ y.at # "failed"
  BY <1>6
<1>13. QueryOK(y)
  BY <1>7, <1>8, <1>10, <1>11, <1>12 DEF QueryOK
<1> QED BY <1>13 DEF y

(* The exchanges a chain starts with are those of its first providers.     *)
LEMMA FirstsAreGood ==
  ASSUME Counted, NEW q \in Queries, NEW phase \in Phases, NEW ps \in Seq(Provider), ps # <<>>,
         NEW mode, NEW aged
  PROVE  Firsts(q, phase, mode, ps, aged) \subseteq GoodExchange
<1>1. Asked(mode, ps, aged) \subseteq Provider
  BY AskedIsInChain
<1>2. Firsts(q, phase, mode, ps, aged) = {Exchange(q, phase, p) : p \in Asked(mode, ps, aged)}
  BY DEF Firsts, Asked
<1>3. \A p \in Provider : Exchange(q, phase, p) \in GoodExchange
  BY DEF Exchange, GoodExchange, ExchangeType, Done
<1> QED BY <1>1, <1>2, <1>3

(* Ending an exchange's context keeps it well formed.                      *)
LEMMA CancelledAreGood ==
  ASSUME NEW ws \in SUBSET GoodExchange, NEW q, NEW phase
  PROVE  Cancelled(q, phase, ws) \subseteq GoodExchange
<1>1. ASSUME NEW w \in GoodExchange PROVE [w EXCEPT !.over = "canceled"] \in GoodExchange
  BY DEF GoodExchange, ExchangeType, Done, Over
<1> QED BY <1>1 DEF Cancelled

(* A slot without a query.                                                 *)
LEMMA IdleIsQuery == Idle \in QueryType /\ NoPlan \in PlanType
<1>1. NoPlan \in PlanType
  <2>1. <<>> \in Seq(Provider) /\ {} \in SUBSET {"nx", "servfail"} /\ TRUE \in BOOLEAN /\ "single" \in Modes
    BY EmptySeq DEF Modes
  <2>2. 0 \in 0 .. MaxConfigures + 1
    BY ResolverAssumption
  <2> QED BY <2>1, <2>2 DEF NoPlan, PlanType
<1>2. <<>> \in Seq(Provider) /\ {} \in SUBSET Provider /\ FALSE \in BOOLEAN
  BY EmptySeq
<1>3. "no" \in Done /\ "main" \in Phases
  BY DEF Done, Phases
<1>4. "none" \in Vias
  BY DEF Vias
<1> QED BY <1>1, <1>2, <1>3, <1>4 DEF Idle, QueryType

(* A query that ends keeps what it asked.                                  *)
LEMMA EndedStaysOnPath ==
  ASSUME NEW x, QueryOK(x), NEW r
  PROVE  /\ x.via # "default" \/ Promised(x) => QueryOK(Failed(x, r))
         /\ QueryOK(Answered(x))
<1> DEFINE y(a) == [at |-> a, via |-> x.via, phase |-> x.phase, rest |-> <<>>, race |-> FALSE,
                    plan |-> x.plan, ctx |-> x.ctx, mctx |-> "no", asked |-> x.asked, allowed |-> x.allowed]
<1>1. Failed(x, r) = y("failed") /\ Failed(x, "ok") = y("failed")
  <2>1. Idle.rest = <<>> /\ Idle.race = FALSE /\ Idle.mctx = "no"
    BY DEF Idle
  <2>2. ASSUME NEW i \in QueryType, NEW z,
               z = [i EXCEPT !.at = "failed", !.via = x.via, !.asked = x.asked, !.allowed = x.allowed,
                             !.plan = x.plan, !.ctx = x.ctx, !.phase = x.phase]
        PROVE  z = [at |-> "failed", via |-> x.via, phase |-> x.phase, rest |-> i.rest, race |-> i.race,
                    plan |-> x.plan, ctx |-> x.ctx, mctx |-> i.mctx, asked |-> x.asked, allowed |-> x.allowed]
    <3>1. z = [at |-> z.at, via |-> z.via, phase |-> z.phase, rest |-> z.rest, race |-> z.race, plan |-> z.plan,
               ctx |-> z.ctx, mctx |-> z.mctx, asked |-> z.asked, allowed |-> z.allowed]
      BY <2>2 DEF QueryType
    <3>2. /\ z.at = "failed" /\ z.via = x.via /\ z.phase = x.phase /\ z.rest = i.rest /\ z.race = i.race
          /\ z.plan = x.plan /\ z.ctx = x.ctx /\ z.mctx = i.mctx /\ z.asked = x.asked /\ z.allowed = x.allowed
      BY <2>2 DEF QueryType
    <3> QED BY <3>1, <3>2
  <2> QED BY <2>1, <2>2, IdleIsQuery DEF Failed
<1>0. Answered(x) = y("answered")
  <2>1. Answered(x) = [y("failed") EXCEPT !.at = "answered"]
    BY <1>1 DEF Answered
  <2> QED BY <2>1
<1>2. ASSUME NEW a \in {"failed", "answered"}, a = "answered" \/ x.via # "default" \/ Promised(x)
      PROVE  QueryOK(y(a))
  <2>1. /\ y(a).at = a /\ y(a).via = x.via /\ y(a).phase = x.phase /\ y(a).rest = <<>> /\ y(a).race = FALSE
        /\ y(a).plan = x.plan /\ y(a).ctx = x.ctx /\ y(a).asked = x.asked /\ y(a).allowed = x.allowed
    OBVIOUS
  <2>2. y(a) \in QueryType
    <3>1. /\ x.via \in Vias /\ x.phase \in Phases /\ x.plan \in PlanType /\ x.ctx \in Done
          /\ x.asked \in SUBSET Provider /\ x.allowed \in SUBSET Provider
      BY DEF QueryOK, QueryType
    <3>2. <<>> \in Seq(Provider) /\ "no" \in Done /\ FALSE \in BOOLEAN
      BY EmptySeq DEF Done
    <3> QED BY <3>1, <3>2 DEF QueryType, Ended
  <2>3. x.asked \subseteq x.allowed /\ x.allowed \subseteq Of(x.plan.gen) /\ <<>> \in Seq(x.allowed)
    BY EmptySeq DEF QueryOK
  <2>4. y(a).at = "failed" /\ y(a).via = "default" => Promised(y(a))
    BY <1>2, <2>1 DEF Promised
  <2> HIDE DEF y
  <2> QED BY <2>1, <2>2, <2>3, <2>4 DEF QueryOK
<1> HIDE DEF y
<1> QED BY <1>0, <1>1, <1>2


(* One query changes.                                                      *)
LEMMA OneQueryChanges ==
  ASSUME Asking, NEW q \in Queries, NEW y, QueryOK(y), query' = [query EXCEPT ![q] = y]
  PROVE  Asking'
<1>1. y \in QueryType
  BY DEF QueryOK
<1>2. query' \in [Queries -> QueryType]
  BY <1>1 DEF Asking
<1>3. \A p \in Queries : QueryOK(query'[p])
  BY DEF Asking
<1> QED BY <1>2, <1>3 DEF Asking

(* Changing when a query's contexts ended changes no path.                 *)
LEMMA ContextChanges ==
  ASSUME NEW x, QueryOK(x), x.at = "run", NEW c \in Done, NEW m \in Done
  PROVE  /\ QueryOK([x EXCEPT !.ctx = c, !.mctx = m])
         /\ QueryOK([x EXCEPT !.mctx = m])
<1> DEFINE y(d) == [x EXCEPT !.ctx = d, !.mctx = m]
<1>0. x \in QueryType
  BY DEF QueryOK
<1>1. ASSUME NEW d \in Done PROVE QueryOK(y(d))
  <2> DEFINE z == y(d)
  <2>1. /\ z.at = "run" /\ z.via = x.via /\ z.phase = x.phase /\ z.rest = x.rest /\ z.plan = x.plan
        /\ z.asked = x.asked /\ z.allowed = x.allowed
    BY <1>0 DEF QueryType
  <2>2. z \in QueryType
    BY <1>0 DEF QueryType
  <2> HIDE DEF z
  <2>3. QueryOK(z)
    BY <2>1, <2>2 DEF QueryOK
  <2> QED BY <2>3 DEF z
<1>2. [x EXCEPT !.mctx = m] = y(x.ctx) /\ x.ctx \in Done
  BY <1>0 DEF QueryType
<1> HIDE DEF y
<1>3. QueryOK(y(c)) /\ QueryOK(y(x.ctx))
  BY <1>1, <1>2
<1> QED BY <1>2, <1>3 DEF y

(* The end of a chain: a query that fails on its main chain although the   *)
(* fallback chain is promised goes there first.                            *)
LEMMA EndChainKeepsPaths ==
  ASSUME Asking, Counted, NEW q \in Queries, NEW r, NEW ws \in SUBSET GoodExchange,
         query[q].at = "run", EndChain(q, query[q], r, ws)
  PROVE  Asking' /\ Exchanging'
<1> DEFINE x == query[q]
<1>1. QueryOK(x) /\ x \in QueryType /\ x.at = "run"
  BY DEF Asking
<1>2. Cancelled(q, x.phase, ws) \subseteq GoodExchange
  BY CancelledAreGood
<1>3. CASE NeedsFallback(x, r)
  <2>1. PICK aged :
          /\ query' = [query EXCEPT ![q] = Chained([x EXCEPT !.mctx = x.ctx], "fallback",
                                                   x.plan.mode, x.plan.fallback, aged)]
          /\ work' = Cancelled(q, x.phase, ws) \cup Firsts(q, "fallback", x.plan.mode, x.plan.fallback, aged)
    BY <1>3 DEF EndChain
  <2> DEFINE z == [x EXCEPT !.mctx = x.ctx]
  <2>2. x.phase = "main" /\ x.plan.fallback # <<>>
    BY <1>3 DEF NeedsFallback
  <2>3. x.plan.fallback \in Seq(x.allowed) /\ x.allowed \subseteq Provider
    BY <1>1, <2>2 DEF QueryOK, QueryType
  <2>4. x.plan.fallback \in Seq(Provider)
    BY <2>3, SeqWithin
  <2>5. QueryOK(z)
    <3>1. x.ctx \in Done
      BY <1>1 DEF QueryType
    <3> HIDE DEF x
    <3> QED BY <1>1, <3>1, ContextChanges
  <2>6. z.allowed = x.allowed /\ z.plan = x.plan /\ z.via = x.via
    BY <1>1 DEF QueryType
  <2>7. z \in QueryType /\ z.asked \subseteq z.allowed /\ z.allowed \subseteq Of(z.plan.gen)
    BY <2>5 DEF QueryOK
  <2>8. QueryOK(Chained(z, "fallback", x.plan.mode, x.plan.fallback, aged))
    <3>1. "fallback" \in Phases
      BY DEF Phases
    <3> HIDE DEF z, x
    <3> QED BY <2>2, <2>3, <2>6, <2>7, <3>1, ChainedStaysOnPath
  <2>9. Asking'
    <3> HIDE DEF z
    <3> QED BY <2>1, <2>8, OneQueryChanges DEF z
  <2>10. Firsts(q, "fallback", x.plan.mode, x.plan.fallback, aged) \subseteq GoodExchange
    BY <2>2, <2>4, FirstsAreGood DEF Phases
  <2> QED BY <1>2, <2>1, <2>9, <2>10 DEF Exchanging
<1>4. CASE ~NeedsFallback(x, r)
  <2>1. /\ query' = [query EXCEPT ![q] = IF r \in Errors THEN Failed(x, r) ELSE Answered(x)]
        /\ work' = Cancelled(q, x.phase, ws)
    BY <1>4 DEF EndChain
  <2>2. Exchanging'
    BY <1>2, <2>1 DEF Exchanging
  <2>3. CASE r \in Errors
    <3>1. ASSUME x.via = "default" PROVE Promised(x)
      <4>1. CASE x.phase = "main"
        BY <1>4, <2>3, <4>1 DEF NeedsFallback, CallerDone, RcodeMatches, Promised
      <4>2. CASE x.phase = "fallback"
        BY <1>1, <4>2 DEF QueryOK, Promised
      <4> QED BY <1>1, <3>1, <4>1, <4>2 DEF QueryOK
    <3>2. QueryOK(Failed(x, r))
      <4> HIDE DEF x
      <4> QED BY <1>1, <3>1, EndedStaysOnPath
    <3>3. query' = [query EXCEPT ![q] = Failed(x, r)]
      BY <2>1, <2>3
    <3> HIDE DEF x
    <3> QED BY <2>2, <3>2, <3>3, OneQueryChanges
  <2>4. CASE r \notin Errors
    <3>1. query' = [query EXCEPT ![q] = Answered(x)]
      BY <2>1, <2>4
    <3>2. QueryOK(Answered(x))
      <4> HIDE DEF x
      <4> QED BY <1>1, EndedStaysOnPath
    <3> HIDE DEF x
    <3> QED BY <2>2, <3>1, <3>2, OneQueryChanges
  <2> QED BY <2>3, <2>4
<1> QED BY <1>3, <1>4


(* The configuration does not change.                                      *)
LEMMA ConfigurationKept ==
  ASSUME InForce, Grouped, Routed, UNCHANGED <<cfg, group, routes, admin>>
  PROVE  InForce' /\ Grouped' /\ Routed'
BY DEF InForce, Accepted, Grouped, Routed, RouteProvider, Locked

LEMMA CountsKept ==
  ASSUME Counted, UNCHANGED <<cfg, stats, sick>>
  PROVE  Counted'
BY DEF Counted

LEMMA PoolsKept ==
  ASSUME Pools, UNCHANGED <<pool, closed>>
  PROVE  Pools'
BY DEF Pools, ClosedPoolIsEmpty

LEMMA QueriesKept ==
  ASSUME Asking, Exchanging, UNCHANGED <<query, work>>
  PROVE  Asking' /\ Exchanging'
BY DEF Asking, Exchanging

(* The next provider of a chain is on the path.                            *)
LEMMA NextProvider ==
  ASSUME NEW x, QueryOK(x), x.at = "run", x.rest # <<>>
  PROVE  /\ QueryOK([x EXCEPT !.rest = Tail(x.rest), !.asked = @ \cup {Head(x.rest)}])
         /\ Head(x.rest) \in Provider
<1> DEFINE z == [x EXCEPT !.rest = Tail(x.rest), !.asked = @ \cup {Head(x.rest)}]
<1>1. x \in QueryType /\ x.rest \in Seq(x.allowed) /\ x.allowed \subseteq Provider
  BY DEF QueryOK, QueryType
<1>2. Head(x.rest) \in x.allowed /\ Tail(x.rest) \in Seq(x.allowed)
  BY <1>1, HeadTailProperties
<1>3. Tail(x.rest) \in Seq(Provider) /\ Head(x.rest) \in Provider
  BY <1>1, <1>2, SeqWithin
<1>4. /\ z.at = x.at /\ z.via = x.via /\ z.phase = x.phase /\ z.rest = Tail(x.rest) /\ z.plan = x.plan
      /\ z.asked = x.asked \cup {Head(x.rest)} /\ z.allowed = x.allowed /\ z.ctx = x.ctx
  BY <1>1 DEF QueryType
<1>5. z \in QueryType
  BY <1>1, <1>3 DEF QueryType
<1> HIDE DEF z
<1>6. z.asked \subseteq z.allowed /\ z.rest \in Seq(z.allowed) /\ z.allowed \subseteq Of(z.plan.gen)
  BY <1>2, <1>4 DEF QueryOK
<1>7. /\ z.via = "default" => z.phase \in {"main", "fallback"}
      /\ z.phase = "main" => z.plan.fallback \in Seq(z.allowed)
      /\ z.phase = "fallback" => z.asked \cap Range(z.plan.fallback) # {}
  BY <1>4 DEF QueryOK
<1>8. QueryOK(z)
  BY <1>4, <1>5, <1>6, <1>7 DEF QueryOK
<1> QED BY <1>3, <1>8 DEF z

(* The result of one provider reaches its query.                           *)
LEMMA DeliverKeepsPaths ==
  ASSUME Asking, Counted, Exchanging, NEW w \in work, NEW r, Deliver(w, r)
  PROVE  Asking' /\ Exchanging'
<1> DEFINE x    == query[w.q]
           ws   == work \ {w}
           mine == {v \in ws : v.q = w.q /\ v.phase = w.phase}
           dropped == x.at # "run" \/ x.phase # w.phase \/ (r \in Errors /\ x.race /\ ~RaceLost(mine))
           last    == r \notin Errors \/ x.race \/ x.rest = <<>>
<1>1. w \in GoodExchange /\ w.q \in Queries /\ w.phase \in Phases /\ ws \in SUBSET GoodExchange
  BY DEF Exchanging, GoodExchange, ExchangeType
<1>2. QueryOK(x) /\ x \in QueryType
  BY <1>1 DEF Asking
<1>3. IF dropped THEN work' = ws /\ UNCHANGED query
      ELSE IF last THEN EndChain(w.q, x, r, ws)
      ELSE IF x.mctx # "no" THEN EndChain(w.q, x, x.mctx, ws)
      ELSE /\ query' = [query EXCEPT ![w.q].rest = Tail(x.rest), ![w.q].asked = @ \cup {Head(x.rest)}]
           /\ work' = ws \cup {Exchange(w.q, w.phase, Head(x.rest))}
  BY DEF Deliver
<1>4. CASE dropped
  <2>1. work' = ws /\ query' = query
    BY <1>3, <1>4
  <2> QED BY <1>1, <2>1 DEF Asking, Exchanging
<1>5. CASE ~dropped /\ last
  <2>1. EndChain(w.q, x, r, ws) /\ x.at = "run"
    BY <1>3, <1>5
  <2> HIDE DEF ws
  <2> QED BY <1>1, <2>1, EndChainKeepsPaths
<1>6. CASE ~dropped /\ ~last /\ x.mctx # "no"
  <2>1. EndChain(w.q, x, x.mctx, ws) /\ x.at = "run"
    BY <1>3, <1>6
  <2> HIDE DEF ws
  <2> QED BY <1>1, <2>1, EndChainKeepsPaths
<1>7. CASE ~dropped /\ ~last /\ x.mctx = "no"
  <2> DEFINE z == [x EXCEPT !.rest = Tail(x.rest), !.asked = @ \cup {Head(x.rest)}]
  <2>1. /\ query' = [query EXCEPT ![w.q].rest = Tail(x.rest), ![w.q].asked = @ \cup {Head(x.rest)}]
        /\ work' = ws \cup {Exchange(w.q, w.phase, Head(x.rest))}
    BY <1>3, <1>7
  <2>2. query' = [query EXCEPT ![w.q] = z]
    BY <1>1, <2>1 DEF Asking
  <2>3. x.at = "run" /\ x.rest # <<>>
    BY <1>7
  <2>4. QueryOK(z) /\ Head(x.rest) \in Provider
    <3> HIDE DEF x
    <3> QED BY <1>2, <2>3, NextProvider
  <2>5. Asking'
    <3> HIDE DEF z
    <3> QED BY <1>1, <2>2, <2>4, OneQueryChanges
  <2>6. Exchange(w.q, w.phase, Head(x.rest)) \in GoodExchange
    <3> HIDE DEF x
    <3> QED BY <1>1, <2>4 DEF Exchange, GoodExchange, ExchangeType, Done
  <2>7. Exchanging'
    <3> HIDE DEF ws, x
    <3> QED BY <1>1, <2>1, <2>6 DEF Exchanging
  <2> QED BY <2>5, <2>7
<1> QED BY <1>4, <1>5, <1>6, <1>7

(* A result counts for or against the provider, if it still has the        *)
(* statistics the exchange was started with.                               *)
LEMMA ResultIsCounted ==
  ASSUME Counted, Exchanging, NEW w \in work, NEW o, QueryWithValidation(w, o)
  PROVE  Counted'
<1> DEFINE n == w.p.name
<1>1. n \in Names
  BY DEF Exchanging, GoodExchange, ExchangeType, Provider
<1>2. cfg' = cfg
  BY DEF QueryWithValidation
<1>3. CASE stats[n].obj # w.p.st
  <2>1. stats' = stats /\ sick' = sick
    BY <1>3 DEF QueryWithValidation
  <2> QED BY <1>2, <2>1, CountsKept
<1>4. CASE stats[n].obj = w.p.st
  <2> DEFINE f == IF Blames(o) THEN stats[n].fails + 1 ELSE IF Result(o) \in Errors THEN stats[n].fails ELSE 0
  <2>1. /\ stats' = [stats EXCEPT ![n].fails = f]
        /\ sick' = IF o = "canceled" THEN sick
                   ELSE IF Result(o) \in Errors THEN sick \cup {n} ELSE sick \ {n}
    BY <1>4 DEF QueryWithValidation
  <2>2. stats \in [Names -> [obj : 1 .. cfg.gen, fails : Nat]] /\ sick \subseteq Names
    BY DEF Counted
  <2>3. stats[n].fails \in Nat /\ f \in Nat
    BY <1>1, <2>2
  <2>4. o = "canceled" <=> Result(o) = "canceled"
    BY DEF Result
  <2>5. f > 0 => n \in sick'
    <3>1. CASE Blames(o)
      BY <2>1, <2>4, <3>1 DEF Blames
    <3>2. CASE ~Blames(o) /\ Result(o) \in Errors
      <4>1. o = "canceled" /\ sick' = sick /\ f = stats[n].fails
        BY <2>1, <2>4, <3>2 DEF Blames
      <4> QED BY <1>1, <4>1 DEF Counted
    <3>3. CASE ~Blames(o) /\ Result(o) \notin Errors
      BY <3>3
    <3> QED BY <3>1, <3>2, <3>3
  <2>6. sick' \subseteq Names /\ \A m \in Names : m # n /\ m \in sick => m \in sick'
    BY <1>1, <2>1, <2>2
  <2> HIDE DEF f
  <2>7. /\ stats' \in [Names -> [obj : 1 .. cfg.gen, fails : Nat]]
        /\ stats'[n].fails = f
        /\ \A m \in Names : m # n => stats'[m] = stats[m]
    BY <1>1, <2>1, <2>2, <2>3
  <2>8. \A m \in Names : stats'[m].fails > 0 => m \in sick'
    BY <2>5, <2>6, <2>7 DEF Counted
  <2> QED BY <1>2, <2>6, <2>7, <2>8 DEF Counted
<1> QED BY <1>3, <1>4

(* The whole of queryWithValidation.                                       *)
LEMMA ValidationKeepsAll ==
  ASSUME Inductive, NEW w \in work, NEW o, QueryWithValidation(w, o)
  PROVE  InForce' /\ Grouped' /\ Routed' /\ Counted' /\ Asking' /\ Exchanging'
<1>1. InForce' /\ Grouped' /\ Routed'
  <2>1. UNCHANGED <<cfg, group, routes, admin>>
    BY DEF QueryWithValidation
  <2> QED BY <2>1, ConfigurationKept DEF Inductive
<1>2. Counted'
  BY ResultIsCounted DEF Inductive
<1>3. Asking' /\ Exchanging'
  <2>1. Deliver(w, Result(o))
    BY DEF QueryWithValidation
  <2> QED BY <2>1, DeliverKeepsPaths DEF Inductive
<1> QED BY <1>1, <1>2, <1>3


-----------------------------------------------------------------------------
(* The steps of an exchange.                                               *)

(* A result with the pools as they are.                                    *)
LEMMA ResultPreserves ==
  ASSUME Inductive, NEW w \in work, NEW o, QueryWithValidation(w, o), UNCHANGED pool
  PROVE  Inductive'
<1>1. Pools'
  <2>1. UNCHANGED <<pool, closed>>
    BY DEF QueryWithValidation
  <2> QED BY <2>1, PoolsKept DEF Inductive
<1> QED BY <1>1, ValidationKeepsAll DEF Inductive

(* An exchange takes a step of its own.                                    *)
LEMMA WorkPreserves ==
  ASSUME Inductive, NEW w \in work, NEW v \in GoodExchange, work' = (work \ {w}) \cup {v},
         UNCHANGED <<cfg, group, routes, stats, closed, query, admin, sick>>
  PROVE  InForce' /\ Grouped' /\ Routed' /\ Counted' /\ Asking' /\ Exchanging'
<1>1. InForce' /\ Grouped' /\ Routed'
  BY ConfigurationKept DEF Inductive
<1>2. Counted'
  BY CountsKept DEF Inductive
<1>3. Asking' /\ Exchanging'
  BY DEF Inductive, Asking, Exchanging
<1> QED BY <1>1, <1>2, <1>3

LEMMA GoesPreserves ==
  ASSUME Inductive, NEW w \in work, NEW v \in GoodExchange, Goes(w, v)
  PROVE  Inductive'
<1>1. work' = (work \ {w}) \cup {v} /\ UNCHANGED <<cfg, group, routes, stats, pool, closed, query, admin, sick>>
  BY DEF Goes
<1>2. Pools'
  BY <1>1, PoolsKept DEF Inductive
<1> QED BY <1>1, <1>2, WorkPreserves DEF Inductive

LEMMA PlainPreserves ==
  ASSUME Inductive, NEW w \in work, PlainExchange(w)
  PROVE  Inductive'
<1>1. PICK o : QueryWithValidation(w, o)
  BY DEF PlainExchange
<1>2. UNCHANGED pool
  BY DEF PlainExchange
<1> QED BY <1>1, <1>2, ResultPreserves

LEMMA DohPreserves ==
  ASSUME Inductive, NEW w \in work, DohExchange(w)
  PROVE  Inductive'
<1>1. PICK o : QueryWithValidation(w, o)
  BY DEF DohExchange
<1>2. UNCHANGED pool
  BY DEF DohExchange
<1> QED BY <1>1, <1>2, ResultPreserves

(* Taking from the top of a pool leaves less in it.                        *)
LEMMA PopPreserves ==
  ASSUME Inductive, NEW w \in work, PopIdleConn(w)
  PROVE  Inductive'
<1> DEFINE n == w.p.name
<1>1. n \in Pooled /\ w \in GoodExchange
  BY DEF PopIdleConn, Inductive, Exchanging
<1>2. CASE closed # "no"
  <2>1. UNCHANGED pool /\ QueryWithValidation(w, "transport")
    BY <1>2 DEF PopIdleConn
  <2> QED BY <2>1, ResultPreserves
<1>3. CASE closed = "no"
  <2>1. PICK k \in 0 .. Len(pool[n]) :
          /\ pool' = [pool EXCEPT ![n] = SubSeq(@, 1, k - 1)]
          /\ work' = (work \ {w}) \cup
               {IF k = 0 THEN [w EXCEPT !.at = "dial"]
                ELSE [w EXCEPT !.at = "probe", !.conn = pool[n][k]]}
          /\ UNCHANGED <<cfg, group, routes, stats, closed, query, admin, sick>>
    BY <1>3 DEF PopIdleConn
  <2>2. pool \in [Pooled -> Seq(Nat)] /\ pool[n] \in Seq(Nat) /\ Len(pool[n]) <= MaxIdle /\ Len(pool[n]) \in Nat
    BY <1>1 DEF Inductive, Pools
  <2>3. SubSeq(pool[n], 1, k - 1) \in Seq(Nat) /\ Len(SubSeq(pool[n], 1, k - 1)) <= MaxIdle
    <3>1. MaxIdle \in Nat
      BY ResolverAssumption
    <3>2. \A i \in 1 .. (k - 1) : pool[n][i] \in Nat
      BY <2>2, ElementOfSeq
    <3>3. k - 1 \in Int /\ 1 \in Int
      BY <2>2
    <3>4. /\ SubSeq(pool[n], 1, k - 1) \in Seq(Nat)
          /\ Len(SubSeq(pool[n], 1, k - 1)) = IF 1 <= k - 1 THEN (k - 1) - 1 + 1 ELSE 0
      BY <3>2, <3>3, SubSeqProperties
    <3> QED BY <2>2, <3>1, <3>4
  <2>4. Pools'
    <3>1. pool' \in [Pooled -> Seq(Nat)] /\ \A m \in Pooled : Len(pool'[m]) <= MaxIdle
      BY <1>1, <2>1, <2>2, <2>3 DEF Inductive, Pools
    <3> QED BY <1>3, <2>1, <3>1 DEF Pools, ClosedPoolIsEmpty
  <2>5. [w EXCEPT !.at = "dial"] \in GoodExchange
    BY <1>1 DEF GoodExchange, ExchangeType
  <2>6. ASSUME k # 0 PROVE [w EXCEPT !.at = "probe", !.conn = pool[n][k]] \in GoodExchange
    <3>1. pool[n][k] \in Nat
      BY <2>2, <2>6, ElementOfSeq
    <3> QED BY <1>1, <3>1 DEF GoodExchange, ExchangeType
  <2>7. InForce' /\ Grouped' /\ Routed' /\ Counted' /\ Asking' /\ Exchanging'
    <3> DEFINE v == IF k = 0 THEN [w EXCEPT !.at = "dial"] ELSE [w EXCEPT !.at = "probe", !.conn = pool[n][k]]
    <3>1. v \in GoodExchange /\ work' = (work \ {w}) \cup {v}
      BY <2>1, <2>5, <2>6
    <3> HIDE DEF v
    <3> QED BY <2>1, <3>1, WorkPreserves
  <2> QED BY <2>4, <2>7 DEF Inductive
<1> QED BY <1>2, <1>3

LEMMA ExecutePreserves ==
  ASSUME Inductive, NEW w \in work, Execute(w)
  PROVE  Inductive'
<1>1. w \in GoodExchange /\ w.at \in {"probe", "exec"}
  BY DEF Execute, Inductive, Exchanging
<1>2. w.p.name \in Pooled
  BY <1>1 DEF GoodExchange
<1>3. ASSUME NEW o \in Replies, Goes(w, [w EXCEPT !.at = "put", !.ans = o]) PROVE Inductive'
  <2>1. [w EXCEPT !.at = "put", !.ans = o] \in GoodExchange
    BY <1>1, <1>2 DEF GoodExchange, ExchangeType
  <2> QED BY <1>3, <2>1, GoesPreserves
<1>4. ASSUME Goes(w, [w EXCEPT !.at = "dial", !.conn = 0]) PROVE Inductive'
  <2>1. [w EXCEPT !.at = "dial", !.conn = 0] \in GoodExchange
    BY <1>1, <1>2 DEF GoodExchange, ExchangeType
  <2> QED BY <1>4, <2>1, GoesPreserves
<1>5. ASSUME NEW o, UNCHANGED pool, QueryWithValidation(w, o) PROVE Inductive'
  BY <1>5, ResultPreserves
<1> QED BY <1>3, <1>4, <1>5 DEF Execute

LEMMA DialPreserves ==
  ASSUME Inductive, NEW w \in work, DialFreshConn(w)
  PROVE  Inductive'
<1>1. w \in GoodExchange /\ w.at = "dial" /\ cfg.gen \in Nat
  BY DEF DialFreshConn, Inductive, Exchanging, InForce, Accepted
<1>2. w.p.name \in Pooled
  BY <1>1 DEF GoodExchange
<1>3. ASSUME Goes(w, [w EXCEPT !.at = "exec", !.conn = cfg.gen]) PROVE Inductive'
  <2>1. [w EXCEPT !.at = "exec", !.conn = cfg.gen] \in GoodExchange
    BY <1>1, <1>2 DEF GoodExchange, ExchangeType
  <2> QED BY <1>3, <2>1, GoesPreserves
<1>4. ASSUME NEW o, UNCHANGED pool, QueryWithValidation(w, o) PROVE Inductive'
  BY <1>4, ResultPreserves
<1> QED BY <1>3, <1>4 DEF DialFreshConn

(* A pool takes a connection back only while it is open and not full.      *)
LEMMA PutPreserves ==
  ASSUME Inductive, NEW w \in work, PutIdleConn(w)
  PROVE  Inductive'
<1> DEFINE n == w.p.name
<1>1. w \in GoodExchange /\ w.at = "put"
  BY DEF PutIdleConn, Inductive, Exchanging
<1>2. n \in Pooled /\ w.conn \in Nat
  BY <1>1 DEF GoodExchange, ExchangeType
<1>3. QueryWithValidation(w, w.ans)
  BY DEF PutIdleConn
<1>4. closed' = closed
  BY <1>3 DEF QueryWithValidation
<1>5. Pools'
  <2>1. CASE ~Kept(w)
    <3>1. UNCHANGED <<pool, closed>>
      BY <1>4, <2>1 DEF PutIdleConn
    <3> QED BY <3>1, PoolsKept DEF Inductive
  <2>2. CASE Kept(w)
    <3>1. pool' = [pool EXCEPT ![n] = Append(@, w.conn)] /\ closed = "no" /\ Len(pool[n]) < MaxIdle
      BY <2>2 DEF PutIdleConn, Kept
    <3>2. pool \in [Pooled -> Seq(Nat)] /\ pool[n] \in Seq(Nat) /\ Len(pool[n]) \in Nat
      BY <1>2 DEF Inductive, Pools
    <3>3. Append(pool[n], w.conn) \in Seq(Nat) /\ Len(Append(pool[n], w.conn)) = Len(pool[n]) + 1
      BY <1>2, <3>2, AppendProperties
    <3>4. MaxIdle \in Nat
      BY ResolverAssumption
    <3>5. Len(Append(pool[n], w.conn)) <= MaxIdle
      BY <3>1, <3>2, <3>3, <3>4
    <3>6. pool' \in [Pooled -> Seq(Nat)] /\ \A m \in Pooled : Len(pool'[m]) <= MaxIdle
      BY <1>2, <3>1, <3>2, <3>3, <3>5 DEF Inductive, Pools
    <3> QED BY <1>4, <3>1, <3>6 DEF Pools, ClosedPoolIsEmpty
  <2> QED BY <2>1, <2>2
<1> QED BY <1>3, <1>5, ValidationKeepsAll DEF Inductive


-----------------------------------------------------------------------------
(* The routes of a name.                                                   *)

(* A suffix, entry by entry.                                               *)
LEMMA SuffixEntries ==
  ASSUME NEW s \in Seq(STRING), NEW t \in Seq(STRING)
  PROVE  IsSuffix(s, t) <=> /\ Len(s) <= Len(t)
                            /\ \A i \in 1 .. Len(s) : s[i] = t[Len(t) - Len(s) + i]
<1> DEFINE m == Len(s)
           n == Len(t)
           rs == Reverse(s)
           rt == Reverse(t)
<1>1. m \in Nat /\ n \in Nat
  BY LenProperties
<1>2. /\ \A i \in 1 .. m : s[i] \in STRING
      /\ \A i \in 1 .. n : t[i] \in STRING
  BY ElementOfSeq
<1>3. /\ rs \in Seq(STRING) /\ Len(rs) = m /\ \A i \in 1 .. m : rs[i] = s[m - i + 1]
      /\ rt \in Seq(STRING) /\ Len(rt) = n /\ \A i \in 1 .. n : rt[i] = t[n - i + 1]
  <2>1. rs = [i \in 1 .. m |-> s[m - i + 1]] /\ rt = [i \in 1 .. n |-> t[n - i + 1]]
    BY DEF Reverse
  <2> HIDE DEF m, n, rs, rt
  <2>2. \A i \in 1 .. m : m - i + 1 \in 1 .. m
    BY <1>1
  <2>3. \A i \in 1 .. n : n - i + 1 \in 1 .. n
    BY <1>1
  <2>4. rs \in [1 .. m -> STRING] /\ rt \in [1 .. n -> STRING]
    BY <1>2, <2>1, <2>2, <2>3
  <2>5. rs \in Seq(STRING) /\ Len(rs) = m /\ rt \in Seq(STRING) /\ Len(rt) = n
    BY <1>1, <2>4
  <2> QED BY <2>1, <2>5
<1> DEFINE us == SubSeq(rs, 1, m)
           ut == SubSeq(rt, 1, m)
<1>4. IsSuffix(s, t) <=> m <= n /\ us = ut
  BY <1>3 DEF IsSuffix, IsPrefix
<1> HIDE DEF m, n, rs, rt
<1>5. ASSUME m <= n
      PROVE  us = ut <=> \A i \in 1 .. m : rs[i] = rt[i]
  <2>1. 1 \in Int /\ m \in Int
    BY <1>1
  <2>2. /\ \A i \in 1 .. m : rs[i] \in STRING
        /\ \A i \in 1 .. m : rt[i] \in STRING
    BY <1>1, <1>3, <1>5, ElementOfSeq
  <2>3. /\ us \in Seq(STRING) /\ Len(us) = (IF 1 <= m THEN m - 1 + 1 ELSE 0)
        /\ \A i \in 1 .. (m - 1 + 1) : us[i] = rs[1 + i - 1]
    BY <2>1, <2>2, SubSeqProperties
  <2>4. /\ ut \in Seq(STRING) /\ Len(ut) = (IF 1 <= m THEN m - 1 + 1 ELSE 0)
        /\ \A i \in 1 .. (m - 1 + 1) : ut[i] = rt[1 + i - 1]
    BY <2>1, <2>2, SubSeqProperties
  <2> HIDE DEF us, ut
  <2>5. \A i \in 1 .. m : us[i] = rs[i] /\ ut[i] = rt[i]
    BY <1>1, <2>3, <2>4
  <2>6. Len(us) = m /\ Len(ut) = m
    BY <1>1, <2>3, <2>4
  <2>7. ASSUME \A i \in 1 .. m : rs[i] = rt[i] PROVE us = ut
    <3>1. \A i \in 1 .. Len(us) : us[i] = ut[i]
      BY <2>5, <2>6, <2>7
    <3> QED BY <2>3, <2>4, <2>6, <3>1, SeqEqual
  <2> QED BY <2>5, <2>7
<1>6. ASSUME m <= n
      PROVE  (\A i \in 1 .. m : rs[i] = rt[i]) <=> \A i \in 1 .. m : s[i] = t[n - m + i]
  <2>1. ASSUME \A i \in 1 .. m : rs[i] = rt[i], NEW i \in 1 .. m PROVE s[i] = t[n - m + i]
    <3>1. m - i + 1 \in 1 .. m /\ m - i + 1 \in 1 .. n
      BY <1>1, <1>6
    <3>2. rs[m - i + 1] = s[m - (m - i + 1) + 1] /\ rt[m - i + 1] = t[n - (m - i + 1) + 1]
      BY <1>3, <3>1
    <3>3. m - (m - i + 1) + 1 = i /\ n - (m - i + 1) + 1 = n - m + i
      BY <1>1
    <3> QED BY <2>1, <3>1, <3>2, <3>3
  <2>2. ASSUME \A i \in 1 .. m : s[i] = t[n - m + i], NEW i \in 1 .. m PROVE rs[i] = rt[i]
    <3>1. m - i + 1 \in 1 .. m /\ i \in 1 .. n
      BY <1>1, <1>6
    <3>2. rs[i] = s[m - i + 1] /\ rt[i] = t[n - i + 1]
      BY <1>3, <3>1
    <3>3. s[m - i + 1] = t[n - m + (m - i + 1)]
      BY <2>2, <3>1
    <3>4. n - m + (m - i + 1) = n - i + 1
      BY <1>1
    <3> QED BY <3>2, <3>3, <3>4
  <2> QED BY <2>1, <2>2
<1> HIDE DEF us, ut
<1> QED BY <1>4, <1>5, <1>6 DEF m, n

(* The tail of a name that starts at one of its labels.                    *)
LEMMA TailOfName ==
  ASSUME NEW d \in Seq(STRING), NEW j \in 1 .. Len(d)
  PROVE  /\ SubSeq(d, j, Len(d)) \in Seq(STRING)
         /\ Len(SubSeq(d, j, Len(d))) = Len(d) - j + 1
         /\ \A i \in 1 .. (Len(d) - j + 1) : SubSeq(d, j, Len(d))[i] = d[j + i - 1]
<1> DEFINE n == Len(d)
<1>1. n \in Nat
  BY LenProperties
<1>2. j \in Int /\ n \in Int /\ j <= n
  BY <1>1
<1>3. \A i \in j .. n : d[i] \in STRING
  BY <1>1, ElementOfSeq
<1>4. /\ SubSeq(d, j, n) \in Seq(STRING)
      /\ Len(SubSeq(d, j, n)) = (IF j <= n THEN n - j + 1 ELSE 0)
      /\ \A i \in 1 .. (n - j + 1) : SubSeq(d, j, n)[i] = d[j + i - 1]
  <2> HIDE DEF n
  <2> QED BY <1>2, <1>3, SubSeqProperties
<1> QED BY <1>2, <1>4

(* A suffix is the tail of its length.                                     *)
LEMMA SuffixIsTail ==
  ASSUME NEW d \in Seq(STRING), NEW f \in Seq(STRING), f # <<>>, IsSuffix(f, d)
  PROVE  /\ Len(d) - Len(f) + 1 \in 1 .. Len(d)
         /\ SubSeq(d, Len(d) - Len(f) + 1, Len(d)) = f
<1> DEFINE n == Len(d)
           m == Len(f)
           j == n - m + 1
           g == SubSeq(d, j, n)
<1>1. n \in Nat /\ m \in Nat /\ m # 0
  BY LenProperties, EmptySeq
<1>2. m <= n /\ \A i \in 1 .. m : f[i] = d[n - m + i]
  BY SuffixEntries
<1>3. j \in 1 .. n /\ n - j + 1 = m
  <2> HIDE DEF n, m
  <2> QED BY <1>1, <1>2
<1>4. g \in Seq(STRING) /\ Len(g) = n - j + 1 /\ \A i \in 1 .. (n - j + 1) : g[i] = d[j + i - 1]
  <2> HIDE DEF j
  <2> QED BY <1>3, TailOfName
<1>5. Len(g) = Len(f)
  <2> HIDE DEF j, g, n
  <2> QED BY <1>3, <1>4
<1>6. ASSUME NEW i \in 1 .. Len(g) PROVE g[i] = f[i]
  <2>1. g[i] = d[j + i - 1]
    <3> HIDE DEF j, g, n
    <3> QED BY <1>4
  <2>2. f[i] = d[n - m + i]
    <3> HIDE DEF j, g, n
    <3> QED BY <1>2, <1>5
  <2>3. j + i - 1 = n - m + i
    <3> HIDE DEF n, m
    <3> QED BY <1>1
  <2> HIDE DEF g, j, n, m
  <2> QED BY <2>1, <2>2, <2>3
<1>7. g = f
  <2> HIDE DEF g, j
  <2> QED BY <1>4, <1>5, <1>6, SeqEqual
<1> HIDE DEF g
<1> QED BY <1>3, <1>7 DEF g

(* What MatchRoute finds, walking the name from its first label, is a      *)
(* configured route, that of the longest suffix when all are set.          *)
LEMMA MatchIsDue ==
  ASSUME InForce, Routed, NEW d \in Seq(STRING), NEW k \in Matching(d)
  PROVE  /\ SubSeq(d, k, Len(d)) \in DOMAIN routes
         /\ routes[SubSeq(d, k, Len(d))] \in Due(d)
<1> DEFINE n == Len(d)
           e == SubSeq(d, k, n)
<1>1. n \in Nat /\ k \in 1 .. n /\ e \in DOMAIN routes
  BY LenProperties DEF Matching
<1>2. \A j \in 1 .. (k - 1) : SubSeq(d, j, n) \notin DOMAIN routes
  BY DEF Matching
<1>3. e \in Seq(STRING) /\ Len(e) = n - k + 1 /\ \A i \in 1 .. Len(e) : e[i] = d[k + i - 1]
  BY <1>1, TailOfName
<1> HIDE DEF n
<1>4. IsSuffix(e, d)
  <2>1. Len(e) <= n /\ \A i \in 1 .. Len(e) : e[i] = d[n - Len(e) + i]
    <3>1. ASSUME NEW i \in 1 .. Len(e) PROVE e[i] = d[n - Len(e) + i]
      <4>1. k + i - 1 = n - Len(e) + i
        BY <1>1, <1>3
      <4> QED BY <1>3, <4>1
    <3> QED BY <1>1, <1>3, <3>1
  <2> HIDE DEF e
  <2> QED BY <1>3, <2>1, SuffixEntries DEF n
<1>5. ASSUME ~Locked, NEW f \in SuffixRoutes(d) PROVE Len(f) <= Len(e)
  <2>1. f \in DOMAIN routes /\ IsSuffix(f, d)
    BY <1>5 DEF Routed, SuffixRoutes
  <2>2. f \in Seq(STRING) /\ f # <<>> /\ Len(f) \in Nat
    BY <2>1, LenProperties DEF Routed, InForce, Accepted
  <2>3. n - Len(f) + 1 \in 1 .. n /\ SubSeq(d, n - Len(f) + 1, n) = f
    BY <2>1, <2>2, SuffixIsTail DEF n
  <2>4. ~(n - Len(f) + 1 \in 1 .. (k - 1))
    BY <1>2, <2>1, <2>3
  <2> HIDE DEF e
  <2> QED BY <1>1, <1>3, <2>2, <2>3, <2>4
<1>6. e \in SuffixRoutes(d) /\ routes[e] = RouteProvider(cfg, cfg.gen, e)
  <2> HIDE DEF e
  <2> QED BY <1>1, <1>4 DEF SuffixRoutes, Routed
<1>7. routes[e] \in Due(d)
  <2> HIDE DEF e
  <2> QED BY <1>5, <1>6 DEF Due
<1> QED BY <1>1, <1>7 DEF e, n

(* A name that matches no route has no configured one, when all are set.   *)
LEMMA NoMatchNoneDue ==
  ASSUME InForce, Routed, ~Locked, NEW d \in Seq(STRING), Matching(d) = {}
  PROVE  Due(d) = {}
<1> DEFINE n == Len(d)
           J == {j \in 1 .. n : SubSeq(d, j, n) \in DOMAIN routes}
           R == {a \in J \X J : a[1] < a[2]}
<1>1. n \in Nat
  BY LenProperties
<1>2. SUFFICES ASSUME NEW f \in SuffixRoutes(d) PROVE FALSE
  BY DEF Due
<1>3. J # {}
  <2>1. f \in DOMAIN routes /\ IsSuffix(f, d) /\ f \in Seq(STRING) /\ f # <<>>
    BY DEF Routed, SuffixRoutes, InForce, Accepted
  <2>2. n - Len(f) + 1 \in 1 .. n /\ SubSeq(d, n - Len(f) + 1, n) = f
    BY <2>1, SuffixIsTail
  <2> HIDE DEF n
  <2> QED BY <2>1, <2>2
<1>4. IsFiniteSet(J) /\ J \subseteq Nat
  <2>1. IsFiniteSet(1 .. n)
    <3> HIDE DEF n
    <3> QED BY <1>1, FS_Interval
  <2>2. J \subseteq 1 .. n
    OBVIOUS
  <2>3. IsFiniteSet(J)
    <3> HIDE DEF n, J
    <3> QED BY <2>1, <2>2, FS_Subset
  <2>4. J \subseteq Nat
    BY <1>1
  <2> QED BY <2>3, <2>4
<1>5. Cardinality(J) \in Nat /\ Cardinality(J) # 0
  <2> HIDE DEF J
  <2> QED BY <1>3, <1>4, FS_CardinalityType, FS_EmptySet
<1>6. PICK j \in J : Cardinality(Below(J, R, j)) = 1 - 1
  <2>1. \A i, k \in J : <<i, k>> \in R <=> i < k
    <3> HIDE DEF J
    <3> QED OBVIOUS
  <2> HIDE DEF J, R
  <2>2. \A i \in J : <<i, i>> \notin R
    BY <1>4, <2>1
  <2>3. \A i, k, l \in J : <<i, k>> \in R /\ <<k, l>> \in R => <<i, l>> \in R
    BY <1>4, <2>1
  <2>4. \A i, k \in J : i # k => <<i, k>> \in R \/ <<k, i>> \in R
    BY <1>4, <2>1
  <2>5. 1 \in 1 .. Cardinality(J)
    BY <1>5
  <2> QED BY <1>4, <2>2, <2>3, <2>4, <2>5, EveryRankIsTaken
<1>7. Below(J, R, j) = {}
  <2>1. IsFiniteSet(Below(J, R, j))
    <3>1. Below(J, R, j) \subseteq J
      BY DEF Below
    <3> HIDE DEF J, R
    <3> QED BY <1>4, <3>1, FS_Subset
  <2> HIDE DEF J, R
  <2> QED BY <1>6, <2>1, FS_EmptySet
<1>8. \A i \in J : ~(i < j)
  <2>1. \A i \in J : <<i, j>> \notin R
    <3> HIDE DEF J, R
    <3> QED BY <1>7 DEF Below
  <2> HIDE DEF J
  <2> QED BY <2>1
<1>9. j \in Matching(d)
  <2>1. j \in 1 .. n /\ SubSeq(d, j, n) \in DOMAIN routes
    OBVIOUS
  <2>2. ASSUME NEW i \in 1 .. (j - 1) PROVE SubSeq(d, i, n) \notin DOMAIN routes
    <3>1. i \in 1 .. n /\ i < j
      <4> HIDE DEF n
      <4> QED BY <1>1, <2>1
    <3> HIDE DEF n
    <3> QED BY <1>8, <3>1
  <2> QED BY <2>1, <2>2 DEF Matching
<1> QED BY <1>9


-----------------------------------------------------------------------------
(* The steps of a query.                                                   *)

(* A step that changes only queries and exchanges.                         *)
LEMMA QueryStep ==
  ASSUME Inductive, UNCHANGED <<cfg, group, routes, stats, pool, closed, admin, sick>>, Asking', Exchanging'
  PROVE  Inductive'
<1>1. InForce' /\ Grouped' /\ Routed'
  BY ConfigurationKept DEF Inductive
<1>2. Counted' /\ Pools'
  BY CountsKept, PoolsKept DEF Inductive
<1> QED BY <1>1, <1>2 DEF Inductive

LEMMA NewQueryPreserves ==
  ASSUME Inductive, NEW q \in Queries, NewQuery(q)
  PROVE  Inductive'
<1>1. /\ work' = work
      /\ UNCHANGED <<cfg, group, routes, stats, pool, closed, admin, sick>>
  BY DEF NewQuery
<1>2. PICK at \in {"match", "chain"}, g \in {"default"} \cup DOMAIN group :
        /\ at = "match" <=> g = "default"
        /\ query' = [p \in Queries |->
                       IF p = q THEN [Idle EXCEPT !.at = at, !.via = g]
                       ELSE IF query[p].at \in Ended THEN [Idle EXCEPT !.at = "over"]
                       ELSE query[p]]
  BY DEF NewQuery
<1>3. g \in Vias
  BY DEF Inductive, Grouped, Vias
<1>4. ASSUME NEW a \in {"match", "chain", "over"}, NEW v \in Vias, a = "chain" => v # "default"
      PROVE  QueryOK([Idle EXCEPT !.at = a, !.via = v])
  <2> DEFINE z == [Idle EXCEPT !.at = a, !.via = v]
  <2>1. Idle.asked = {} /\ Idle.rest = <<>> /\ Idle.allowed = {} /\ Idle.via = "none"
    BY DEF Idle
  <2>2. z \in QueryType /\ z.at = a /\ z.via = v /\ z.asked = Idle.asked /\ z.rest = Idle.rest
        /\ z.allowed = Idle.allowed
    BY IdleIsQuery DEF QueryType, Ended
  <2>3. z.rest \in Seq(z.allowed)
    BY <2>1, <2>2, EmptySeq
  <2> HIDE DEF z
  <2>4. QueryOK(z)
    BY <1>4, <2>1, <2>2, <2>3 DEF QueryOK, Ended
  <2> QED BY <2>4 DEF z
<1>5. QueryOK([Idle EXCEPT !.at = at, !.via = g])
  BY <1>2, <1>3, <1>4
<1>6. QueryOK([Idle EXCEPT !.at = "over"])
  <2>1. "none" \in Vias /\ Idle.via = "none"
    BY DEF Vias, Idle
  <2>2. QueryOK([Idle EXCEPT !.at = "over", !.via = "none"])
    BY <1>4, <2>1
  <2>3. [Idle EXCEPT !.at = "over", !.via = "none"] = [Idle EXCEPT !.at = "over"]
    BY <2>1, IdleIsQuery DEF QueryType
  <2> QED BY <2>2, <2>3
<1>7. \A p \in Queries : QueryOK(query'[p])
  <2>1. \A p \in Queries : QueryOK(query[p])
    BY DEF Inductive, Asking
  <2> QED BY <1>2, <1>5, <1>6, <2>1
<1>8. query' \in [Queries -> QueryType]
  <2>1. \A p \in Queries : query'[p] \in QueryType
    BY <1>7 DEF QueryOK
  <2> QED BY <1>2, <2>1
<1>9. Asking' /\ Exchanging'
  BY <1>1, <1>7, <1>8 DEF Inductive, Asking, Exchanging
<1> QED BY <1>1, <1>9, QueryStep

(* There is room for the generation in force.                              *)
LEMMA GenerationInRange ==
  ASSUME InForce
  PROVE  cfg.gen \in 0 .. MaxConfigures + 1 /\ cfg.gen \in 1 .. MaxConfigures + 1
<1>1. admin.left \in Nat /\ cfg.gen \in Nat /\ cfg.gen >= 1 /\ cfg.gen + admin.left <= MaxConfigures + 1
  BY DEF InForce, Accepted
<1>2. MaxConfigures \in Nat
  BY ResolverAssumption
<1> QED BY <1>1, <1>2

(* The configured routes are of the generation of the configuration.       *)
LEMMA DueIsBuilt ==
  ASSUME InForce, NEW d
  PROVE  Due(d) \subseteq Of(cfg.gen)
<1>1. cfg.gen \in 1 .. MaxConfigures + 1 /\ MaxConfigures \in Nat
  BY GenerationInRange, ResolverAssumption
<1>2. ASSUME NEW e \in DOMAIN cfg.routes PROVE RouteProvider(cfg, cfg.gen, e) \in Of(cfg.gen)
  <2>1. cfg.routes[e] \in Names
    BY DEF InForce, Accepted
  <2> QED BY <1>1, <2>1 DEF RouteProvider, Of, Provider
<1> QED BY <1>2 DEF Due, SuffixRoutes

LEMMA GroupChainPreserves ==
  ASSUME Inductive, NEW q \in Queries, GroupChain(q)
  PROVE  Inductive'
<1> DEFINE x == query[q]
           g == x.via
<1>1. /\ x.at = "chain"
      /\ UNCHANGED <<cfg, group, routes, stats, pool, closed, admin, sick>>
  BY DEF GroupChain
<1>2. QueryOK(x) /\ x \in QueryType
  BY DEF Inductive, Asking
<1>3. CASE g \notin DOMAIN group
  <2> DEFINE z == [x EXCEPT !.at = "failed"]
  <2>1. query' = [query EXCEPT ![q].at = "failed"] /\ work' = work
    BY <1>3 DEF GroupChain
  <2>2. query' = [query EXCEPT ![q] = z]
    BY <2>1 DEF Inductive, Asking
  <2>3. z \in QueryType /\ z.at = "failed" /\ z.via = x.via /\ z.asked = x.asked /\ z.allowed = x.allowed
        /\ z.rest = x.rest /\ z.plan = x.plan
    BY <1>2 DEF QueryType, Ended
  <2>4. QueryOK(z)
    <3> HIDE DEF z, x
    <3> QED BY <1>1, <1>2, <2>3 DEF QueryOK
  <2>5. Asking' /\ Exchanging'
    <3> HIDE DEF z
    <3> QED BY <2>1, <2>2, <2>4, OneQueryChanges DEF Inductive, Exchanging
  <2> QED BY <1>1, <2>5, QueryStep
<1>4. CASE g \in DOMAIN group
  <2> DEFINE y == [x EXCEPT !.plan.mode = cfg.mode, !.plan.gen = cfg.gen, !.allowed = Range(group[g])]
  <2>1. PICK aged :
          /\ query' = [query EXCEPT ![q] = Chained([@ EXCEPT !.plan.mode = cfg.mode, !.plan.gen = cfg.gen,
                                                             !.allowed = Range(group[g])],
                                                   "group", cfg.mode, group[g], aged)]
          /\ work' = work \cup Firsts(q, "group", cfg.mode, group[g], aged)
    BY <1>4 DEF GroupChain
  <2>2. query' = [query EXCEPT ![q] = Chained(y, "group", cfg.mode, group[g], aged)]
    BY <2>1 DEF Inductive, Asking
  <2>3. group[g] \in Seq(Range(cfg.up)) /\ group[g] # <<>> /\ cfg.up \in Seq(Of(cfg.gen)) /\ cfg.mode \in Modes
    BY <1>4 DEF Inductive, Grouped, InForce, Accepted
  <2>4. Of(cfg.gen) \subseteq Provider /\ Range(cfg.up) \subseteq Of(cfg.gen)
    BY <2>3, SeqWithin DEF Of
  <2>5. Range(group[g]) \subseteq Of(cfg.gen) /\ group[g] \in Seq(Provider)
    BY <2>3, <2>4, SeqWithin
  <2>6. group[g] \in Seq(Range(group[g]))
    <3>1. group[g] \in [1 .. Len(group[g]) -> Range(group[g])] /\ Len(group[g]) \in Nat
      BY <2>5, LenProperties DEF Range
    <3> QED BY <3>1
  <2>7. cfg.gen \in 0 .. MaxConfigures + 1
    BY GenerationInRange DEF Inductive
  <2>8. y = [x EXCEPT !.plan = [x.plan EXCEPT !.mode = cfg.mode, !.gen = cfg.gen], !.allowed = Range(group[g])]
    BY <1>2 DEF QueryType
  <2>9. [x.plan EXCEPT !.mode = cfg.mode, !.gen = cfg.gen] \in PlanType
        /\ [x.plan EXCEPT !.mode = cfg.mode, !.gen = cfg.gen].gen = cfg.gen
    <3>1. x.plan \in PlanType
      BY <1>2 DEF QueryType
    <3> HIDE DEF x
    <3> QED BY <2>3, <2>7, <3>1 DEF PlanType
  <2>10. x.asked = {}
    BY <1>1, <1>2 DEF QueryOK
  <2>11. /\ y \in QueryType /\ y.allowed = Range(group[g]) /\ y.asked = {} /\ y.via = x.via
         /\ y.plan.gen = cfg.gen
    <3> DEFINE pl == [x.plan EXCEPT !.mode = cfg.mode, !.gen = cfg.gen]
               R  == Range(group[g])
    <3>1. R \in SUBSET Provider
      BY <2>4, <2>5
    <3> HIDE DEF pl, R, y, x
    <3>2. y = [x EXCEPT !.plan = pl, !.allowed = R]
      BY <2>8 DEF pl, R
    <3>3. pl \in PlanType /\ pl.gen = cfg.gen
      BY <2>9 DEF pl
    <3>4. y \in QueryType /\ y.allowed = R /\ y.asked = {} /\ y.via = x.via /\ y.plan = pl
      BY <1>2, <2>10, <3>1, <3>2, <3>3 DEF QueryType
    <3> QED BY <3>3, <3>4 DEF R
  <2>12. QueryOK(Chained(y, "group", cfg.mode, group[g], aged))
    <3>1. y.via # "default"
      BY <1>1, <1>2, <2>11 DEF QueryOK
    <3>2. "group" \in Phases
      BY DEF Phases
    <3>3. y.asked \subseteq y.allowed /\ y.allowed \subseteq Of(y.plan.gen) /\ group[g] \in Seq(y.allowed)
      BY <2>5, <2>6, <2>11
    <3>4. Counted
      BY DEF Inductive
    <3> HIDE DEF y, x
    <3> QED BY <2>3, <2>11, <3>1, <3>2, <3>3, <3>4, ChainedStaysOnPath
  <2>13. Asking'
    <3> HIDE DEF y
    <3> QED BY <2>2, <2>12, OneQueryChanges DEF Inductive
  <2>14. Firsts(q, "group", cfg.mode, group[g], aged) \subseteq GoodExchange
    BY <2>3, <2>5, FirstsAreGood DEF Inductive, Phases
  <2>15. Exchanging'
    BY <2>1, <2>14 DEF Inductive, Exchanging
  <2> QED BY <1>1, <2>13, <2>15, QueryStep
<1> QED BY <1>3, <1>4


LEMMA MatchRoutePreserves ==
  ASSUME Inductive, NEW q \in Queries, MatchRoute(q)
  PROVE  Inductive'
<1> DEFINE x == query[q]
<1>1. /\ x.at = "match"
      /\ UNCHANGED <<cfg, group, routes, stats, pool, closed, admin, sick>>
  BY DEF MatchRoute
<1>2. QueryOK(x) /\ x \in QueryType
  BY DEF Inductive, Asking
<1>3. x.asked = {} /\ x.rest = <<>> /\ x.allowed = {}
  BY <1>1, <1>2 DEF QueryOK
<1>4. PICK d \in Domains :
        IF Matching(d) = {}
          THEN /\ query' = [query EXCEPT ![q].at = "plan",
                                         ![q].allowed = IF Locked THEN {} ELSE Due(d)]
               /\ UNCHANGED work
          ELSE LET k == CHOOSE k \in Matching(d) : TRUE
                   p == routes[SubSeq(d, k, Len(d))]
               IN  /\ query' = [query EXCEPT ![q].at = "run", ![q].via = "route", ![q].phase = "route",
                                             ![q].plan.gen = p.gen, ![q].asked = {p},
                                             ![q].allowed = Due(d)]
                   /\ work' = work \cup {Exchange(q, "route", p)}
  BY DEF MatchRoute
<1>5. CASE Matching(d) = {}
  <2> DEFINE z == [x EXCEPT !.at = "plan"]
  <2>1. query' = [query EXCEPT ![q].at = "plan", ![q].allowed = {}] /\ work' = work
    <3>1. d \in Seq(STRING)
      BY ResolverAssumption
    <3>2. (IF Locked THEN {} ELSE Due(d)) = {}
      BY <1>5, <3>1, NoMatchNoneDue DEF Inductive
    <3> QED BY <1>4, <1>5, <3>2
  <2>2. query' = [query EXCEPT ![q] = z]
    <3>1. z = [x EXCEPT !.at = "plan", !.allowed = {}]
      BY <1>2, <1>3 DEF QueryType
    <3> HIDE DEF z
    <3> QED BY <2>1, <3>1 DEF Inductive, Asking
  <2>3. z \in QueryType /\ z.at = "plan" /\ z.via = x.via /\ z.asked = x.asked /\ z.allowed = x.allowed
        /\ z.rest = x.rest /\ z.plan = x.plan
    BY <1>2 DEF QueryType
  <2>4. QueryOK(z)
    <3> HIDE DEF z, x
    <3> QED BY <1>2, <1>3, <2>3 DEF QueryOK
  <2>5. Asking' /\ Exchanging'
    <3> HIDE DEF z
    <3> QED BY <2>1, <2>2, <2>4, OneQueryChanges DEF Inductive, Exchanging
  <2> QED BY <1>1, <2>5, QueryStep
<1>6. CASE Matching(d) # {}
  <2> DEFINE k == CHOOSE k \in Matching(d) : TRUE
             e == SubSeq(d, k, Len(d))
             p == routes[e]
             A == Due(d)
             z == [x EXCEPT !.at = "run", !.via = "route", !.phase = "route",
                            !.plan = [x.plan EXCEPT !.gen = p.gen], !.asked = {p}, !.allowed = A]
  <2>1. /\ query' = [query EXCEPT ![q].at = "run", ![q].via = "route", ![q].phase = "route",
                                  ![q].plan.gen = p.gen, ![q].asked = {p}, ![q].allowed = A]
        /\ work' = work \cup {Exchange(q, "route", p)}
    BY <1>4, <1>6
  <2>2. k \in Matching(d) /\ d \in Seq(STRING)
    BY <1>6, ResolverAssumption
  <2>3. p \in A
    <3> HIDE DEF k
    <3> QED BY <2>2, MatchIsDue DEF Inductive
  <2>4. A \subseteq Of(cfg.gen)
    BY DueIsBuilt DEF Inductive
  <2>5. p \in A /\ A \subseteq Of(cfg.gen)
    BY <2>3, <2>4
  <2>6. A \subseteq Provider /\ p \in Provider /\ p.gen = cfg.gen
    <3> HIDE DEF p, A
    <3> QED BY <2>5 DEF Of
  <2> HIDE DEF k, e, p, A
  <2>7. query' = [query EXCEPT ![q] = z]
    BY <1>2, <2>1 DEF Inductive, Asking, QueryType
  <2>8. cfg.gen \in 0 .. MaxConfigures + 1
    BY GenerationInRange DEF Inductive
  <2> DEFINE pl == [x.plan EXCEPT !.gen = p.gen]
  <2>9. pl \in PlanType /\ pl.gen = cfg.gen
    <3>1. x.plan \in PlanType
      BY <1>2 DEF QueryType
    <3> HIDE DEF x
    <3> QED BY <2>6, <2>8, <3>1 DEF PlanType
  <2>10. z = [x EXCEPT !.at = "run", !.via = "route", !.phase = "route", !.plan = pl, !.asked = {p}, !.allowed = A]
    OBVIOUS
  <2> HIDE DEF pl, z
  <2>11. /\ z \in QueryType /\ z.at = "run" /\ z.via = "route" /\ z.phase = "route" /\ z.plan = pl
         /\ z.asked = {p} /\ z.allowed = A /\ z.rest = x.rest
    BY <1>2, <2>6, <2>9, <2>10 DEF QueryType, Vias, Phases
  <2>12. z.asked \subseteq z.allowed /\ z.rest \in Seq(z.allowed) /\ z.allowed \subseteq Of(z.plan.gen)
    BY <1>3, <2>5, <2>9, <2>11, EmptySeq
  <2>13. QueryOK(z)
    BY <2>11, <2>12 DEF QueryOK
  <2>14. Asking'
    BY <2>7, <2>13, OneQueryChanges DEF Inductive
  <2>15. Exchange(q, "route", p) \in GoodExchange
    BY <2>6 DEF Exchange, GoodExchange, ExchangeType, Done, Phases
  <2>16. Exchanging'
    BY <2>1, <2>15 DEF Inductive, Exchanging
  <2> QED BY <1>1, <2>14, <2>16, QueryStep
<1> QED BY <1>5, <1>6

LEMMA PlanPreserves ==
  ASSUME Inductive, NEW q \in Queries, Plan(q)
  PROVE  Inductive'
<1> DEFINE x  == query[q]
           pl == [fallback |-> cfg.fb, onRcode |-> cfg.onRcode, gen |-> cfg.gen,
                  onError |-> cfg.onError, mode |-> cfg.mode]
           A  == Range(cfg.up) \cup Range(cfg.fb)
           y  == [x EXCEPT !.via = "default", !.allowed = A, !.plan = pl]
<1>1. /\ x.at = "plan"
      /\ UNCHANGED <<cfg, group, routes, stats, pool, closed, admin, sick>>
  BY DEF Plan
<1>2. QueryOK(x) /\ x \in QueryType
  BY DEF Inductive, Asking
<1>3. x.asked = {} /\ x.allowed = {}
  BY <1>1, <1>2 DEF QueryOK
<1>4. PICK aged :
        /\ query' = [query EXCEPT ![q] = Chained(y, "main", cfg.mode, cfg.up, aged)]
        /\ work' = work \cup Firsts(q, "main", cfg.mode, cfg.up, aged)
  <2>0. DefaultPath(x.allowed) = A
    BY <1>3 DEF DefaultPath
  <2>1. PICK aged :
          /\ query' = [query EXCEPT ![q] = Chained([@ EXCEPT !.via = "default", !.allowed = DefaultPath(x.allowed),
                                                             !.plan = pl],
                                                   "main", cfg.mode, cfg.up, aged)]
          /\ work' = work \cup Firsts(q, "main", cfg.mode, cfg.up, aged)
    BY DEF Plan
  <2>2. query' = [query EXCEPT ![q] = Chained(y, "main", cfg.mode, cfg.up, aged)]
    <3> HIDE DEF A, pl
    <3> QED BY <2>0, <2>1 DEF Inductive, Asking
  <2> QED BY <2>1, <2>2
<1>5. /\ cfg.up \in Seq(Of(cfg.gen)) /\ cfg.fb \in Seq(Of(cfg.gen)) /\ cfg.mode \in Modes
      /\ cfg.onRcode \in SUBSET {"nx", "servfail"} /\ cfg.onError \in BOOLEAN
      /\ cfg.main \in Seq(Names) /\ cfg.main # <<>> /\ Len(cfg.up) = Len(cfg.main)
  BY DEF Inductive, InForce, Accepted
<1>6. cfg.up # <<>>
  BY <1>5, EmptySeq
<1>7. Of(cfg.gen) \subseteq Provider
  BY DEF Of
<1>8. /\ A \subseteq Of(cfg.gen) /\ cfg.up \in Seq(Provider) /\ cfg.fb \in Seq(Provider)
  BY <1>5, <1>7, SeqWithin
<1>9. cfg.up \in Seq(A) /\ cfg.fb \in Seq(A)
  <2>1. cfg.up \in [1 .. Len(cfg.up) -> A] /\ cfg.fb \in [1 .. Len(cfg.fb) -> A]
        /\ Len(cfg.up) \in Nat /\ Len(cfg.fb) \in Nat
    BY <1>5, LenProperties DEF Range
  <2> HIDE DEF A
  <2> QED BY <2>1
<1>10. pl \in PlanType /\ pl.gen = cfg.gen /\ pl.fallback = cfg.fb
  BY <1>5, <1>8, GenerationInRange DEF PlanType, Inductive
<1> HIDE DEF pl, A
<1>11. /\ y \in QueryType /\ y.via = "default" /\ y.allowed = A /\ y.plan = pl /\ y.asked = {}
  BY <1>2, <1>3, <1>7, <1>8, <1>10 DEF QueryType, Vias
<1> HIDE DEF y
<1>12. QueryOK(Chained(y, "main", cfg.mode, cfg.up, aged))
  <2>1. "main" \in Phases /\ Counted
    BY DEF Phases, Inductive
  <2>2. y.asked \subseteq y.allowed /\ y.allowed \subseteq Of(y.plan.gen) /\ y.plan.fallback \in Seq(y.allowed)
    BY <1>8, <1>9, <1>10, <1>11
  <2>3. cfg.up \in Seq(y.allowed)
    BY <1>9, <1>11
  <2> QED BY <1>6, <1>11, <2>1, <2>2, <2>3, ChainedStaysOnPath
<1>13. Asking'
  BY <1>4, <1>12, OneQueryChanges DEF Inductive
<1>14. Firsts(q, "main", cfg.mode, cfg.up, aged) \subseteq GoodExchange
  BY <1>6, <1>8, FirstsAreGood DEF Inductive, Phases
<1>15. Exchanging'
  BY <1>4, <1>14 DEF Inductive, Exchanging
<1> QED BY <1>1, <1>13, <1>15, QueryStep

LEMMA RaceOverPreserves ==
  ASSUME Inductive, NEW q \in Queries, RaceOver(q)
  PROVE  Inductive'
<1>1. /\ query[q].at = "run" /\ EndChain(q, query[q], query[q].mctx, work)
      /\ UNCHANGED <<cfg, group, routes, stats, pool, closed, admin, sick>>
  BY DEF RaceOver
<1>2. work \in SUBSET GoodExchange /\ Asking /\ Counted
  BY DEF Inductive, Exchanging
<1>3. Asking' /\ Exchanging'
  BY <1>1, <1>2, EndChainKeepsPaths
<1> QED BY <1>1, <1>3, QueryStep

LEMMA MarkOverKeepsExchanges ==
  ASSUME Exchanging, NEW q, NEW phases, NEW why \in Over, MarkOver(q, phases, why)
  PROVE  Exchanging'
<1>1. ASSUME NEW w \in GoodExchange PROVE [w EXCEPT !.over = why] \in GoodExchange
  BY DEF GoodExchange, ExchangeType, Done, Over
<1> QED BY <1>1 DEF MarkOver, Exchanging

LEMMA CallerGonePreserves ==
  ASSUME Inductive, NEW q \in Queries, CallerGone(q)
  PROVE  Inductive'
<1> DEFINE x == query[q]
<1>1. /\ x.at = "run"
      /\ UNCHANGED <<cfg, group, routes, stats, pool, closed, admin, sick>>
  BY DEF CallerGone
<1>2. QueryOK(x) /\ x \in QueryType
  BY DEF Inductive, Asking
<1>3. PICK why \in Over :
        /\ query' = [query EXCEPT ![q].ctx = why, ![q].mctx = IF @ = "no" THEN why ELSE @]
        /\ MarkOver(q, {"main", "fallback", "group", "route"}, why)
  BY DEF CallerGone
<1> DEFINE m == IF x.mctx = "no" THEN why ELSE x.mctx
           z == [x EXCEPT !.ctx = why, !.mctx = m]
<1>4. why \in Done /\ m \in Done
  BY <1>2 DEF Done, QueryType
<1>5. query' = [query EXCEPT ![q] = z]
  BY <1>2, <1>3 DEF Inductive, Asking, QueryType
<1>6. QueryOK(z)
  <2> HIDE DEF x, m
  <2> QED BY <1>1, <1>2, <1>4, ContextChanges
<1>7. Asking'
  <2> HIDE DEF z
  <2> QED BY <1>5, <1>6, OneQueryChanges DEF Inductive
<1>8. Exchanging'
  BY <1>3, MarkOverKeepsExchanges DEF Inductive
<1> QED BY <1>1, <1>7, <1>8, QueryStep

LEMMA MainTimeoutPreserves ==
  ASSUME Inductive, NEW q \in Queries, MainTimeout(q)
  PROVE  Inductive'
<1> DEFINE x == query[q]
           z == [x EXCEPT !.mctx = "deadline"]
<1>1. /\ x.at = "run"
      /\ UNCHANGED <<cfg, group, routes, stats, pool, closed, admin, sick>>
  BY DEF MainTimeout
<1>2. QueryOK(x)
  BY DEF Inductive, Asking
<1>3. query' = [query EXCEPT ![q].mctx = "deadline"] /\ MarkOver(q, {"main"}, "deadline")
  BY DEF MainTimeout
<1>4. query' = [query EXCEPT ![q] = z]
  BY <1>3 DEF Inductive, Asking
<1>5. "deadline" \in Done /\ "deadline" \in Over
  BY DEF Done, Over
<1>6. QueryOK(z)
  <2> HIDE DEF x
  <2> QED BY <1>1, <1>2, <1>5, ContextChanges
<1>7. Asking'
  <2> HIDE DEF z
  <2> QED BY <1>4, <1>6, OneQueryChanges DEF Inductive
<1>8. Exchanging'
  BY <1>3, <1>5, MarkOverKeepsExchanges DEF Inductive
<1> QED BY <1>1, <1>7, <1>8, QueryStep


-----------------------------------------------------------------------------
(* Configuration calls.                                                    *)

(* Building the providers of a chain.                                      *)
LEMMA ChainIsBuilt ==
  ASSUME NEW c, NEW g \in 1 .. MaxConfigures + 1, NEW old, NEW names \in Seq(Names),
         \A n \in Names : stats[n].obj \in 1 .. MaxConfigures + 1
  PROVE  /\ BuildProviderSet(c, g, old, names) \in Seq(Of(g))
         /\ Len(BuildProviderSet(c, g, old, names)) = Len(names)
<1> DEFINE m == Len(names)
           b == BuildProviderSet(c, g, old, names)
<1>1. m \in Nat
  BY LenProperties
<1>2. b = [k \in 1 .. m |-> [name |-> names[k], gen |-> g, st |-> StatsOf(c, g, old, names[k])]]
  BY DEF BuildProviderSet
<1>3. ASSUME NEW k \in 1 .. m
      PROVE  [name |-> names[k], gen |-> g, st |-> StatsOf(c, g, old, names[k])] \in Of(g)
  <2>1. names[k] \in Names
    BY ElementOfSeq
  <2>2. StatsOf(c, g, old, names[k]) \in 0 .. MaxConfigures + 1
    <3>1. stats[names[k]].obj \in 1 .. MaxConfigures + 1 /\ MaxConfigures \in Nat
      BY <2>1, ResolverAssumption
    <3> QED BY <3>1 DEF StatsOf
  <2> QED BY <2>1, <2>2 DEF Of, Provider
<1>4. b \in [1 .. m -> Of(g)]
  <2> HIDE DEF m, b
  <2> QED BY <1>2, <1>3
<1>5. b \in Seq(Of(g)) /\ Len(b) = m
  <2> HIDE DEF m, b
  <2> QED BY <1>1, <1>4
<1> QED BY <1>5

(* A valid configuration is accepted.                                      *)
LEMMA ValidIsAccepted ==
  ASSUME NEW c \in Configs, Valid(c), NEW g \in 1 .. MaxConfigures + 1, NEW old,
         \A n \in Names : stats[n].obj \in 1 .. MaxConfigures + 1
  PROVE  Accepted(Installed(c, g, old)) /\ Installed(c, g, old).gen = g
<1> DEFINE new == Installed(c, g, old)
<1>1. /\ c.mode \in Modes /\ c.onRcode \subseteq {"nx", "servfail"} /\ c.onError \in BOOLEAN
      /\ c.main \in Seq(Names) /\ c.fallback \in Seq(Names)
      /\ \A d \in DOMAIN c.routes : d \in Seq(STRING) /\ d # <<>> /\ c.routes[d] \in Names
  BY ResolverAssumption
<1>2. /\ new.gen = g /\ new.mode = c.mode /\ new.onRcode = c.onRcode /\ new.onError = c.onError
      /\ new.main = c.main /\ new.routes = c.routes
      /\ new.up = BuildProviderSet(c, g, old, c.main) /\ new.fb = BuildProviderSet(c, g, old, c.fallback)
  BY DEF Installed
<1>3. /\ BuildProviderSet(c, g, old, c.main) \in Seq(Of(g))
      /\ Len(BuildProviderSet(c, g, old, c.main)) = Len(c.main)
      /\ BuildProviderSet(c, g, old, c.fallback) \in Seq(Of(g))
  BY <1>1, ChainIsBuilt
<1>4. g \in Nat /\ g >= 1 /\ c.main # <<>>
  BY ResolverAssumption DEF Valid
<1> HIDE DEF new
<1>5. Accepted(new) /\ new.gen = g
  BY <1>1, <1>2, <1>3, <1>4 DEF Accepted
<1> QED BY <1>5 DEF new

(* Groups of the service's configuration, bound to a configuration.        *)
LEMMA GroupsAreBound ==
  ASSUME NEW c, Accepted(c), NEW gc \in GroupConfigs
  PROVE  \A g \in DOMAIN Bind(c, gc) :
           g \in Groups /\ Bind(c, gc)[g] \in Seq(Range(c.up)) /\ Bind(c, gc)[g] # <<>>
<1>1. DOMAIN gc \subseteq Groups /\ \A g \in DOMAIN gc : gc[g] \in Seq(Names)
  BY ResolverAssumption
<1>2. c.main \in Seq(Names) /\ c.up \in Seq(Of(c.gen)) /\ Len(c.up) = Len(c.main)
  BY DEF Accepted
<1>3. /\ DOMAIN Bind(c, gc) \subseteq DOMAIN gc
      /\ \A g \in DOMAIN Bind(c, gc) : Bind(c, gc)[g] \in Seq(Range(c.up)) /\ Bind(c, gc)[g] # <<>>
  BY <1>1, <1>2, BindIsBound
<1> QED BY <1>1, <1>3

(* The IDs a bound table goes back to.                                     *)
LEMMA UnboundIsTable ==
  ASSUME Inductive
  PROVE  /\ DOMAIN Unbound(group) = DOMAIN group
         /\ \A g \in DOMAIN Unbound(group) : Unbound(group)[g] \in Seq(Names)
<1>1. DOMAIN Unbound(group) = DOMAIN group
  BY DEF Unbound
<1>2. ASSUME NEW g \in DOMAIN group PROVE Unbound(group)[g] \in Seq(Names)
  <2> DEFINE m == Len(group[g])
  <2>1. Unbound(group)[g] = [k \in 1 .. m |-> group[g][k].name]
    BY DEF Unbound
  <2>2. group[g] \in Seq(Range(cfg.up)) /\ cfg.up \in Seq(Of(cfg.gen))
    BY DEF Inductive, Grouped, InForce, Accepted
  <2>3. Of(cfg.gen) \subseteq Provider
    BY DEF Of
  <2>4. Range(cfg.up) \subseteq Provider
    BY <2>2, <2>3, SeqWithin
  <2>5. group[g] \in Seq(Provider)
    BY <2>2, <2>4, SeqWithin
  <2>6. m \in Nat /\ \A k \in 1 .. m : group[g][k] \in Provider
    BY <2>5, LenProperties, ElementOfSeq
  <2>7. \A k \in 1 .. m : group[g][k].name \in Names
    BY <2>6 DEF Provider
  <2>8. Unbound(group)[g] \in [1 .. m -> Names]
    <3> HIDE DEF m
    <3> QED BY <2>1, <2>7
  <2> HIDE DEF m
  <2> QED BY <2>6, <2>8
<1> QED BY <1>1, <1>2

(* The statistics a configuration call keeps or makes.                     *)
LEMMA ConfigureKeepsCounts ==
  ASSUME Inductive, NEW c, NEW L, NEW new, new.gen = cfg.gen + 1, cfg' = new,
         stats' = [n \in Names |-> IF n \in L /\ StatsOf(c, new.gen, cfg, n) = new.gen
                                     THEN [obj |-> new.gen, fails |-> 0] ELSE stats[n]],
         sick' = {n \in sick : stats'[n].obj = stats[n].obj}
  PROVE  Counted'
<1>1. cfg.gen \in Nat /\ cfg.gen >= 1
  BY DEF Inductive, InForce, Accepted
<1>2. stats \in [Names -> [obj : 1 .. cfg.gen, fails : Nat]] /\ sick \subseteq Names
  BY DEF Inductive, Counted
<1>3. ASSUME NEW n \in Names
      PROVE  stats'[n] \in [obj : 1 .. (cfg.gen + 1), fails : Nat] /\ (stats'[n].fails > 0 => n \in sick')
  <2>1. CASE stats'[n] = [obj |-> new.gen, fails |-> 0]
    <3>1. stats'[n].fails = 0 /\ new.gen \in 1 .. (cfg.gen + 1)
      BY <1>1, <2>1
    <3> QED BY <2>1, <3>1
  <2>2. CASE stats'[n] = stats[n]
    <3>1. stats[n] \in [obj : 1 .. (cfg.gen + 1), fails : Nat]
      BY <1>1, <1>2
    <3>2. stats[n].fails > 0 => n \in sick
      BY DEF Inductive, Counted
    <3> QED BY <2>2, <3>1, <3>2
  <2> QED BY <2>1, <2>2
<1>4. sick' \subseteq Names
  BY <1>2
<1>5. stats' \in [Names -> [obj : 1 .. (cfg.gen + 1), fails : Nat]]
  BY <1>3
<1> QED BY <1>3, <1>4, <1>5 DEF Counted

LEMMA ConfigurePreserves ==
  ASSUME Inductive, Configure
  PROVE  Inductive'
<1>1. admin.at = "idle" /\ admin.left > 0 /\ UNCHANGED <<closed, query, work>>
  BY DEF Configure
<1>2. PICK c \in Configs :
        IF Valid(c)
          THEN LET new == Installed(c, cfg.gen + 1, cfg)
               IN  /\ cfg' = new /\ group' = Rebind(new)
                   /\ stats' = [n \in Names |->
                                  IF n \in Listed(c) /\ StatsOf(c, new.gen, cfg, n) = new.gen
                                    THEN [obj |-> new.gen, fails |-> 0] ELSE stats[n]]
                   /\ sick' = {n \in sick : stats'[n].obj = stats[n].obj}
                   /\ pool' = [n \in Pooled |-> <<>>]
                   /\ routes' = << >>
                   /\ admin' = [admin EXCEPT !.at = "routes", !.left = @ - 1]
          ELSE UNCHANGED <<cfg, group, stats, sick, pool, routes, admin>>
  BY DEF Configure
<1>3. Asking' /\ Exchanging'
  BY <1>1, QueriesKept DEF Inductive
<1>4. CASE ~Valid(c)
  <2>1. UNCHANGED <<cfg, group, stats, sick, pool, routes, admin>>
    BY <1>2, <1>4
  <2> QED BY <1>1, <1>3, <2>1, QueryStep
<1>5. CASE Valid(c)
  <2> DEFINE g   == cfg.gen + 1
             new == Installed(c, g, cfg)
  <2>1. /\ cfg' = new /\ group' = Rebind(new)
        /\ stats' = [n \in Names |->
                       IF n \in Listed(c) /\ StatsOf(c, new.gen, cfg, n) = new.gen
                         THEN [obj |-> new.gen, fails |-> 0] ELSE stats[n]]
        /\ sick' = {n \in sick : stats'[n].obj = stats[n].obj}
        /\ pool' = [n \in Pooled |-> <<>>]
        /\ routes' = << >>
        /\ admin' = [admin EXCEPT !.at = "routes", !.left = @ - 1]
    BY <1>2, <1>5
  <2>2. /\ admin \in [at : {"idle", "routes", "groups"}, groups : GroupConfigs, left : Nat]
        /\ cfg.gen \in Nat /\ cfg.gen >= 1 /\ cfg.gen + admin.left <= MaxConfigures + 1
        /\ MaxConfigures \in Nat
    BY ResolverAssumption DEF Inductive, InForce, Accepted
  <2>3. g \in 1 .. MaxConfigures + 1
    BY <1>1, <2>2
  <2>4. \A n \in Names : stats[n].obj \in 1 .. MaxConfigures + 1
    <3>1. \A n \in Names : stats[n].obj \in 1 .. cfg.gen
      BY DEF Inductive, Counted
    <3> QED BY <2>2, <2>3, <3>1
  <2>5. Accepted(new) /\ new.gen = g
    <3> HIDE DEF g
    <3> QED BY <1>5, <2>3, <2>4, ValidIsAccepted
  <2> HIDE DEF new
  <2>6. InForce'
    <3>0. admin.left \in Nat /\ admin.left - 1 \in Nat
      BY <1>1, <2>2
    <3>1. admin' \in [at : {"idle", "routes", "groups"}, groups : GroupConfigs, left : Nat]
          /\ admin'.left = admin.left - 1
      <4> DEFINE l == admin.left - 1
      <4>1. admin' = [admin EXCEPT !.at = "routes", !.left = l]
        BY <2>1, <2>2
      <4> HIDE DEF l
      <4>2. admin' \in [at : {"idle", "routes", "groups"}, groups : GroupConfigs, left : Nat] /\ admin'.left = l
        BY <2>2, <3>0, <4>1 DEF l
      <4> QED BY <4>2 DEF l
    <3>2. new.gen + admin'.left <= MaxConfigures + 1
      BY <2>2, <2>5, <3>0, <3>1
    <3> QED BY <2>1, <2>5, <3>1, <3>2 DEF InForce
  <2>7. Grouped'
    <3> DEFINE u == Unbound(group)
    <3>1. DOMAIN u = DOMAIN group /\ \A h \in DOMAIN u : u[h] \in Seq(Names)
      BY UnboundIsTable
    <3>2. new.main \in Seq(Names) /\ new.up \in Seq(Of(new.gen)) /\ Len(new.up) = Len(new.main)
      BY <2>5 DEF Accepted
    <3>3. group' = Bind(new, u)
      BY <2>1 DEF Rebind
    <3> HIDE DEF u
    <3>4. /\ DOMAIN Bind(new, u) \subseteq DOMAIN u
          /\ \A h \in DOMAIN Bind(new, u) : Bind(new, u)[h] \in Seq(Range(new.up)) /\ Bind(new, u)[h] # <<>>
      BY <3>1, <3>2, BindIsBound
    <3>5. \A h \in DOMAIN group : h \in Groups
      BY DEF Inductive, Grouped
    <3>6. \A h \in DOMAIN group' : h \in Groups /\ group'[h] \in Seq(Range(cfg'.up)) /\ group'[h] # <<>>
      BY <2>1, <3>1, <3>3, <3>4, <3>5
    <3>7. admin'.at # "idle"
      BY <2>1, <2>2
    <3> QED BY <3>6, <3>7 DEF Grouped
  <2>8. Routed'
    <3>1. admin'.at = "routes"
      BY <2>1, <2>2
    <3>2. DOMAIN routes' = {}
      BY <2>1
    <3> QED BY <3>1, <3>2 DEF Routed, Locked
  <2>9. Counted'
    BY <2>1, <2>5, ConfigureKeepsCounts
  <2>10. Pools'
    <3>1. \A n \in Pooled : pool'[n] = <<>>
      BY <2>1
    <3>2. <<>> \in Seq(Nat) /\ Len(<<>>) = 0 /\ MaxIdle \in Nat
      BY EmptySeq, ResolverAssumption
    <3>3. pool' \in [Pooled -> Seq(Nat)]
      BY <2>1, <3>2
    <3>4. \A n \in Pooled : Len(pool'[n]) <= MaxIdle
      BY <3>1, <3>2
    <3>5. closed' \in {"no", "closing", "yes"}
      BY <1>1 DEF Inductive, Pools
    <3> QED BY <3>1, <3>3, <3>4, <3>5 DEF Pools, ClosedPoolIsEmpty
  <2> QED BY <1>3, <2>6, <2>7, <2>8, <2>9, <2>10 DEF Inductive
<1> QED BY <1>4, <1>5


(* The call goes on to its next part.                                      *)
LEMMA AdminMoves ==
  ASSUME InForce, NEW a \in {"idle", "routes", "groups"}, admin' = [admin EXCEPT !.at = a], UNCHANGED cfg
  PROVE  InForce' /\ admin'.at = a /\ admin'.groups = admin.groups
<1>1. /\ admin' \in [at : {"idle", "routes", "groups"}, groups : GroupConfigs, left : Nat]
      /\ admin'.left = admin.left /\ admin'.at = a /\ admin'.groups = admin.groups
  BY DEF InForce
<1> QED BY <1>1 DEF InForce

(* One more route of the configuration.                                    *)
LEMMA SetRoutePreserves ==
  ASSUME Inductive, SetRoute
  PROVE  Inductive'
<1>1. PICK d \in DOMAIN cfg.routes \ DOMAIN routes :
        routes' = [e \in DOMAIN routes \cup {d} |-> RouteProvider(cfg, cfg.gen, e)]
  BY DEF SetRoute
<1>2. admin.at = "routes" /\ UNCHANGED <<cfg, group, stats, pool, closed, query, work, admin, sick>>
  BY DEF SetRoute
<1>3. InForce' /\ Grouped'
  BY <1>2 DEF Inductive, InForce, Accepted, Grouped
<1>4. Routed'
  <2>1. DOMAIN routes' = DOMAIN routes \cup {d}
    BY <1>1
  <2>2. DOMAIN routes' \subseteq DOMAIN cfg'.routes
    BY <1>2, <2>1 DEF Inductive, Routed
  <2>3. \A e \in DOMAIN routes' : routes'[e] = RouteProvider(cfg', cfg'.gen, e)
    BY <1>1, <1>2, <2>1 DEF RouteProvider
  <2>4. Locked'
    BY <1>2 DEF Locked
  <2> QED BY <2>2, <2>3, <2>4 DEF Routed, RouteProvider
<1>5. Counted' /\ Pools' /\ Asking' /\ Exchanging'
  BY <1>2, CountsKept, PoolsKept, QueriesKept DEF Inductive
<1> QED BY <1>3, <1>4, <1>5 DEF Inductive

LEMMA RoutesDonePreserves ==
  ASSUME Inductive, RoutesDone
  PROVE  Inductive'
<1>1. /\ DOMAIN cfg.routes \subseteq DOMAIN routes /\ admin' = [admin EXCEPT !.at = "groups"]
      /\ UNCHANGED <<cfg, group, routes, stats, pool, closed, query, work, sick>>
  BY DEF RoutesDone
<1>2. InForce' /\ admin'.at = "groups"
  <2>1. InForce
    BY DEF Inductive
  <2> QED BY <1>1, <2>1, AdminMoves
<1>3. Grouped'
  BY <1>1, <1>2 DEF Inductive, Grouped
<1>4. Routed'
  BY <1>1 DEF Inductive, Routed, RouteProvider
<1>5. Counted' /\ Pools' /\ Asking' /\ Exchanging'
  BY <1>1, CountsKept, PoolsKept, QueriesKept DEF Inductive
<1> QED BY <1>2, <1>3, <1>4, <1>5 DEF Inductive

LEMMA ConfigureGroupsPreserves ==
  ASSUME Inductive, ConfigureGroups
  PROVE  Inductive'
<1>1. /\ group' = Bind(cfg, admin.groups) /\ admin' = [admin EXCEPT !.at = "idle"]
      /\ UNCHANGED <<cfg, routes, stats, pool, closed, query, work, sick>>
  BY DEF ConfigureGroups
<1>2. InForce' /\ admin'.groups = admin.groups
  <2>1. InForce
    BY DEF Inductive
  <2> QED BY <1>1, <2>1, AdminMoves
<1>3. Grouped'
  <2>1. Accepted(cfg) /\ admin.groups \in GroupConfigs
    BY DEF Inductive, InForce
  <2>2. \A g \in DOMAIN Bind(cfg, admin.groups) :
          /\ g \in Groups /\ Bind(cfg, admin.groups)[g] \in Seq(Range(cfg.up))
          /\ Bind(cfg, admin.groups)[g] # <<>>
    BY <2>1, GroupsAreBound
  <2> QED BY <1>1, <1>2, <2>2 DEF Grouped
<1>4. Routed'
  <2>1. ~Locked
    BY DEF ConfigureGroups, Locked
  <2> QED BY <1>1, <2>1 DEF Inductive, Routed, RouteProvider
<1>5. Counted' /\ Pools' /\ Asking' /\ Exchanging'
  BY <1>1, CountsKept, PoolsKept, QueriesKept DEF Inductive
<1> QED BY <1>2, <1>3, <1>4, <1>5 DEF Inductive

LEMMA SetGroupUpstreamsPreserves ==
  ASSUME Inductive, SetGroupUpstreams
  PROVE  Inductive'
<1>1. PICK gc \in GroupConfigs : group' = Bind(cfg, gc) /\ admin' = [admin EXCEPT !.groups = gc]
  BY DEF SetGroupUpstreams
<1>2. UNCHANGED <<cfg, routes, stats, pool, closed, query, work, sick>>
  BY DEF SetGroupUpstreams
<1>3. InForce' /\ admin'.groups = gc
  <2>1. /\ admin' \in [at : {"idle", "routes", "groups"}, groups : GroupConfigs, left : Nat]
        /\ admin'.left = admin.left /\ admin'.groups = gc
    BY <1>1 DEF Inductive, InForce
  <2> QED BY <1>2, <2>1 DEF Inductive, InForce
<1>4. Grouped'
  <2>1. Accepted(cfg)
    BY DEF Inductive, InForce
  <2>2. \A g \in DOMAIN Bind(cfg, gc) :
          g \in Groups /\ Bind(cfg, gc)[g] \in Seq(Range(cfg.up)) /\ Bind(cfg, gc)[g] # <<>>
    BY <2>1, GroupsAreBound
  <2> QED BY <1>1, <1>2, <1>3, <2>2 DEF Grouped
<1>5. Routed'
  <2>1. ~Locked
    BY DEF SetGroupUpstreams, Locked
  <2> QED BY <1>2, <2>1 DEF Inductive, Routed, RouteProvider
<1>6. Counted' /\ Pools' /\ Asking' /\ Exchanging'
  BY <1>2, CountsKept, PoolsKept, QueriesKept DEF Inductive
<1> QED BY <1>3, <1>4, <1>5, <1>6 DEF Inductive

LEMMA ShutdownPreserves ==
  ASSUME Inductive, Shutdown
  PROVE  Inductive'
<1>1. /\ admin.at = "idle" /\ admin.left > 0 /\ closed' = "closing"
      /\ admin' = [admin EXCEPT !.left = @ - 1]
      /\ UNCHANGED <<cfg, group, routes, stats, pool, query, work, sick>>
  BY DEF Shutdown
<1> DEFINE l == admin.left - 1
<1>2. admin \in [at : {"idle", "routes", "groups"}, groups : GroupConfigs, left : Nat]
      /\ cfg.gen \in Nat /\ cfg.gen + admin.left <= MaxConfigures + 1 /\ MaxConfigures \in Nat
  BY ResolverAssumption DEF Inductive, InForce, Accepted
<1>3. admin.left \in Nat
  BY <1>2
<1>4. l \in Nat /\ cfg.gen + l <= MaxConfigures + 1
  BY <1>1, <1>2, <1>3
<1>5. admin' = [admin EXCEPT !.left = l]
  BY <1>1, <1>2
<1> HIDE DEF l
<1>6. /\ admin' \in [at : {"idle", "routes", "groups"}, groups : GroupConfigs, left : Nat]
      /\ admin'.left = l /\ admin'.at = admin.at /\ admin'.groups = admin.groups
  BY <1>2, <1>4, <1>5
<1>7. InForce'
  BY <1>1, <1>4, <1>6 DEF Inductive, InForce
<1>8. Grouped'
  BY <1>1, <1>6 DEF Inductive, Grouped
<1>9. Routed'
  <2>1. ~Locked
    BY <1>1 DEF Locked
  <2> QED BY <1>1, <2>1 DEF Inductive, Routed, RouteProvider
<1>10. Pools'
  BY <1>1 DEF Inductive, Pools, ClosedPoolIsEmpty
<1>11. Counted' /\ Asking' /\ Exchanging'
  BY <1>1, CountsKept, QueriesKept DEF Inductive
<1> QED BY <1>7, <1>8, <1>9, <1>10, <1>11 DEF Inductive

LEMMA DrainPreserves ==
  ASSUME Inductive, Drain
  PROVE  Inductive'
<1>1. /\ closed' = "yes" /\ pool' = [n \in Pooled |-> <<>>]
      /\ UNCHANGED <<cfg, group, routes, stats, query, work, admin, sick>>
  BY DEF Drain
<1>2. Pools'
  <2>1. \A n \in Pooled : pool'[n] = <<>>
    BY <1>1
  <2>2. <<>> \in Seq(Nat) /\ Len(<<>>) = 0 /\ MaxIdle \in Nat
    BY EmptySeq, ResolverAssumption
  <2>3. pool' \in [Pooled -> Seq(Nat)]
    BY <1>1, <2>2
  <2>4. \A n \in Pooled : Len(pool'[n]) <= MaxIdle
    BY <2>1, <2>2
  <2> QED BY <1>1, <2>1, <2>3, <2>4 DEF Pools, ClosedPoolIsEmpty
<1>3. InForce' /\ Grouped' /\ Routed' /\ Counted' /\ Asking' /\ Exchanging'
  BY <1>1, ConfigurationKept, CountsKept, QueriesKept DEF Inductive
<1> QED BY <1>2, <1>3 DEF Inductive

-----------------------------------------------------------------------------
(* The theorems.                                                           *)
LEMMA InitIsInductive ==
  ASSUME Init
  PROVE  Inductive
<1>1. /\ stats = [n \in Names |-> [obj |-> 1, fails |-> 0]]
      /\ pool = [n \in Pooled |-> <<>>] /\ closed = "no"
      /\ query = [q \in Queries |-> Idle] /\ work = {} /\ sick = {}
  BY DEF Init
<1>2. PICK c \in Configs, gc \in GroupConfigs :
        /\ Valid(c)
        /\ cfg = Installed(c, 1, NoConfig) /\ group = Bind(cfg, gc)
        /\ routes = RouteProviders(c, 1)
        /\ admin = [at |-> "idle", groups |-> gc, left |-> MaxConfigures]
  BY DEF Init
<1>3. MaxConfigures \in Nat /\ MaxIdle \in Nat /\ 1 \in 1 .. MaxConfigures + 1
  BY ResolverAssumption
<1>4. Accepted(cfg) /\ cfg.gen = 1
  <2>1. \A n \in Names : stats[n].obj \in 1 .. MaxConfigures + 1
    BY <1>1, <1>3
  <2> QED BY <1>2, <1>3, <2>1, ValidIsAccepted
<1>5. InForce
  BY <1>2, <1>3, <1>4 DEF InForce
<1>6. Grouped
  <2>1. \A g \in DOMAIN Bind(cfg, gc) :
          g \in Groups /\ Bind(cfg, gc)[g] \in Seq(Range(cfg.up)) /\ Bind(cfg, gc)[g] # <<>>
    BY <1>4, GroupsAreBound
  <2> QED BY <1>2, <2>1 DEF Grouped
<1>7. Routed
  <2>1. cfg.routes = c.routes
    BY <1>2 DEF Installed
  <2>2. routes = [d \in DOMAIN cfg.routes |-> RouteProvider(cfg, 1, d)]
    BY <1>2, <2>1 DEF RouteProviders, RouteProvider
  <2> QED BY <1>4, <2>2 DEF Routed
<1>8. Counted
  BY <1>1, <1>4 DEF Counted
<1>9. Pools
  <2>1. <<>> \in Seq(Nat) /\ Len(<<>>) = 0
    BY EmptySeq
  <2> QED BY <1>1, <1>3, <2>1 DEF Pools, ClosedPoolIsEmpty
<1>10. Asking
  <2>1. Idle.asked = {} /\ Idle.rest = <<>> /\ Idle.allowed = {} /\ Idle.at = "idle"
    BY DEF Idle
  <2>2. Idle.rest \in Seq(Idle.allowed)
    BY <2>1, EmptySeq
  <2>3. QueryOK(Idle)
    BY <2>1, <2>2, IdleIsQuery DEF QueryOK
  <2> QED BY <1>1, <2>3, IdleIsQuery DEF Asking
<1>11. Exchanging
  BY <1>1 DEF Exchanging
<1> QED BY <1>5, <1>6, <1>7, <1>8, <1>9, <1>10, <1>11 DEF Inductive

LEMMA NextPreserves ==
  ASSUME Inductive, [Next]_vars
  PROVE  Inductive'
<1>1. CASE Configure
  BY <1>1, ConfigurePreserves
<1>2. CASE ConfigureRoutes
  BY <1>2, SetRoutePreserves, RoutesDonePreserves DEF ConfigureRoutes
<1>3. CASE ConfigureGroups
  BY <1>3, ConfigureGroupsPreserves
<1>4. CASE SetGroupUpstreams
  BY <1>4, SetGroupUpstreamsPreserves
<1>5. CASE Shutdown
  BY <1>5, ShutdownPreserves
<1>6. CASE Drain
  BY <1>6, DrainPreserves
<1>7. ASSUME NEW q \in Queries, NewQuery(q) \/ Begin(q) \/ RaceOver(q) \/ CallerGone(q) \/ MainTimeout(q)
      PROVE  Inductive'
  <2>1. CASE NewQuery(q)
    BY <2>1, NewQueryPreserves
  <2>2. CASE GroupChain(q)
    BY <2>2, GroupChainPreserves
  <2>3. CASE MatchRoute(q)
    BY <2>3, MatchRoutePreserves
  <2>4. CASE Plan(q)
    BY <2>4, PlanPreserves
  <2>5. CASE RaceOver(q)
    BY <2>5, RaceOverPreserves
  <2>6. CASE CallerGone(q)
    BY <2>6, CallerGonePreserves
  <2>7. CASE MainTimeout(q)
    BY <2>7, MainTimeoutPreserves
  <2> QED BY <1>7, <2>1, <2>2, <2>3, <2>4, <2>5, <2>6, <2>7 DEF Begin
<1>8. ASSUME NEW w \in work, Step(w)
      PROVE  Inductive'
  <2>1. CASE PlainExchange(w)
    BY <2>1, PlainPreserves
  <2>2. CASE DohExchange(w)
    BY <2>2, DohPreserves
  <2>3. CASE PopIdleConn(w)
    BY <2>3, PopPreserves
  <2>4. CASE Execute(w)
    BY <2>4, ExecutePreserves
  <2>5. CASE DialFreshConn(w)
    BY <2>5, DialPreserves
  <2>6. CASE PutIdleConn(w)
    BY <2>6, PutPreserves
  <2> QED BY <1>8, <2>1, <2>2, <2>3, <2>4, <2>5, <2>6 DEF Step
<1>9. CASE UNCHANGED vars
  <2>1. UNCHANGED <<cfg, group, routes, stats, pool, closed, query, work, admin, sick>>
    BY <1>9 DEF vars
  <2>2. Asking' /\ Exchanging'
    BY <2>1, QueriesKept DEF Inductive
  <2> QED BY <2>1, <2>2, QueryStep
<1> QED BY <1>1, <1>2, <1>3, <1>4, <1>5, <1>6, <1>7, <1>8, <1>9 DEF Next

(* What the invariant is for.                                              *)
LEMMA InductiveIsEnough ==
  ASSUME Inductive
  PROVE  PathsHold /\ FailuresAreFair
<1>1. TypeOK
  <2>1. /\ cfg.gen \in 1 .. MaxConfigures + 1
        /\ \A k \in DOMAIN cfg.up : cfg.up[k] \in Provider
    <3>1. cfg.up \in Seq(Of(cfg.gen)) /\ Of(cfg.gen) \subseteq Provider
      BY DEF Inductive, InForce, Accepted, Of
    <3>2. \A k \in DOMAIN cfg.up : cfg.up[k] \in Of(cfg.gen)
      BY <3>1, LenProperties, ElementOfSeq
    <3> QED BY <3>1, <3>2, GenerationInRange DEF Inductive
  <2>2. \A g \in DOMAIN group : g \in Groups /\ group[g] # <<>>
    BY DEF Inductive, Grouped
  <2>3. \A n \in Names : stats[n].obj \in 1 .. cfg.gen /\ stats[n].fails \in Nat
    BY DEF Inductive, Counted
  <2>4. /\ \A n \in Pooled : Len(pool[n]) <= MaxIdle
        /\ closed \in {"no", "closing", "yes"} /\ sick \subseteq Names
    BY DEF Inductive, Pools, Counted
  <2>5. \A q \in Queries : query[q].at \in {"idle", "match", "chain", "plan", "run"} \cup Ended
    BY DEF Inductive, Asking, QueryType
  <2>6. \A w \in work : w.p \in Provider /\ w.over \in {"no"} \cup Over /\ w.ans \in Replies \cup {"none"}
    BY DEF Inductive, Exchanging, GoodExchange, ExchangeType, Done
  <2> QED BY <2>1, <2>2, <2>3, <2>4, <2>5, <2>6 DEF TypeOK
<1>2. OnItsPath
  <2>1. ASSUME NEW q \in Queries
        PROVE  /\ query[q].asked \subseteq query[q].allowed
               /\ \A p \in query[q].asked : p.gen = query[q].plan.gen
    <3>1. QueryOK(query[q])
      BY DEF Inductive, Asking
    <3> QED BY <3>1 DEF QueryOK, Of
  <2> QED BY <2>1 DEF OnItsPath
<1>3. GroupsFollowConfig
  <2>1. ASSUME NEW g \in DOMAIN group PROVE Range(group[g]) \subseteq Range(cfg.up)
    <3>1. group[g] \in Seq(Range(cfg.up))
      BY DEF Inductive, Grouped
    <3> QED BY <3>1, SeqWithin
  <2> QED BY <2>1 DEF Inductive, Grouped, GroupsFollowConfig
<1>4. FailsOnlyAfterFallback
  <2>1. ASSUME NEW q \in Queries, query[q].at = "failed", query[q].via = "default" PROVE Promised(query[q])
    BY <2>1 DEF Inductive, Asking, QueryOK
  <2> QED BY <2>1 DEF FailsOnlyAfterFallback, Promised
<1>5. OnlyTheSickAreBlamed
  BY DEF Inductive, Counted, OnlyTheSickAreBlamed
<1>6. ClosedPoolIsEmpty
  BY DEF Inductive, Pools
<1> QED BY <1>1, <1>2, <1>3, <1>4, <1>5, <1>6 DEF PathsHold, FailuresAreFair

(* A query asks only the upstreams of its group, the configured route of   *)
(* the longest suffix of its name, or the two chains when no route is      *)
(* configured for it; what it asks is of one configuration, while other    *)
(* calls replace the configuration.  A query that looks for its route      *)
(* between ClearRoutes and the last SetRoute (resolver.go:270-303) may     *)
(* take that of a shorter suffix or miss it.  Between the calls every      *)
(* group is bound to the providers in force (resolver_groups.go).          *)
THEOREM EveryPathHolds == Spec => []PathsHold
<1>1. Init => Inductive
  BY InitIsInductive
<1>2. Inductive /\ [Next]_vars => Inductive'
  BY NextPreserves
<1>3. Inductive => PathsHold
  BY InductiveIsEnough
<1> QED BY <1>1, <1>2, <1>3, PTL DEF Spec

(* A query fails for a caller that still waits only after the fallback     *)
(* chain it was promised has been asked, only a provider that failed is    *)
(* counted as failing, and a closed pool keeps no connection               *)
(* (scheduler_fallback.go, resolveWithFallback; scheduler.go,              *)
(* queryWithValidation; resolver_dot.go, putIdleConn).                     *)
THEOREM EveryFailureIsFair == Spec => []FailuresAreFair
<1>1. Init => Inductive
  BY InitIsInductive
<1>2. Inductive /\ [Next]_vars => Inductive'
  BY NextPreserves
<1>3. Inductive => FailuresAreFair
  BY InductiveIsEnough
<1> QED BY <1>1, <1>2, <1>3, PTL DEF Spec
=============================================================================
