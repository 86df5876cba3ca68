----------------------------- MODULE ZoneEngine -----------------------------
(***************************************************************************)
(* Local authoritative zones (internal/core/custom_zone.go).               *)
(*                                                                         *)
(* The engine parses every enabled zone of the configuration under three   *)
(* limits, merges their records into one index and answers queries from    *)
(* it: a name at or below the apex of a loaded zone is answered here, even  *)
(* when there is no record, and is never asked upstream.  A CNAME is       *)
(* followed inside the zones.                                              *)
(*                                                                         *)
(* A name is a sequence of labels, most specific first, so "below" is      *)
(* "has as a suffix".  A zone text is a sequence of lines: a record, a      *)
(* record of another class, or a line the parser rejects.                  *)
(***************************************************************************)
EXTENDS Naturals, Sequences, SequencesExt, FiniteSets, Relation

CONSTANTS Names,          \* the names asked for
          Types,          \* query types, "CNAME" and "ANY" among them
          ZoneConfigs,    \* the configurations a user may submit
          MaxZoneCount,   \* zones that are parsed
          MaxZoneRecords, \* records over all zones
          MaxChase        \* names one CNAME walk may visit

VARIABLES conf,    \* p.cfg.Zone
          index    \* the engine: what build installed

zoneVars == <<conf, index>>

----------------------------------------------------------------------------
(* Building the index. *)

MutScan(text, budget) ==
  [kept |-> SelectSeq(text, LAMBDA r : r.type \notin {"reject", "chaos"}),
   trunc |-> FALSE, failed |-> \E i \in DOMAIN text : text[i].type = "reject"]

\* The records of a text that are kept: the parser stops at the first
\* line it rejects, and before a line that would exceed the budget.
\* Records of another class are skipped and cost nothing.
Scan(text, budget) ==
  LET F[i \in 0..Len(text)] ==
        IF i = 0 THEN [kept |-> <<>>, trunc |-> FALSE, failed |-> FALSE]
        ELSE LET p == F[i - 1] IN
          IF p.trunc \/ p.failed THEN p
          ELSE IF text[i].type = "reject" THEN [p EXCEPT !.failed = TRUE]
          ELSE IF Len(p.kept) >= budget THEN [p EXCEPT !.trunc = TRUE]
          ELSE IF text[i].type = "chaos" THEN p
          ELSE [p EXCEPT !.kept = Append(@, text[i])]
  IN F[Len(text)]

\* A zone without an apex is refused, one without text is loaded empty.
ParseZoneEntry(entry, budget) ==
  LET scan == Scan(entry.text, budget)
  IN IF entry.origin = <<>> \/ scan.failed
     THEN [loaded |-> FALSE, records |-> <<>>]
     ELSE [loaded |-> TRUE, records |-> scan.kept]

MutSkipped(i, entry, budget) == i > MaxZoneCount \/ ~entry.enabled \/ entry.long \/ budget <= 1

\* Why a zone is not even parsed: it is one too many, it is switched off, its
\* text is too long, or the zones before it used up the record budget.
Skipped(i, entry, budget) ==
  \/ i > MaxZoneCount
  \/ ~entry.enabled
  \/ entry.long
  \/ budget <= 0

MutSortOrigins(origins) == origins

\* Longest apex first; zones with equally long apexes keep their order.
SortOrigins(origins) ==
  LET depth == {Len(origins[i]) : i \in DOMAIN origins}
      deepest == CHOOSE d \in 0..4 : \A e \in depth : e <= d
      OfDepth(d) == SelectSeq(origins, LAMBDA o : Len(o) = deepest - d)
      F[d \in 0..deepest] == IF d = 0 THEN OfDepth(0) ELSE F[d - 1] \o OfDepth(d)
  IN F[deepest]

\* build: zone after zone, each with what the ones before it left over.
Build(cfg) ==
  LET Zone == cfg.zones
      F[i \in 0..Len(Zone)] ==
        IF i = 0 THEN [records |-> <<>>, origins |-> <<>>, budget |-> MaxZoneRecords]
        ELSE LET p == F[i - 1]
                 z == ParseZoneEntry(Zone[i], p.budget)
             IN IF Skipped(i, Zone[i], p.budget) \/ ~z.loaded THEN p
                ELSE [records |-> p.records \o z.records,
                      origins |-> Append(p.origins, Zone[i].origin),
                      budget  |-> p.budget - Len(z.records)]
      all == F[Len(Zone)]
  IN [enabled |-> cfg.enabled, records |-> all.records,
      origins |-> SortOrigins(all.origins)]

----------------------------------------------------------------------------
(* Lookup. *)

Below(name, origin) == IsSuffix(origin, name)

\* The apex of the first zone in the list that the name belongs to.
AuthoritativeOrigin(idx, name) ==
  LET hits == {i \in DOMAIN idx.origins : Below(name, idx.origins[i])}
  IN IF hits = {} THEN <<>>
     ELSE idx.origins[CHOOSE i \in hits : \A j \in hits : i <= j]

Local(idx, name) == \E i \in DOMAIN idx.origins : Below(name, idx.origins[i])

\* The records of a name with a type; "ANY" stands for every type.
RRs(idx, name, type) ==
  SelectSeq(idx.records,
            LAMBDA r : r.name = name /\ (type = "ANY" \/ r.type = type))

MutChase(idx, target, type, visited) == [rrs |-> RRs(idx, target, type), visited |-> visited]

\* chaseLocked: the records found behind a CNAME's target, and the names seen
\* on the way.  A name seen before, or outside the zones, ends the walk.
RECURSIVE Chase(_, _, _, _)
Chase(idx, target, type, visited) ==
  LET seen == visited \cup {target}
      stop == [rrs |-> <<>>, visited |-> seen]
      own  == RRs(idx, target, type)
      cn   == RRs(idx, target, "CNAME")
      F[i \in 0..Len(cn)] ==
        IF i = 0 THEN stop
        ELSE LET p == F[i - 1]
                 q == Chase(idx, cn[i].target, type, p.visited)
             IN [rrs |-> Append(p.rrs, cn[i]) \o q.rrs, visited |-> q.visited]
  IN IF Cardinality(visited) > MaxChase \/ target \in visited
     THEN [rrs |-> <<>>, visited |-> visited]
     ELSE IF ~Local(idx, target) THEN stop
     ELSE IF own # <<>> THEN [rrs |-> own, visited |-> seen]
     ELSE F[Len(cn)]

\* The answer of the zones: whether the name is theirs, under which apex (its
\* SOA goes with a negative answer), and the records.
Lookup(idx, name, type) ==
  LET own == RRs(idx, name, type)
      cn  == RRs(idx, name, "CNAME")
      F[i \in 0..Len(cn)] ==
        IF i = 0 THEN cn
        ELSE F[i - 1] \o Chase(idx, cn[i].target, type, {name}).rrs
      chain == F[Len(cn)]
      found == IF own # <<>> THEN own
               ELSE IF type \in {"CNAME", "ANY"} \/ Len(chain) = Len(cn) THEN <<>>
               ELSE chain
      mine == idx.enabled /\ Local(idx, name)
  IN [matched |-> mine,
      origin  |-> IF mine THEN AuthoritativeOrigin(idx, name) ELSE <<>>,
      answers |-> IF mine THEN found ELSE <<>>]

----------------------------------------------------------------------------
ZoneInit == conf \in ZoneConfigs /\ index = Build(conf)

\* ConfigureZone holds the controller's lock over build and the assignment.
ConfigureZone ==
  \E c \in ZoneConfigs : conf' = c /\ index' = Build(c)

ZoneNext == ConfigureZone

----------------------------------------------------------------------------
(* The reference the index and the walk are compared with. *)

\* The names a walk passes through on its way to a record of the type.
Reaches(idx, name, type) ==
  LET steps == {<<r.name, r.target>> : r \in
                  {q \in Range(idx.records) :
                     /\ q.type = "CNAME"
                     /\ RRs(idx, q.name, type) = <<>>
                     /\ Local(idx, q.target)}}
      nodes == UNION {{s[1], s[2]} : s \in steps} \cup {name}
      reach == ReflexiveTransitiveClosure([x, y \in nodes |-> <<x, y>> \in steps], nodes)
  IN \E m \in nodes : reach[name, m] /\ RRs(idx, m, type) # <<>>

\* The zones that are served, read off the configuration alone.
Served(cfg) ==
  {i \in DOMAIN cfg.zones :
     /\ i <= MaxZoneCount /\ cfg.zones[i].enabled /\ ~cfg.zones[i].long
     /\ cfg.zones[i].origin # <<>>
     /\ \A r \in Range(cfg.zones[i].text) : r.type # "reject"
     /\ Len(FlattenSeq([j \in 1..(i - 1) |-> cfg.zones[j].text])) < MaxZoneRecords}

\* A name at or below the apex of a zone that is switched on and well formed
\* is answered here and never forwarded; the zone that answers is the deepest
\* one that covers the name; and a record of the asked type is in the answer
\* exactly when a walk over the CNAMEs of the zones leads to one.
LookupAgrees ==
  \A n \in Names, t \in Types :
    LET a == Lookup(index, n, t) IN
      /\ \A i \in Served(conf) :
           conf.enabled /\ Below(n, conf.zones[i].origin) => a.matched
      /\ a.matched => \A i \in DOMAIN index.origins :
           Below(n, index.origins[i]) => Len(index.origins[i]) <= Len(a.origin)
      /\ a.matched /\ t \notin {"ANY", "CNAME"} =>
           ((\E r \in Range(a.answers) : r.type = t) <=> Reaches(index, n, t))

\* The records of all zones together never exceed the limit, whatever the
\* texts expand to.
RecordsBounded == Len(index.records) <= MaxZoneRecords
=============================================================================
