----------------------------- MODULE Bootstrap -----------------------------
(***************************************************************************)
(* Addresses of the encrypted upstreams (internal/core/bootstrap.go and    *)
(* bootstrap_health.go).                                                   *)
(*                                                                         *)
(* A dial that has only a host name asks the bootstrap servers, one after  *)
(* the other.  Answers are cached; every server has a health record that    *)
(* all dials share and that puts it on a cooldown after a few failures in   *)
(* a row.  The configuration, the cache and every health record have locks  *)
(* of their own, so dials and a new configuration interleave between them.  *)
(* Weights only order the servers: any order is possible, but a server on   *)
(* a cooldown does not come first while another is not.                     *)
(***************************************************************************)
EXTENDS Naturals, FiniteSets, Sequences, SequencesExt

CONSTANTS BootServers,      \* the servers a configuration may list
          BootConfigs,      \* [enabled, servers] a user may submit
          Dials,            \* dials that run at the same time
          CooldownFailures, \* bsCooldownFailureThreshold
          MaxBootEdits,     \* new configurations
          None

VARIABLES bootConf,   \* [enabled, servers]
          bootEdits,  \* configurations installed so far
          bootCache,  \* the cached address: the server that gave it, or None
          health,     \* server -> [fails: failures in a row, cool]
          dial        \* dial -> where it is

bootVars == <<bootConf, bootEdits, bootCache, health, dial>>

NoDial == [at |-> "idle", servers |-> {}, warm |-> {}, scored |-> {},
           plan |-> <<>>, asked |-> {}, got |-> None]

BootInit ==
  /\ bootConf \in BootConfigs
  /\ bootEdits = 0
  /\ bootCache = None
  /\ health = [s \in BootServers |-> [fails |-> 0, cool |-> FALSE]]
  /\ dial = [d \in Dials |-> NoDial]

----------------------------------------------------------------------------
(* ResolveHost. *)

\* The configuration is copied; without a server the name is returned as it is.
ReadServers(d) ==
  /\ dial[d].at \in {"idle", "ended"}
  /\ dial' = [dial EXCEPT ![d] =
       IF bootConf.enabled /\ bootConf.servers # {}
       THEN [NoDial EXCEPT !.at = "cache", !.servers = bootConf.servers]
       ELSE [NoDial EXCEPT !.at = "ended"]]
  /\ UNCHANGED <<bootConf, bootEdits, bootCache, health>>

GetCached(d) ==
  /\ dial[d].at = "cache"
  /\ dial' = [dial EXCEPT ![d] =
       IF bootCache # None THEN [NoDial EXCEPT !.at = "ended"]
       ELSE [@ EXCEPT !.at = "score"]]
  /\ UNCHANGED <<bootConf, bootEdits, bootCache, health>>

\* GetScore of one server after the other; a single server is not scored.
GetScore(d, s) ==
  /\ dial[d].at = "score" /\ Cardinality(dial[d].servers) > 1
  /\ s \in dial[d].servers \ dial[d].scored
  /\ dial' = [dial EXCEPT ![d].scored = @ \cup {s},
                          ![d].warm = IF health[s].cool THEN @ ELSE @ \cup {s}]
  /\ UNCHANGED <<bootConf, bootEdits, bootCache, health>>

\* choosePlan: one candidate first, by weight or by exploration, then the rest.
ChoosePlan(d) ==
  /\ dial[d].at = "score"
  /\ Cardinality(dial[d].servers) = 1 \/ dial[d].scored = dial[d].servers
  /\ \E plan \in SetToSeqs(dial[d].servers) :
       /\ dial[d].warm # {} => plan[1] \in dial[d].warm
       /\ dial' = [dial EXCEPT ![d].at = "ask", ![d].plan = plan]
  /\ UNCHANGED <<bootConf, bootEdits, bootCache, health>>

MutRecordResult(s, ok) ==
  health' = [health EXCEPT ![s] = IF ok THEN [@ EXCEPT !.fails = 0]
    ELSE [fails |-> IF @.fails < CooldownFailures THEN @.fails + 1 ELSE @.fails,
          cool  |-> @.cool \/ @.fails + 1 >= CooldownFailures]]

\* RecordResult.  The counter is capped where it no longer makes a difference.
RecordResult(s, ok) ==
  health' = [health EXCEPT ![s] =
    IF ok THEN [fails |-> 0, cool |-> FALSE]
    ELSE [fails |-> IF @.fails < CooldownFailures THEN @.fails + 1 ELSE @.fails,
          cool  |-> @.cool \/ @.fails + 1 >= CooldownFailures]]

\* The next server of the plan answers within its time, or does not.
QueryBootstrapDNS(d, ok) ==
  /\ dial[d].at = "ask" /\ dial[d].plan # <<>>
  /\ LET s == Head(dial[d].plan) IN
       /\ RecordResult(s, ok)
       /\ dial' = [dial EXCEPT ![d].plan = Tail(@),
                               ![d].asked = @ \cup {s},
                               ![d].at = IF ok THEN "put" ELSE "ask",
                               ![d].got = IF ok THEN s ELSE None]
  /\ UNCHANGED <<bootConf, bootEdits, bootCache>>

\* The cache has a lock of its own and keeps what came last.
PutCached(d) ==
  /\ dial[d].at = "put"
  /\ bootCache' = dial[d].got
  /\ dial' = [dial EXCEPT ![d] = [NoDial EXCEPT !.at = "ended"]]
  /\ UNCHANGED <<bootConf, bootEdits, health>>

MutResolutionFails(d, expired) ==
  /\ dial[d].at = "ask"
  /\ \/ expired /\ dial' = [dial EXCEPT ![d] = [@ EXCEPT !.at = "ended", !.got = "expired"]]
     \/ ~expired /\ dial[d].asked # {}
        /\ dial' = [dial EXCEPT ![d] = [@ EXCEPT !.at = "ended", !.got = "failed"]]
  /\ UNCHANGED <<bootConf, bootEdits, bootCache, health>>

\* The dial's own time is over, which is asked before every server, or no
\* server is left.
ResolutionFails(d, expired) ==
  /\ dial[d].at = "ask"
  /\ expired = (dial[d].plan # <<>>)
  /\ dial' = [dial EXCEPT ![d].at = "ended",
                          ![d].got = IF expired THEN "expired" ELSE "failed"]
  /\ UNCHANGED <<bootConf, bootEdits, bootCache, health>>

----------------------------------------------------------------------------
\* UpdateConfig: the servers first, then the cache.  The health records stay.
UpdateServers ==
  /\ bootEdits < 2 * MaxBootEdits /\ bootEdits % 2 = 0
  /\ bootConf' \in BootConfigs
  /\ bootEdits' = bootEdits + 1
  /\ UNCHANGED <<bootCache, health, dial>>

DropCache ==
  /\ bootEdits % 2 = 1
  /\ bootCache' = None
  /\ bootEdits' = bootEdits + 1
  /\ UNCHANGED <<bootConf, health, dial>>

\* The clock: a cooldown ends, and the cached address expires.
CooldownEnds(s) ==
  /\ health[s].cool
  /\ health' = [health EXCEPT ![s].cool = FALSE]
  /\ UNCHANGED <<bootConf, bootEdits, bootCache, dial>>

AddressExpires ==
  /\ bootCache # None
  /\ bootCache' = None
  /\ UNCHANGED <<bootConf, bootEdits, health, dial>>

BootNext ==
  \/ \E d \in Dials : \/ ReadServers(d) \/ GetCached(d) \/ ChoosePlan(d) \/ PutCached(d)
                      \/ \E s \in BootServers : GetScore(d, s)
                      \/ \E ok \in BOOLEAN : QueryBootstrapDNS(d, ok)
                      \/ \E expired \in BOOLEAN : ResolutionFails(d, expired)
  \/ UpdateServers
  \/ DropCache
  \/ \E s \in BootServers : CooldownEnds(s)
  \/ AddressExpires

----------------------------------------------------------------------------
\* A dial is told that the host cannot be resolved only after every server of
\* the configuration it started with was asked, whatever the other dials did to
\* the health records and whatever was reconfigured meanwhile.
FailedMeansAllAsked ==
  \A d \in Dials : dial[d].got = "failed" => dial[d].asked = dial[d].servers

\* A server is on a cooldown only while its last answers all failed: a success
\* of any dial ends it at once.
CoolMeansFailing ==
  \A s \in BootServers : health[s].cool => health[s].fails >= CooldownFailures
=============================================================================
