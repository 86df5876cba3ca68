----------------------------- MODULE MCService -----------------------------
(***************************************************************************)
(* The service for TLC: the controller, and the parts of the service that  *)
(* keep state beside the query path.  No variable is written by two parts, *)
(* so a behaviour belongs to one of them and the variables of the others   *)
(* keep one initial value: the union of the parts' state graphs.           *)
(***************************************************************************)
EXTENDS ServiceController, ServiceParts, TLC

VARIABLES
  mem, eng, disk, job, change, qlog, passwd, synced,          \* ConfigPlane
  booted, edits, faults, crashes,
  certs, mgr, certCfg, call, reader, due, made, dirty, raced, \* CertManager
  alive, certFaults, certCrashes,
  conf, index                                                 \* ZoneEngine

configVars == <<mem, eng, disk, job, change, qlog, passwd, synced, booted, edits,
                faults, crashes>>
certVars   == <<certs, mgr, certCfg, call, reader, due, made, dirty, raced, alive,
                certFaults, certCrashes>>
zoneVars   == <<conf, index>>

-----------------------------------------------------------------------------
Config == INSTANCE ConfigPlane WITH
  MaxEdits <- 2, MaxFaults <- 1, MaxCrashes <- 1, Changers <- {"k1", "k2"},
  Values <- {1}, up <- booted

Cert == INSTANCE CertManager WITH MaxPairs <- 3, MaxCertFaults <- 1, MaxCertCrashes <- 1

\* Zones: a parent and its child, each with texts that hold addresses, chains,
\* a loop, a chain that leaves the zones, a record of another class, a line that
\* does not parse, and more records than the budget leaves.
Lan == <<"lan">>
Sub == <<"sub", "lan">>
A == <<"a", "lan">>
B == <<"b", "sub", "lan">>
Ext == <<"com">>
R(name, type, target) == [name |-> name, type |-> type, target |-> target]
Texts ==
  {<<>>, <<R(A, "A", <<>>)>>, <<R(A, "reject", <<>>)>>,
   <<R(A, "CNAME", B), R(B, "CNAME", A)>>,
   <<R(A, "CNAME", B), R(A, "chaos", <<>>), R(B, "CNAME", Sub)>>,
   <<R(Sub, "A", <<>>), R(B, "CNAME", Sub), R(A, "CNAME", B)>>,
   <<R(B, "CNAME", Ext), R(Ext, "A", <<>>)>>,
   <<R(A, "CNAME", Sub), R(A, "CNAME", B), R(B, "A", <<>>)>>,
   <<R(A, "CNAME", Ext), R(Sub, "TXT", <<>>), R(A, "chaos", <<>>), R(A, "reject", <<>>)>>}
Z(origin, text, on, long) ==
  [origin |-> origin, text |-> text, enabled |-> on, long |-> long]
ZoneConfigs ==
  {[enabled |-> TRUE, zones |-> <<Z(Lan, x, TRUE, FALSE), Z(Sub, y, on, long)>>] :
     x \in Texts, y \in Texts, on \in BOOLEAN, long \in BOOLEAN}
  \cup
  {[enabled |-> on,
    zones |-> <<Z(Sub, x, TRUE, FALSE), Z(o, y, TRUE, FALSE), Z(Lan, <<>>, TRUE, FALSE)>>] :
     o \in {<<>>, Lan}, x \in Texts, y \in Texts, on \in BOOLEAN}

Zone == INSTANCE ZoneEngine WITH
  Names <- {Lan, Sub, A, B, Ext}, Types <- {"A", "TXT", "CNAME", "ANY"},
  MaxZoneCount <- 2, MaxZoneRecords <- 4, MaxChase <- 8

\* The addresses, configurations and limits of the other parts.
MCAddresses == {[lan |-> FALSE, port |-> 1], [lan |-> TRUE, port |-> 1], [lan |-> TRUE, port |-> 2]}
MCBootConfigs == {[enabled |-> TRUE, servers |-> {"b1", "b2"}],
                  [enabled |-> TRUE, servers |-> {"b2"}],
                  [enabled |-> FALSE, servers |-> {"b1", "b2"}]}
MCLimitConfigs == {[enabled |-> TRUE, rate |-> 1, burst |-> 2, exempt |-> {}],
                   [enabled |-> TRUE, rate |-> 1, burst |-> 1, exempt |-> {"x1"}],
                   [enabled |-> FALSE, rate |-> 1, burst |-> 2, exempt |-> {}]}

-----------------------------------------------------------------------------
Parts == {"controller", "config", "cert", "auth", "web", "zone", "client", "boot", "limit"}

MCInit ==
  /\ part \in Parts
  /\ Init              /\ (part # "controller" => lan = FALSE)
  /\ Config!ConfigInit /\ Cert!CertInit
  /\ IF part = "zone" THEN Zone!ZoneInit
     ELSE conf = [enabled |-> FALSE, zones |-> <<>>] /\ index = Zone!Build(conf)
  /\ PartsInit
  /\ part # "auth" => password = 0
  /\ part # "web" => webCfg = [lan |-> FALSE, port |-> 1]
  /\ part # "client" => aliased = {} /\ switches = [enabled |-> FALSE, rdns |-> FALSE]
  /\ bootConf.enabled /\ "b1" \in bootConf.servers
  /\ part # "limit" => ~limit.enabled

MCNext ==
  /\ UNCHANGED part
  /\ IF part = "controller" THEN Next           ELSE UNCHANGED vars
  /\ IF part = "config" THEN Config!ConfigNext  ELSE UNCHANGED configVars
  /\ IF part = "cert"   THEN Cert!CertNext      ELSE UNCHANGED certVars
  /\ IF part = "zone"   THEN Zone!ZoneNext      ELSE UNCHANGED zoneVars
  /\ PartsNext

MCSpec == MCInit /\ [][MCNext]_<<vars, configVars, certVars, zoneVars, partVars>>

Symmetry == Permutations(Threads) \cup Permutations(Queries) \cup Permutations(Adapters)

-----------------------------------------------------------------------------
\* What runs is what is saved: a restart would give the engines the settings
\* they have, the zones answer what their texts say, along every chain and by the
\* deepest zone, the listeners are given the pair in the certificate files, a
\* pair in use is replaced only for a cause, and a start repairs what a crash left
\* (controller_security.go, store.go, custom_zone.go, cert_manager.go,
\* cert_health.go).
ServesWhatIsSaved ==
  /\ [](/\ part = "config" => Config!RestartChangesNothing
        /\ part = "cert" => Cert!ServesItsFiles
        /\ part = "zone" => Zone!LookupAgrees /\ Zone!RecordsBounded)
  /\ Cert!ResignedForCause
  /\ Cert!BootHeals
=============================================================================
