------------------------------ MODULE Android ------------------------------
(***************************************************************************)
(* The Android engine: its session life cycle, its telemetry, the upstream *)
(* resolver, the DNS path and the flows of the tunnel.  The parts share no *)
(* variable that two of them write, so a behaviour belongs to one part and *)
(* the variables of the others keep an initial value: the union of the     *)
(* parts' state graphs.                                                    *)
(***************************************************************************)
EXTENDS Naturals, FiniteSets, SequencesExt

CONSTANTS
  Calls, Stops, StartOrder,                                 \* AndroidEngine
  LogDepth, HighWater, BatchSize, MaxLogs, MaxStarts,       \* AndroidTelemetry
  TunDepth, Attempts, Handles, Evaluations,
  Provs, Lookups, MaxSnaps, MaxIdle, Protos,                \* AndroidResolver
  Names, Target, Uids, Queries, Workers, RuleSets,          \* AndroidDns
  Allowlists, MaxEdits,
  Flows, KindsOf, Threshold, MaxSwitches, MaxMint,          \* AndroidFlow
  None

VARIABLES
  part,
  mode, eng, call, stop, tele, dead,                          \* AndroidEngine
  focus, log, traffic, tun, policy,                           \* AndroidTelemetry
  proto, cur, made, snap, retiring, shut, query, att,         \* AndroidResolver
  rules, filterOn, rewrite, allow, kernelOn, flagOn, cache,   \* AndroidDns
  flight, grants, agent, edits,
  gate, quic, route, caRef, caFreed, readers, releasing,      \* AndroidFlow
  leaf, mint, black, fails, requestRules, freed, emu, flow, switched

Engine == INSTANCE AndroidEngine
Telemetry == INSTANCE AndroidTelemetry WITH Queries <- Evaluations
Resolver == INSTANCE AndroidResolver WITH Queries <- Lookups
Dns == INSTANCE AndroidDns
Flow == INSTANCE AndroidFlow WITH
  MaxEdits <- MaxSwitches, rules <- requestRules, edits <- switched

\* Calls, queries, providers and handles have identities; there is telemetry
\* to start and a provider to ask; limits are at least what one use needs;
\* absence is neither a name a rule can refuse nor an answer.
ASSUME AndroidAssumption ==
  /\ None \notin Calls \cup Handles \cup Workers \cup Queries \cup Flows \cup {"addr"}
  /\ Queries \cap Workers = {}
  /\ IsFiniteSet(Stops) /\ IsFiniteSet(Lookups)
  /\ StartOrder \in Seq(STRING) /\ StartOrder # <<>>
  /\ LogDepth \in Nat /\ BatchSize \in Nat \ {0} /\ TunDepth \in Nat
  /\ Attempts \in Nat \ {0} /\ MaxStarts \in Nat
  /\ Provs \in Seq(STRING \ {"none"}) /\ Provs # <<>> /\ IsInjective(Provs)
  /\ MaxSnaps \in Nat /\ MaxIdle \in Nat
  /\ \A r \in RuleSets : None \notin r
  /\ \A f \in Flows : KindsOf[f] \subseteq {"udp", "tcp", "mitm"}

-----------------------------------------------------------------------------
Parts == {"engine", "telemetry", "resolver", "dns", "flow"}

Init ==
  /\ part \in Parts
  /\ Engine!Init /\ Telemetry!Init /\ Resolver!Init /\ Dns!Init /\ Flow!Init

engineVars    == <<mode, eng, call, stop, tele, dead>>
telemetryVars == <<focus, log, traffic, tun, policy>>
resolverVars  == <<proto, cur, made, snap, retiring, shut, query, att>>
dnsVars  == <<rules, filterOn, rewrite, allow, kernelOn, flagOn, cache, flight,
              grants, agent, edits>>
flowVars == <<gate, quic, route, caRef, caFreed, readers, releasing, leaf, mint,
              black, fails, requestRules, freed, emu, flow, switched>>
vars == <<part, engineVars, telemetryVars, resolverVars, dnsVars, flowVars>>

Next ==
  /\ UNCHANGED part
  /\ IF part = "engine"    THEN Engine!Next    ELSE UNCHANGED engineVars
  /\ IF part = "telemetry" THEN Telemetry!Next ELSE UNCHANGED telemetryVars
  /\ IF part = "resolver"  THEN Resolver!Next  ELSE UNCHANGED resolverVars
  /\ IF part = "dns"       THEN Dns!Next       ELSE UNCHANGED dnsVars
  /\ IF part = "flow"      THEN Flow!Next      ELSE UNCHANGED flowVars

\* The fairness of each part.
Fairness ==
  /\ \A c \in Calls : WF_engineVars(part = "engine" /\ Engine!CallStep(c))
  /\ \A s \in Stops : WF_engineVars(part = "engine" /\ Engine!StopStep(s))
  /\ \A a \in Telemetry!Agents :
       WF_telemetryVars(part = "telemetry" /\ focus = "log" /\ Telemetry!LogStep(a)
                        /\ UNCHANGED <<focus, traffic, tun, policy>>)
  /\ WF_telemetryVars(part = "telemetry" /\ focus = "tun" /\ Telemetry!TunStep
                      /\ UNCHANGED <<focus, log, traffic, policy>>)
  /\ WF_resolverVars(part = "resolver" /\ \E s \in Resolver!Snaps : Resolver!Retire(s))
  /\ \A q \in Lookups : WF_resolverVars(part = "resolver" /\ Resolver!QueryStep(q))
  /\ \A q \in Lookups, p \in Resolver!P :
       WF_resolverVars(part = "resolver" /\ Resolver!Attempt(q, p))
  /\ \A a \in Queries \cup Workers : WF_dnsVars(part = "dns" /\ Dns!Step(a))
  /\ \A f \in Flows : WF_flowVars(part = "flow" /\ Flow!Step(f))

Spec == Init /\ [][Next]_vars /\ Fairness

-----------------------------------------------------------------------------
\* Stop and a start that overlap it leave nothing of an ended session behind:
\* no descriptor, no tunnel writer, no telemetry goroutine, no resolver that
\* nobody will shut down (engine.go, engine_full_tunnel.go, engine_standalone.go).
SessionIsClean ==
  Engine!TypeOK /\ Engine!NothingLeftBehind /\ Engine!NoOrphanResolver

\* No attempt runs through a snapshot whose connections were closed, no flow
\* uses a certificate authority or a rule set that was released, and a query
\* that failed had tried every provider.
NoUseAfterClose ==
  Resolver!InUseNotClosed /\ Resolver!FailedMeansAllTried /\ Flow!HandlesAlive

\* What the rules refuse is not served, from the cache neither, and what they
\* allow an app to resolve it may also connect to, and nothing else.
FilteringHolds ==
  /\ Dns!TypeOK /\ Dns!CloakedNeverServed /\ Dns!ResolvedMeansReachable
  /\ Dns!GrantsFollowAllowlist /\ Flow!TypeOK /\ Flow!GatesHold

\* Every byte is reported once, and the policy in use was not released.
TrafficIsExact ==
  Telemetry!TypeOK /\ Telemetry!BytesOnce /\ Telemetry!PublishedIsLive /\ Resolver!TypeOK

\* An ended session returns, accepted logs are delivered, the tunnel's queue
\* drains, retired snapshots close, queries and relays end.
AndroidProgress ==
  /\ Engine!StopEndsSession /\ Telemetry!LogsFlushed /\ Telemetry!TunRecovers
  /\ Resolver!RetiredCloses /\ Dns!QueriesEnd /\ Flow!FlowsEnd
=============================================================================
