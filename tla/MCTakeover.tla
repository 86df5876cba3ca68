----------------------------- MODULE MCTakeover -----------------------------
(***************************************************************************)
(* The takeover for TLC, from both sides of the interface between them:    *)
(* the calls of the controller with the manager reduced to what they see   *)
(* of it (side "controller"), and the Linux manager itself (side "linux"). *)
(* A behaviour stays on the side it begins on, and the other side's        *)
(* variables keep one initial value.                                       *)
(***************************************************************************)
EXTENDS ServiceController

CONSTANTS
  Stacks, Statics, DHCP, Loop, Backends, Public, LinuxAdapters, LinuxFaults, MaxFaults,
  MaxCalls   \* bound: calls of the Linux manager, and changes by the user, per behaviour

VARIABLES
  side, backend, named, orig, sys, file, backup, dorig, script,
  started,    \* the process of the Linux service runs
  takeover,   \* m.active of its manager
  mem, job, stale, spoilt, budget,
  linuxCalls   \* those calls so far

linux == <<backend, named, orig, sys, file, backup, dorig, script, started, takeover, mem, job,
           stale, spoilt, budget>>

Linux == INSTANCE LinuxTakeover WITH
  Adapters <- LinuxAdapters, Faults <- LinuxFaults,
  up <- started, active <- takeover

ASSUME LinuxConstants == Linux!LinuxAssumption

-----------------------------------------------------------------------------
(* On Linux one interface has static servers and the others DHCP, or       *)
(* resolv.conf has static servers.                                         *)
MCInit ==
  /\ linuxCalls = 0 /\ Init /\ Linux!Init
  /\ LET x == CHOOSE a \in LinuxAdapters : TRUE
         own == [s \in Stacks |-> CHOOSE v \in Statics \ {Public} : TRUE]
     IN \A a \in LinuxAdapters :
          orig[a] = IF a = x \/ backend = "resolvconf" THEN own ELSE Linux!AllDHCP
  /\ \/ side = "controller" /\ backend = "nm" /\ named
     \/ side = "linux" /\ lan = FALSE

MCNext ==
  \/ side = "controller" /\ Next /\ UNCHANGED <<side, linux, linuxCalls>>
  \/ /\ side = "linux" /\ UNCHANGED <<side, vars>>
     /\ \/ linuxCalls < MaxCalls /\ Linux!NewCall /\ linuxCalls' = linuxCalls + 1
        \/ Linux!Work /\ UNCHANGED linuxCalls

mcVars == <<side, vars, linux, linuxCalls>>

(* The fairness of the two sides, as in FairSpec of each.                  *)
MCSpec ==
  /\ MCInit /\ [][MCNext]_mcVars
  /\ \A t \in Threads : SF_mcVars(side = "controller" /\ Step(t) /\ UNCHANGED <<side, linux, linuxCalls>>)
  /\ \A q \in Queries : SF_mcVars(side = "controller" /\ Pipeline(q) /\ UNCHANGED <<side, linux, linuxCalls>>)
  /\ WF_mcVars(side = "linux" /\ Linux!Step /\ UNCHANGED <<side, vars, linuxCalls>>)
  /\ WF_mcVars(side = "linux" /\ Linux!Start /\ UNCHANGED <<side, vars, linuxCalls>>)

-----------------------------------------------------------------------------
(* Linux: an interface that has lost its configuration gets it back from   *)
(* the next start of the service, and also from restore-dns.sh.            *)
LinuxWayBack == Linux!TypeOK /\ Linux!Recoverable /\ Linux!ScriptRestores

(* Linux: once nothing fails any more, a service that is down comes back   *)
(* and puts every interface right.                                         *)
LinuxCrashIsHealed == Linux!CrashIsHealed
=============================================================================
