-------------------------- MODULE TakeoverContract --------------------------
(***************************************************************************)
(* What a DNS takeover promises, for any platform (the contract written    *)
(* at platform.DNSManager and in the comments of takeover.go): an adapter  *)
(* is moved off the configuration the user gave it only while a record of  *)
(* that configuration is safe, and a record is given up only for an        *)
(* adapter that has its configuration back.  An adapter may be lost; from  *)
(* then on nothing is promised of it, until it is found whole again.       *)
(***************************************************************************)
EXTENDS TakeoverState

VARIABLES
  orig,    \* the configuration the user gave each adapter
  sys,     \* the configuration each adapter has
  record,  \* adapters whose original configuration a restart can read back
  lost     \* adapters the manager no longer answers for

vars == <<orig, sys, record, lost>>

Off == {a \in Adapters : a \notin lost /\ sys[a] # orig[a]}

Init ==
  /\ orig \in [Adapters -> Clean]
  /\ sys = orig
  /\ record = {} /\ lost = {}

(* The sets of recorded and lost adapters are rewritten as a whole.        *)
Rewrite ==
  /\ record' \in SUBSET Adapters /\ lost' \in SUBSET Adapters
  /\ UNCHANGED <<orig, sys>>
  /\ Off' \subseteq record'

(* Recorded adapters are reconfigured, each stack to the loopback, to DHCP *)
(* or back to what it was.                                                 *)
Reconfigure ==
  /\ sys' \in [Adapters -> Configs]
  /\ \A a \in Adapters \ lost : sys'[a] # sys[a] =>
       /\ a \in record
       /\ \A s \in Stacks : sys'[a][s] \in {sys[a][s], orig[a][s], Loop, DHCP}
  /\ UNCHANGED <<orig, record, lost>>

Next == Rewrite \/ Reconfigure

Spec == Init /\ [][Next]_vars
=============================================================================
