---------------------------- MODULE TakeoverState ----------------------------
(***************************************************************************)
(* The data the DNS takeover works on: adapter configurations, the         *)
(* snapshots taken of them (AdapterState, TakeoverState in                 *)
(* platform/types.go), the loopback filter that cleans a snapshot          *)
(* (platform/netutil.go) and the state file dns_state.json                 *)
(* (platform/state.go).  The Windows and the Linux manager both extend it. *)
(*                                                                         *)
(* A configuration gives one value per protocol stack: a list of static    *)
(* servers (a member of Statics), DHCP, or Loop, the 127.0.0.1 / ::1 a     *)
(* takeover writes.  A snapshot list is a function from adapters to a      *)
(* configuration or None; its order never matters to the code.             *)
(***************************************************************************)
CONSTANTS
  Adapters,   \* network adapters (GUIDs on Windows, interface names on Linux)
  Stacks,     \* protocol stacks, IPv4 and IPv6
  Statics,    \* lists of static, non-loopback DNS servers
  DHCP,       \* the stack takes its servers from DHCP
  Loop,       \* the stack points at this machine
  None        \* the adapter is not in the snapshot list

ASSUME ConfigAssumption ==
  /\ DHCP \notin Statics
  /\ Loop \notin Statics \cup {DHCP}
  /\ None \notin [Stacks -> Statics \cup {DHCP, Loop}]
  /\ Adapters # {} /\ Stacks # {}

(* What a user can have configured, and what an adapter can be set to.     *)
Clean   == [Stacks -> Statics \cup {DHCP}]
Configs == [Stacks -> Statics \cup {DHCP, Loop}]

(* Mutants: one DHCP flag for both stacks; every adapter taken for one     *)
(* with a residual loopback.                                               *)
MutCleanBothStacks(c) ==
  IF \E s \in Stacks : c[s] \in {DHCP, Loop} THEN [s \in Stacks |-> DHCP] ELSE c
MutAlwaysResidual(c) == TRUE

(* netutil.go CleanAdapterState, after the same filter in the scanners:    *)
(* loopback servers are dropped, and a stack left empty becomes DHCP.      *)
CleanAdapterState(c) == [s \in Stacks |-> IF c[s] = Loop THEN DHCP ELSE c[s]]

(* AdapterInfo.HasResidualLoopback.                                        *)
HasResidualLoopback(c) == \E s \in Stacks : c[s] = Loop

(* Writing a configuration stack by stack: the stacks in W are written,    *)
(* the others keep what they had.                                          *)
Written(old, new, W) == [s \in Stacks |-> IF s \in W THEN new[s] ELSE old[s]]
AllLoop == [s \in Stacks |-> Loop]
AllDHCP == [s \in Stacks |-> DHCP]

(* Snapshot lists.                                                         *)
Snapshots == [Adapters -> Clean \cup {None}]
Empty     == [a \in Adapters |-> None]
Listed(l) == {a \in Adapters : l[a] # None}
Only(l, S) == [a \in Adapters |-> IF a \in S THEN l[a] ELSE None]

(* dns_state.json: absent, or TakeoverState's Active and Adapters.         *)
StateFiles == [present : BOOLEAN, active : BOOLEAN, snap : Snapshots]
NoFile     == [present |-> FALSE, active |-> FALSE, snap |-> Empty]
StateFile(act, l) == [present |-> TRUE, active |-> act, snap |-> l]

(* The adapters a start of the service, or an emergency restore, will put  *)
(* back: CheckAndSelfHeal returns early unless the file is there, is       *)
(* active and lists an adapter.                                            *)
Healable(f) == IF f.present /\ f.active THEN Listed(f.snap) ELSE {}
=============================================================================
