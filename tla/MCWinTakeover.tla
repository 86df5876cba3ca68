--------------------------- MODULE MCWinTakeover ---------------------------
(* Instances of WinTakeover for TLC: two adapters that share their display *)
(* name, so that a restore by name meets both; one has static servers on   *)
(* every stack, the other has DHCP on one of them.                         *)
EXTENDS WinTakeover

CONSTANTS MaxCalls   \* bound: calls of the controller per behaviour

VARIABLES calls      \* calls made

MCNameOf == [a \in Adapters |-> "Ethernet"]

MCInit ==
  /\ Init /\ calls = 0
  /\ LET x == CHOOSE a \in Adapters : TRUE
         t == CHOOSE s \in Stacks : TRUE
     IN \A a \in Adapters, s \in Stacks : orig[a][s] = DHCP <=> a = x /\ s = t

(* A takeover is counted when its scan is made.                            *)
MCNext ==
  \/ calls < MaxCalls /\ NewCall /\ calls' = calls + 1
  \/ (Takeovers \/ Step \/ Start \/ Crash) /\ UNCHANGED calls

mcVars == <<vars, calls>>

MCSpec ==
  /\ MCInit /\ [][MCNext]_mcVars
  /\ (\A p \in Procs : WF_mcVars(StepOf(p) /\ UNCHANGED calls))
  /\ WF_mcVars(Start /\ UNCHANGED calls)
=============================================================================
