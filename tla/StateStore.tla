----------------------------- MODULE StateStore -----------------------------
(***************************************************************************)
(* FileStateStore (platform/state.go): the file dns_state.json and the     *)
(* operations on it that both takeover managers use, with the faults that  *)
(* can meet them.  Faults are counted, so that every behaviour has few.    *)
(***************************************************************************)
EXTENDS TakeoverState, Naturals

CONSTANTS
  Faults,      \* what may go wrong, a subset of FaultKinds
  MaxFaults    \* bound: faults per behaviour

FaultKinds == {"save", "rename", "load", "clear", "apply", "restore", "netsh",
               "script", "read", "backup", "crash"}

ASSUME FaultAssumption == Faults \subseteq FaultKinds /\ MaxFaults \in Nat

VARIABLES
  file,    \* dns_state.json
  budget   \* faults left

Ok       == budget' = budget
Fault(k) == k \in Faults /\ budget > 0 /\ budget' = budget - 1

(* Save of content f: it may fail before the file is touched, or after the *)
(* old file was removed and before the rename.                             *)
Save(f) ==
  \/ Ok /\ file' = f
  \/ Fault("save") /\ file' = file
  \/ Fault("rename") /\ file' = NoFile

Clear ==
  \/ Ok /\ file' = NoFile
  \/ Fault("clear") /\ file' = file
=============================================================================
