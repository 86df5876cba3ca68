-------------------------- MODULE WinTakeoverProofs --------------------------
(* Proofs about WinTakeover for any set of adapters, stacks and server     *)
(* lists, any names and any bound on faults.                               *)
EXTENDS WinTakeover, TLAPS

(* The helpers of TakeoverState stay within their types.                   *)
LEMMA CleanType ==
  ASSUME NEW c \in Configs
  PROVE  CleanAdapterState(c) \in Clean
BY ConfigAssumption DEF CleanAdapterState, Clean, Configs

LEMMA CleanOfClean ==
  ASSUME NEW c \in Clean
  PROVE  CleanAdapterState(c) = c
BY ConfigAssumption DEF CleanAdapterState, Clean

LEMMA CleanIsConfig == Clean \subseteq Configs
BY DEF Clean, Configs

LEMMA NoneNotClean == None \notin Clean /\ None \notin Configs
BY ConfigAssumption, CleanIsConfig DEF Configs

LEMMA WrittenType ==
  ASSUME NEW c \in Configs, NEW d \in Configs, NEW W
  PROVE  Written(c, d, W) \in Configs
BY DEF Written, Configs

LEMMA WrittenSame ==
  ASSUME NEW c \in Configs, NEW W
  PROVE  Written(c, c, W) = c
BY DEF Written, Configs

LEMMA AllTypes == AllLoop \in Configs /\ AllDHCP \in Configs
BY DEF AllLoop, AllDHCP, Configs

LEMMA EmptyType ==
  /\ Empty \in Snapshots /\ NoFile \in StateFiles /\ Idle \in Jobs /\ Listed(Empty) = {}
  /\ NoScan \in Scans /\ NoScan.call = "none"
BY DEF Empty, Snapshots, NoFile, StateFiles, Idle, Jobs, Listed, NoScan, Scans

LEMMA ListedMeans ==
  ASSUME NEW l \in Snapshots
  PROVE  l # Empty <=> Listed(l) # {}
BY DEF Listed, Empty, Snapshots

LEMMA OnlyType ==
  ASSUME NEW l \in Snapshots, NEW S
  PROVE  Only(l, S) \in Snapshots
BY DEF Only, Snapshots

LEMMA RemainingType ==
  ASSUME NEW j, mem \in Snapshots
  PROVE  Remaining(j) \in Snapshots
BY DEF Remaining, Snapshots

(* Every variable keeps its type.                                          *)
LEMMA TypeInit == Init => TypeOK
<1> SUFFICES ASSUME Init PROVE TypeOK
  OBVIOUS
<1>1. sys \in [Adapters -> Configs] /\ orig \in [Adapters -> Clean]
  BY CleanIsConfig DEF Init
<1>2. file \in StateFiles /\ mem \in Snapshots /\ job \in [Procs -> Jobs]
  BY EmptyType DEF Init
<1>3. budget \in 0..MaxFaults
  BY FaultAssumption DEF Init
<1>4. scan \in [Callers -> Scans] /\ spoilt \subseteq Adapters
  BY EmptyType DEF Init
<1> QED BY <1>1, <1>2, <1>3, <1>4 DEF Init, TypeOK

LEMMA ScannedInit == Init => Scanned
BY EmptyType DEF Init, Scanned

LEMMA BudgetType ==
  ASSUME TypeOK, Ok \/ \E k \in FaultKinds : Fault(k)
  PROVE  budget' \in 0..MaxFaults
BY FaultAssumption DEF TypeOK, Ok, Fault

LEMMA ResetType ==
  ASSUME TypeOK, NEW S \in SUBSET Adapters, ResetToDHCP(S)
  PROVE  sys' \in [Adapters -> Configs] /\ budget' \in 0..MaxFaults
<1>1. CASE Ok /\ sys' = [a \in Adapters |-> IF a \in S THEN AllDHCP ELSE sys[a]]
  BY <1>1, AllTypes DEF TypeOK, Ok
<1>2. ASSUME Fault("netsh"), NEW W \in [S -> SUBSET Stacks],
             sys' = [a \in Adapters |-> IF a \in S THEN Written(sys[a], AllDHCP, W[a]) ELSE sys[a]]
      PROVE  sys' \in [Adapters -> Configs] /\ budget' \in 0..MaxFaults
  <2>1. \A a \in Adapters : Written(sys[a], AllDHCP, W[a]) \in Configs
    BY WrittenType, AllTypes DEF TypeOK
  <2>2. budget' \in 0..MaxFaults
    BY <1>2, BudgetType DEF FaultKinds
  <2> QED BY <1>2, <2>1, <2>2 DEF TypeOK
<1> QED BY <1>1, <1>2 DEF ResetToDHCP

LEMMA SaveType ==
  ASSUME TypeOK, NEW b \in BOOLEAN, NEW l \in Snapshots, Save(StateFile(b, l))
  PROVE  file' \in StateFiles /\ budget' \in 0..MaxFaults
<1>1. StateFile(b, l) \in StateFiles
  BY DEF StateFile, StateFiles
<1>2. budget' \in 0..MaxFaults
  BY BudgetType DEF Save, FaultKinds
<1> QED BY <1>1, <1>2, EmptyType DEF Save, TypeOK

LEMMA AfterRestoreType ==
  ASSUME NEW j \in Jobs, j.call \in CallKinds \cup {"Heal"}, NEW bad
  PROVE  AfterRestore(j, bad) \in {"clear", "sweep", "resave"}
BY DEF AfterRestore, CallKinds, Jobs

LEMMA IdleOK == \A p \in Procs : JobOK(p, Idle)
BY DEF JobOK, Idle, Procs

LEMMA RolesInit == Init => Roles
<1> SUFFICES ASSUME Init PROVE Roles
  OBVIOUS
<1>1. \A p \in Procs : job[p] = Idle
  BY DEF Init
<1> QED BY <1>1, IdleOK DEF Init, Roles, Idle

(* Replacing one process's job by another that is typed and in its role.   *)
LEMMA JobStep ==
  ASSUME TypeOK, Roles, NEW p \in Procs, NEW j \in Jobs, JobOK(p, j),
         job' = [job EXCEPT ![p] = j], up' = TRUE
  PROVE  job' \in [Procs -> Jobs] /\ Roles'
<1>1. job' \in [Procs -> Jobs]
  BY DEF TypeOK
<1>2. \A q \in Procs : JobOK(q, job'[q])
  BY DEF TypeOK, Roles
<1>3. Roles' <=> (\A q \in Procs : JobOK(q, job'[q])) /\ (~up' => active' = FALSE /\ mem' = Empty /\ \A q \in Procs : job'[q].pc = "idle")
  BY DEF Roles, JobOK, Listed
<1> QED BY <1>1, <1>2, <1>3

LEMMA BusyIsUp ==
  ASSUME Roles, NEW p \in Procs, job[p].pc # "idle", up \in BOOLEAN
  PROVE  up = TRUE
BY DEF Roles

LEMMA ReturnStep ==
  ASSUME TypeOK, Roles, NEW p \in Procs, Return(p), up' = TRUE
  PROVE  job' \in [Procs -> Jobs] /\ Roles'
BY JobStep, IdleOK, EmptyType DEF Return

LEMMA BeginStep ==
  ASSUME TypeOK, Roles, NEW p \in Procs, up' = TRUE,
         NEW c, p = "mgr" => c \in ManagerCalls, p = "heal" => c \in {"Heal", "Emergency"},
         NEW pc \in {"save", "restore", "clear", "residual"},
         pc = "save" => c \in {"Takeover", "TakeoverSingle"},
         pc = "residual" => c \in {"Restore", "Emergency"},
         NEW S \in SUBSET Adapters, NEW l \in Snapshots, S \subseteq Listed(l),
         pc \in {"save", "restore"} => l # Empty,
         Begin(p, c, pc, S, l)
  PROVE  job' \in [Procs -> Jobs] /\ Roles'
<1> DEFINE j == [call |-> c, pc |-> pc, todo |-> S, bad |-> {},
                 snap |-> l, old |-> mem, was |-> active]
<1>1. j \in Jobs
  BY DEF TypeOK, Jobs, ManagerCalls, CallKinds, Procs
<1>2. JobOK(p, j)
  BY DEF JobOK, ManagerCalls, Procs
<1>3. job' = [job EXCEPT ![p] = j]
  BY DEF Begin
<1> HIDE DEF j
<1> QED BY <1>1, <1>2, <1>3, JobStep

LEMMA GotoStep ==
  ASSUME TypeOK, Roles, NEW p \in Procs, up' = TRUE, job[p].pc # "idle",
         NEW pc \in {"apply", "resave", "residual"},
         pc = "apply" => job[p].pc = "save",
         pc = "resave" => job[p].pc = "sweep" /\ job[p].call = "Restore",
         pc = "residual" => job[p].call \in {"Restore", "Emergency"},
         Goto(p, pc)
  PROVE  job' \in [Procs -> Jobs] /\ Roles'
<1> DEFINE j == [job[p] EXCEPT !.pc = pc]
<1>1. j \in Jobs
  BY DEF TypeOK, Jobs
<1>2. JobOK(p, j)
  BY DEF JobOK, Roles, TypeOK, Jobs
<1>3. job' = [job EXCEPT ![p] = j]
  BY DEF Goto, TypeOK
<1> HIDE DEF j
<1> QED BY <1>1, <1>2, <1>3, JobStep

(* A scan lists the adapters it was made of.                               *)
LEMMA ScanNext ==
  ASSUME TypeOK, Scanned, [Next]_vars
  PROVE  scan' \in [Callers -> Scans] /\ Scanned' /\ spoilt' \subseteq Adapters
<1>1. ASSUME NEW c \in Callers, NEW call \in {"Takeover", "TakeoverSingle"}, NEW S \in SUBSET Adapters,
             ScanAdapters(c, call, S)
      PROVE  scan' \in [Callers -> Scans] /\ Scanned'
  <2> DEFINE l == Only([a \in Adapters |-> CleanAdapterState(sys[a])], S)
  <2>1. l \in Snapshots /\ S = Listed(l)
    BY CleanType, NoneNotClean DEF TypeOK, Snapshots, Only, Listed
  <2>2. l # Empty /\ (call = "TakeoverSingle" => \E a \in Adapters : Listed(l) = {a})
    BY <1>1, <2>1, EmptyType DEF ScanAdapters
  <2>3. scan' = [scan EXCEPT ![c] = [call |-> call, snap |-> l]]
    BY <1>1 DEF ScanAdapters
  <2> HIDE DEF l
  <2> QED BY <2>1, <2>2, <2>3 DEF TypeOK, Scanned, Scans
<1>2. ASSUME \E c \in Callers : scan' = [scan EXCEPT ![c] = NoScan] PROVE scan' \in [Callers -> Scans] /\ Scanned'
  BY <1>2, EmptyType DEF TypeOK, Scanned
<1>3. ASSUME scan' = [c \in Callers |-> NoScan] PROVE scan' \in [Callers -> Scans] /\ Scanned'
  BY <1>3, EmptyType DEF Scanned
<1>4. ASSUME UNCHANGED scan PROVE scan' \in [Callers -> Scans] /\ Scanned'
  BY <1>4 DEF TypeOK, Scanned
<1>5. \A l : Spoils(l) => spoilt' \subseteq Adapters
  BY DEF Spoils, Missed, Mistaken, Away, TypeOK
<1>6. SaveSpoils => spoilt' \subseteq Adapters
  BY DEF SaveSpoils, Away, TypeOK
<1>7. CASE NewCall
  <2>1. ASSUME NEW c \in Callers, NEW call \in {"Takeover", "TakeoverSingle"}, NEW S \in SUBSET Adapters,
               ScanAdapters(c, call, S)
        PROVE  spoilt' \subseteq Adapters
    BY <2>1 DEF ScanAdapters, TypeOK
  <2>2. CASE Restore \/ \E id : RestoreSingle(id)
    <3>1. UNCHANGED scan
      BY <2>2 DEF Restore, RestoreSingle
    <3>2. spoilt' \subseteq Adapters
      BY <1>5, <2>2 DEF Restore, RestoreSingle
    <3> QED BY <1>4, <3>1, <3>2
  <2>3. CASE EmergencyRestore
    BY <1>4, <2>3 DEF EmergencyRestore, TypeOK
  <2> QED BY <1>1, <1>7, <2>1, <2>2, <2>3 DEF NewCall
<1>8. CASE Takeovers
  <2>1. \E c \in Callers : scan' = [scan EXCEPT ![c] = NoScan]
    BY <1>8 DEF Takeovers, Takeover, TakeoverSingle
  <2>2. spoilt' \subseteq Adapters
    BY <1>5, <1>8 DEF Takeovers, Takeover, TakeoverSingle
  <2> QED BY <1>2, <2>1, <2>2
<1>9. CASE Step
  <2>1. UNCHANGED scan
    BY <1>9 DEF Step, StepOf, SaveBeforeTakeover, Apply, RestoreAdapter, Sweep, Resave, ClearFile,
       ResetResidualLoopbackDNS
  <2>2. CASE SaveSpoils
    BY <1>4, <1>6, <2>1, <2>2
  <2>3. CASE UNCHANGED spoilt
    BY <1>4, <2>1, <2>3 DEF TypeOK
  <2> QED BY <1>9, <2>2, <2>3 DEF Step, StepOf, SaveBeforeTakeover, Apply, RestoreAdapter, Sweep, Resave, ClearFile,
       ResetResidualLoopbackDNS
<1>10. CASE Start \/ Crash \/ UNCHANGED vars
  BY <1>3, <1>4, <1>6, <1>10 DEF Start, Crash, vars, TypeOK
<1> QED BY <1>7, <1>8, <1>9, <1>10 DEF Next

(* These facts are kept by every step, for every caller and every fault.   *)
LEMMA TypeNext ==
  ASSUME TypeOK, Roles, Scanned, [Next]_vars
  PROVE  TypeOK' /\ Roles'
<1>0. /\ up \in BOOLEAN /\ file.snap \in Snapshots /\ mem \in Snapshots
      /\ scan' \in [Callers -> Scans] /\ spoilt' \subseteq Adapters
  BY ScanNext DEF TypeOK, StateFiles
<1>1. ASSUME NEW c \in Callers, Takeover(c) PROVE TypeOK' /\ Roles'
  <2> DEFINE l == scan[c].snap
  <2>1. l \in Snapshots /\ l # Empty /\ Listed(l) \in SUBSET Adapters
    BY <1>1 DEF Takeover, TypeOK, Scanned, Scans, Listed
  <2>2. up' = TRUE
    BY <1>0, <1>1 DEF Takeover, CallAllowed, Serving
  <2>3. Begin("mgr", "Takeover", "save", Listed(l), l)
    BY <1>1 DEF Takeover
  <2> HIDE DEF l
  <2>4. job' \in [Procs -> Jobs] /\ Roles'
    BY <2>1, <2>2, <2>3, BeginStep DEF Procs, ManagerCalls
  <2> QED BY <1>0, <1>1, <2>4 DEF Takeover, TypeOK
<1>2. ASSUME NEW c \in Callers, TakeoverSingle(c) PROVE TypeOK' /\ Roles'
  <2>1. scan[c].snap \in Snapshots /\ scan[c].snap # Empty
    BY <1>2 DEF TakeoverSingle, TypeOK, Scanned, Scans
  <2> DEFINE l == [a \in Adapters |-> IF scan[c].snap[a] # None THEN scan[c].snap[a] ELSE mem[a]]
  <2>2. l \in Snapshots /\ Listed(scan[c].snap) \subseteq Listed(l) /\ Listed(scan[c].snap) \in SUBSET Adapters
    BY <1>0, <2>1 DEF Snapshots, Listed
  <2>3. l # Empty
    BY <2>1, <2>2, ListedMeans, EmptyType
  <2>4. up' = TRUE
    BY <1>0, <1>2 DEF TakeoverSingle, CallAllowed, Serving
  <2>5. mem' = l /\ Begin("mgr", "TakeoverSingle", "save", Listed(scan[c].snap), l)
    BY <1>2 DEF TakeoverSingle
  <2> HIDE DEF l
  <2>6. job' \in [Procs -> Jobs] /\ Roles'
    BY <2>2, <2>3, <2>4, <2>5, BeginStep DEF Procs, ManagerCalls
  <2> QED BY <1>0, <1>2, <2>2, <2>5, <2>6 DEF TakeoverSingle, TypeOK
<1>3. CASE Restore
  <2>1. PICK states \in {mem, file.snap} :
          /\ Ok \/ Fault("load")
          /\ Begin("mgr", "Restore", IF Listed(states) = {} THEN "clear" ELSE "restore", Listed(states), states)
    BY <1>3 DEF Restore
  <2>2. states \in Snapshots /\ Listed(states) \in SUBSET Adapters /\ (Listed(states) # {} => states # Empty)
    BY <1>0, EmptyType DEF Listed
  <2>3. up' = TRUE
    BY <1>0, <1>3 DEF Restore, CallAllowed, Serving
  <2>4. PICK pc \in {"clear", "restore"} :
          /\ Begin("mgr", "Restore", pc, Listed(states), states)
          /\ pc = "restore" => states # Empty
    BY <2>1, <2>2
  <2>5. job' \in [Procs -> Jobs] /\ Roles'
    BY <2>2, <2>3, <2>4, BeginStep DEF Procs, ManagerCalls
  <2>6. budget' \in 0..MaxFaults
    BY <2>1, BudgetType DEF FaultKinds
  <2> QED BY <1>0, <1>3, <2>5, <2>6 DEF Restore, TypeOK
<1>4. ASSUME NEW id, RestoreSingle(id) PROVE TypeOK' /\ Roles'
  <2> DEFINE l == Only(mem, Targets(id))
  <2>1. l \in Snapshots /\ Targets(id) \subseteq Listed(l) /\ Targets(id) \subseteq Adapters
    BY <1>0, OnlyType DEF Only, Targets, Listed
  <2>2. up' = TRUE
    BY <1>0, <1>4 DEF RestoreSingle, CallAllowed, Serving
  <2>3. Begin("mgr", "RestoreSingle", "restore", Targets(id), l) /\ Targets(id) # {}
    BY <1>4 DEF RestoreSingle
  <2>4. l # Empty
    BY <2>1, <2>3, EmptyType
  <2> HIDE DEF l
  <2>5. job' \in [Procs -> Jobs] /\ Roles'
    BY <2>1, <2>2, <2>3, <2>4, BeginStep DEF Procs, ManagerCalls
  <2> QED BY <1>0, <1>4, <2>5 DEF RestoreSingle, TypeOK
<1>5. /\ Healable(file) \subseteq Listed(file.snap) /\ Healable(file) \subseteq Adapters
      /\ {} \subseteq Listed(Empty)
      /\ Healable(file) # {} => file.snap # Empty
  BY EmptyType DEF Healable, Listed
<1>6. CASE EmergencyRestore
  <2>2. up' = TRUE
    BY <1>0, <1>6 DEF EmergencyRestore
  <2>3. \/ Begin("heal", "Emergency", "residual", {}, Empty)
        \/ Begin("heal", "Emergency", "restore", Healable(file), file.snap) /\ Healable(file) # {}
    BY <1>6 DEF EmergencyRestore, SelfHeal, Unread
  <2>4. job' \in [Procs -> Jobs] /\ Roles'
    <3>1. CASE Begin("heal", "Emergency", "residual", {}, Empty)
      BY <1>5, <2>2, <3>1, BeginStep, EmptyType DEF Procs
    <3>2. CASE Begin("heal", "Emergency", "restore", Healable(file), file.snap) /\ Healable(file) # {}
      BY <1>0, <1>5, <2>2, <3>2, BeginStep DEF Procs
    <3> QED BY <2>3, <3>1, <3>2
  <2>5. budget' \in 0..MaxFaults
    BY <1>6, BudgetType DEF EmergencyRestore, Unread, FaultKinds
  <2> QED BY <1>0, <1>6, <2>4, <2>5 DEF EmergencyRestore, TypeOK
<1>7. CASE Start
  <2>1. up' = TRUE
    BY <1>7 DEF Start
  <2>4. budget' \in 0..MaxFaults
    BY <1>7, BudgetType DEF Start, Unread, FaultKinds
  <2>2. CASE Begin("heal", "Heal", "restore", Healable(file), file.snap) /\ Healable(file) # {}
    <3>1. job' \in [Procs -> Jobs] /\ Roles'
      BY <1>0, <1>5, <2>1, <2>2, BeginStep DEF Procs
    <3> QED BY <1>0, <1>7, <2>4, <3>1 DEF Start, TypeOK
  <2>3. CASE UNCHANGED job
    BY <1>0, <1>7, <2>3, <2>4 DEF Start, TypeOK, Roles, JobOK, Listed
  <2> QED BY <1>7, <2>2, <2>3 DEF Start, SelfHeal, Unread
<1>8. CASE Crash
  <2>1. budget' \in 0..MaxFaults
    BY <1>8, BudgetType DEF Crash, FaultKinds
  <2>2. job' \in [Procs -> Jobs] /\ mem' \in Snapshots /\ file' \in StateFiles
    BY <1>8, EmptyType DEF Crash, TypeOK
  <2>3. \A p \in Procs : job'[p] = Idle
    BY <1>8 DEF Crash
  <2>4. Roles'
    BY <1>8, <2>3, IdleOK DEF Crash, Roles, JobOK, Idle, Listed
  <2> QED BY <1>0, <1>8, <2>1, <2>2, <2>4 DEF Crash, TypeOK
<1>9. CASE SaveBeforeTakeover
  <2>1. budget' \in 0..MaxFaults
    BY <1>9, BudgetType DEF SaveBeforeTakeover, FaultKinds
  <2>2. up' = TRUE
    BY <1>0, <1>9, BusyIsUp DEF SaveBeforeTakeover, Procs
  <2>3. job' \in [Procs -> Jobs] /\ Roles'
    BY <1>9, <2>2, GotoStep, ReturnStep DEF SaveBeforeTakeover, Procs
  <2>4. job["mgr"].snap \in Snapshots /\ job["mgr"].old \in Snapshots
    BY DEF TypeOK, Jobs, Procs
  <2>5. StateFile(TRUE, job["mgr"].snap) \in StateFiles
    BY <2>4 DEF StateFile, StateFiles
  <2>6. mem' \in Snapshots /\ file' \in StateFiles
    BY <1>0, <1>9, <2>4, <2>5, EmptyType DEF SaveBeforeTakeover, TypeOK
  <2> QED BY <1>0, <1>9, <2>1, <2>3, <2>6 DEF SaveBeforeTakeover, TypeOK
<1>10. ASSUME NEW a \in Adapters, Apply(a) PROVE TypeOK' /\ Roles'
  <2> DEFINE j == job["mgr"]
  <2>0. j \in Jobs /\ JobOK("mgr", j) /\ j.pc = "apply" /\ j.snap \in Snapshots /\ a \in Listed(j.snap)
    BY <1>10 DEF TypeOK, Roles, Procs, Apply, Jobs, JobOK
  <2>1. budget' \in 0..MaxFaults
    BY <1>10, BudgetType DEF Apply, FaultKinds
  <2>2. sys' \in [Adapters -> Configs]
    BY <1>10, WrittenType, AllTypes DEF Apply, TypeOK
  <2>3. up' = TRUE
    BY <1>0, <1>10, BusyIsUp DEF Apply, Procs
  <2>4. job' \in [Procs -> Jobs] /\ Roles'
    <3>1. CASE Return("mgr")
      BY <2>3, <3>1, ReturnStep DEF Procs
    <3>2. CASE job' = [job EXCEPT !["mgr"].todo = @ \ {a}]
      <4>1. [j EXCEPT !.todo = @ \ {a}] \in Jobs /\ JobOK("mgr", [j EXCEPT !.todo = @ \ {a}])
        BY <2>0 DEF Jobs, JobOK
      <4> QED BY <2>3, <3>2, <4>1, JobStep DEF Procs, TypeOK
    <3>3. ASSUME NEW S \in SUBSET Listed(j.snap),
                 job' = [job EXCEPT !["mgr"].pc = "restore", !["mgr"].todo = S]
          PROVE  job' \in [Procs -> Jobs] /\ Roles'
      <4>1. [j EXCEPT !.pc = "restore", !.todo = S] \in Jobs /\ JobOK("mgr", [j EXCEPT !.pc = "restore", !.todo = S])
        BY <2>0 DEF Jobs, JobOK, Listed
      <4>2. job' = [job EXCEPT !["mgr"] = [j EXCEPT !.pc = "restore", !.todo = S]]
        BY <3>3 DEF TypeOK, Procs
      <4> QED BY <2>3, <4>1, <4>2, JobStep DEF Procs
    <3> QED BY <1>10, <2>0, <3>1, <3>2, <3>3 DEF Apply
  <2>5. mem' \in Snapshots
    BY <1>0, <1>10, <2>0 DEF Apply
  <2> QED BY <1>0, <1>10, <2>1, <2>2, <2>4, <2>5 DEF Apply, TypeOK
<1>11. ASSUME NEW p \in Procs, NEW a \in Adapters, RestoreAdapter(p, a) PROVE TypeOK' /\ Roles'
  <2> DEFINE j == job[p]
  <2>0. j \in Jobs /\ JobOK(p, j) /\ j.pc = "restore" /\ j.snap \in Snapshots /\ a \in Listed(j.snap)
    BY <1>11 DEF TypeOK, Roles, RestoreAdapter, Jobs, JobOK
  <2>1. budget' \in 0..MaxFaults
    BY <1>11, BudgetType DEF RestoreAdapter, FaultKinds
  <2>2. CleanAdapterState(j.snap[a]) \in Configs
    BY <2>0, CleanType, CleanIsConfig DEF Snapshots, Listed
  <2>3. sys' \in [Adapters -> Configs]
    BY <1>11, <2>2, WrittenType DEF RestoreAdapter, TypeOK
  <2>4. up' = TRUE
    BY <1>0, <1>11, BusyIsUp DEF RestoreAdapter
  <2>5. PICK bad \in SUBSET Adapters : job' = [job EXCEPT
          ![p].todo = @ \ {a}, ![p].bad = bad,
          ![p].pc = IF j.todo = {a} THEN AfterRestore(j, bad) ELSE @]
    BY <1>11, <2>0 DEF RestoreAdapter, Jobs
  <2> DEFINE pc == IF j.todo = {a} THEN AfterRestore(j, bad) ELSE j.pc
             k  == [j EXCEPT !.todo = @ \ {a}, !.bad = bad, !.pc = pc]
  <2>6. j.call \in CallKinds \cup {"Heal"}
    BY <2>0 DEF Jobs, JobOK
  <2>7. /\ pc \in {"restore", "clear", "sweep", "resave"}
        /\ pc = "sweep" => j.call \in {"Takeover", "Restore", "Heal", "Emergency"}
        /\ pc = "resave" => j.call \in {"TakeoverSingle", "Restore", "RestoreSingle"}
    BY <2>0, <2>6 DEF AfterRestore, CallKinds
  <2>8. job' = [job EXCEPT ![p] = k]
    BY <2>5 DEF TypeOK
  <2> HIDE DEF pc
  <2>9. k \in Jobs /\ JobOK(p, k)
    BY <2>0, <2>7 DEF Jobs, JobOK
  <2> HIDE DEF k
  <2>10. job' \in [Procs -> Jobs] /\ Roles'
    BY <2>4, <2>8, <2>9, JobStep
  <2> QED BY <1>0, <1>11, <2>1, <2>3, <2>10 DEF RestoreAdapter, TypeOK
<1>12. ASSUME NEW p \in Procs, Sweep(p) PROVE TypeOK' /\ Roles'
  <2>1. sys' \in [Adapters -> Configs] /\ budget' \in 0..MaxFaults
    BY <1>12, ResetType DEF Sweep, TypeOK, Jobs
  <2>2. up' = TRUE
    BY <1>0, <1>12, BusyIsUp DEF Sweep
  <2>3. job[p].call \in {"Takeover", "Restore", "Heal", "Emergency"}
    BY <1>12 DEF Sweep, Roles, JobOK
  <2>4. job' \in [Procs -> Jobs] /\ Roles'
    BY <1>12, <2>2, <2>3, GotoStep, ReturnStep DEF Sweep
  <2> QED BY <1>0, <1>12, <2>1, <2>4 DEF Sweep, TypeOK
<1>13. CASE Resave
  <2> DEFINE j == job["mgr"]
  <2>0. j \in Jobs /\ JobOK("mgr", j) /\ j.pc = "resave"
    BY <1>13 DEF TypeOK, Roles, Procs, Resave
  <2>1. j.call \in {"TakeoverSingle", "Restore", "RestoreSingle"} /\ j.old \in Snapshots
        /\ j.snap \in Snapshots /\ j.was \in BOOLEAN /\ Remaining(j) \in Snapshots
    BY <1>0, <2>0, RemainingType DEF JobOK, Jobs
  <2>2. up' = TRUE
    BY <1>0, <1>13, BusyIsUp DEF Resave, Procs
  <2>3. job' \in [Procs -> Jobs] /\ Roles'
    BY <1>13, <2>2, ReturnStep DEF Resave, Procs
  <2>4. active' \in BOOLEAN /\ mem' \in Snapshots
    BY <1>13, <2>1 DEF Resave, KeepOld, KeepAll, KeepRemaining, TypeOK
  <2>5. [a \in Adapters |-> IF a \in j.bad THEN j.snap[a] ELSE j.old[a]] \in Snapshots
    BY <2>1 DEF Snapshots
  <2>6. \E b \in BOOLEAN, l \in Snapshots : Save(StateFile(b, l))
    <3>1. CASE j.call = "TakeoverSingle" /\ j.bad = {}
      <4>1. Save(StateFile(j.was, j.old))
        BY <1>13, <3>1 DEF Resave, KeepOld, KeepAll, KeepRemaining
      <4> QED BY <2>1, <4>1
    <3>2. CASE j.call = "TakeoverSingle" /\ j.bad # {}
      <4>1. Save(StateFile(TRUE, [a \in Adapters |-> IF a \in j.bad THEN j.snap[a] ELSE j.old[a]]))
        BY <1>13, <3>2 DEF Resave, KeepOld, KeepAll, KeepRemaining
      <4> QED BY <2>5, <4>1
    <3>3. CASE j.call = "Restore"
      <4>1. Save(StateFile(TRUE, j.snap))
        BY <1>13, <3>3 DEF Resave, KeepOld, KeepAll, KeepRemaining
      <4> QED BY <2>1, <4>1
    <3>4. CASE j.call = "RestoreSingle"
      <4>1. Save(StateFile(TRUE, Remaining(j)))
        BY <1>13, <3>4 DEF Resave, KeepOld, KeepAll, KeepRemaining
      <4> QED BY <2>1, <4>1
    <3> QED BY <2>1, <3>1, <3>2, <3>3, <3>4
  <2>7. file' \in StateFiles /\ budget' \in 0..MaxFaults
    BY <2>6, SaveType
  <2> QED BY <1>0, <1>13, <2>3, <2>4, <2>7 DEF Resave, KeepOld, KeepAll, KeepRemaining, TypeOK
<1>14. ASSUME NEW p \in Procs, ClearFile(p) PROVE TypeOK' /\ Roles'
  <2>1. budget' \in 0..MaxFaults
    BY <1>14, BudgetType DEF ClearFile, Clear, FaultKinds
  <2>2. up' = TRUE
    BY <1>0, <1>14, BusyIsUp DEF ClearFile, Clear
  <2>3. job' \in [Procs -> Jobs] /\ Roles'
    BY <1>14, <2>2, GotoStep, ReturnStep DEF ClearFile, Clear
  <2>4. job[p].old \in Snapshots /\ job[p].was \in BOOLEAN
    BY DEF TypeOK, Jobs
  <2>5. mem' \in Snapshots /\ active' \in BOOLEAN
    BY <1>0, <1>14, <2>4, EmptyType DEF ClearFile, Clear, TypeOK
  <2>6. file' \in StateFiles
    BY <1>14, EmptyType DEF ClearFile, Clear, TypeOK
  <2> QED BY <1>0, <1>14, <2>1, <2>3, <2>5, <2>6 DEF ClearFile, Clear, TypeOK
<1>15. ASSUME NEW p \in Procs, ResetResidualLoopbackDNS(p) PROVE TypeOK' /\ Roles'
  <2>1. sys' \in [Adapters -> Configs] /\ budget' \in 0..MaxFaults
    BY <1>15, ResetType DEF ResetResidualLoopbackDNS
  <2>2. up' = TRUE
    BY <1>0, <1>15, BusyIsUp DEF ResetResidualLoopbackDNS
  <2>4. job' \in [Procs -> Jobs] /\ Roles'
    BY <1>15, <2>2, ReturnStep DEF ResetResidualLoopbackDNS
  <2> QED BY <1>0, <1>15, <2>1, <2>4 DEF ResetResidualLoopbackDNS, TypeOK
<1>16. CASE UNCHANGED vars
  BY <1>16 DEF vars, TypeOK, Roles, JobOK, Listed
<1>17. ASSUME NEW c \in Callers, NEW call, NEW S, ScanAdapters(c, call, S) PROVE TypeOK' /\ Roles'
  BY <1>0, <1>17 DEF ScanAdapters, TypeOK, Roles, JobOK, Listed
<1>18. CASE NewCall
  BY <1>3, <1>4, <1>6, <1>17, <1>18 DEF NewCall
<1>19. CASE Step
  BY <1>9, <1>10, <1>11, <1>12, <1>13, <1>14, <1>15, <1>19 DEF Step, StepOf
<1> QED
  BY <1>1, <1>2, <1>7, <1>8, <1>16, <1>18, <1>19 DEF Next, Takeovers

(* Type correctness, together with the places each job can be in.          *)
THEOREM TypeCorrect == Spec => [](TypeOK /\ Roles /\ Scanned)
<1>1. Init => TypeOK /\ Roles /\ Scanned
  BY TypeInit, RolesInit, ScannedInit
<1>2. TypeOK /\ Roles /\ Scanned /\ [Next]_vars => (TypeOK /\ Roles /\ Scanned)'
  BY TypeNext, ScanNext
<1> QED BY <1>1, <1>2, PTL DEF Spec

-----------------------------------------------------------------------------
(* What the manager knows of m.adapters and m.active holds on every path   *)
(* of its operations, whatever is overtaken, stale or lost.                *)

LEMMA MemoryInit == Init => Memory
<1> SUFFICES ASSUME Init PROVE Memory
  OBVIOUS
<1>1. job["mgr"] = Idle
  BY DEF Init, Procs
<1> QED BY <1>1 DEF Init, Memory, ActiveIffTaken, Idle

LEMMA MemoryOfSame ==
  ASSUME Memory, job'["mgr"] = job["mgr"], UNCHANGED <<mem, active>>
  PROVE  Memory'
<1>1. Remaining(job["mgr"])' = Remaining(job["mgr"])
  BY DEF Remaining
<1> QED BY <1>1 DEF Memory, ActiveIffTaken

LEMMA MemoryOfReturn ==
  ASSUME TypeOK, Return("mgr"), active' <=> mem' # Empty
  PROVE  Memory'
<1>1. job'["mgr"] = Idle
  BY DEF Return, TypeOK, Procs
<1> QED BY <1>1 DEF Memory, ActiveIffTaken, Idle

LEMMA MemoryOfBegin ==
  ASSUME TypeOK, Memory, job["mgr"].pc = "idle", active' = active,
         NEW c \in ManagerCalls, NEW pc \in {"save", "restore", "clear"}, NEW S, NEW l,
         Begin("mgr", c, pc, S, l),
         c # "TakeoverSingle" => mem' = mem, c = "TakeoverSingle" => mem' = l
  PROVE  Memory'
<1>1. job'["mgr"] = [call |-> c, pc |-> pc, todo |-> S, bad |-> {}, snap |-> l, old |-> mem, was |-> active]
  BY DEF Begin, TypeOK, Procs
<1>2. active <=> mem # Empty
  BY DEF Memory, ActiveIffTaken
<1> QED BY <1>1, <1>2 DEF Memory, ActiveIffTaken, ManagerCalls

(* A step within an operation that keeps what it works from.               *)
LEMMA MemoryOfStep ==
  ASSUME Memory, job["mgr"].pc \notin {"idle", "residual"}, UNCHANGED <<mem, active>>,
         job'["mgr"].pc \notin {"idle", "residual"},
         job'["mgr"].call = job["mgr"].call, job'["mgr"].snap = job["mgr"].snap,
         job'["mgr"].old = job["mgr"].old, job'["mgr"].was = job["mgr"].was,
         job'["mgr"].call = "RestoreSingle" /\ job'["mgr"].pc = "resave" => Remaining(job["mgr"])' # Empty
  PROVE  Memory'
BY DEF Memory, ActiveIffTaken

(* What the manager's operation under way looks like.                      *)
LEMMA BusyJob ==
  ASSUME TypeOK, Roles, job["mgr"].pc # "idle"
  PROVE  /\ job["mgr"] \in Jobs /\ JobOK("mgr", job["mgr"]) /\ job["mgr"].call \in ManagerCalls
         /\ job["mgr"].snap \in Snapshots /\ job["mgr"].old \in Snapshots
BY DEF Roles, JobOK, TypeOK, Procs, Jobs

LEMMA MemoryNext ==
  ASSUME TypeOK, Roles, Memory, [Next]_vars
  PROVE  Memory'
<1> DEFINE j == job["mgr"]
<1>1. CASE NewCall
  <2>1. ASSUME NEW c, NEW call, NEW S, ScanAdapters(c, call, S) PROVE Memory'
    BY <2>1, MemoryOfSame DEF ScanAdapters
  <2>2. CASE Restore
    <3>1. PICK states \in {mem, file.snap} :
            Begin("mgr", "Restore", IF Listed(states) = {} THEN "clear" ELSE "restore", Listed(states), states)
      BY <2>2 DEF Restore
    <3>2. PICK pc \in {"clear", "restore"} : Begin("mgr", "Restore", pc, Listed(states), states)
      BY <3>1
    <3>3. job["mgr"].pc = "idle" /\ active' = active /\ mem' = mem
      BY <2>2 DEF Restore, CallAllowed
    <3> QED BY <3>2, <3>3, MemoryOfBegin DEF ManagerCalls
  <2>3. ASSUME NEW id, RestoreSingle(id) PROVE Memory'
    <3>1. /\ Begin("mgr", "RestoreSingle", "restore", Targets(id), Only(mem, Targets(id)))
          /\ job["mgr"].pc = "idle" /\ active' = active /\ mem' = mem
      BY <2>3 DEF RestoreSingle, CallAllowed
    <3> QED BY <3>1, MemoryOfBegin DEF ManagerCalls
  <2>4. CASE EmergencyRestore
    <3>1. job'["mgr"] = job["mgr"]
      BY <2>4 DEF EmergencyRestore, SelfHeal, Unread, Begin, TypeOK, Procs
    <3> QED BY <2>4, <3>1, MemoryOfSame DEF EmergencyRestore
  <2> QED BY <1>1, <2>1, <2>2, <2>3, <2>4 DEF NewCall
<1>2. ASSUME NEW c \in Callers, Takeover(c) PROVE Memory'
  <2>1. /\ Begin("mgr", "Takeover", "save", Listed(scan[c].snap), scan[c].snap)
        /\ job["mgr"].pc = "idle" /\ active' = active /\ mem' = mem
    BY <1>2 DEF Takeover, CallAllowed
  <2> QED BY <2>1, MemoryOfBegin DEF ManagerCalls
<1>3. ASSUME NEW c \in Callers, TakeoverSingle(c) PROVE Memory'
  <2>1. /\ Begin("mgr", "TakeoverSingle", "save", Listed(scan[c].snap), mem')
        /\ job["mgr"].pc = "idle" /\ active' = active
    BY <1>3 DEF TakeoverSingle, CallAllowed
  <2> QED BY <2>1, MemoryOfBegin DEF ManagerCalls
<1>4. CASE Start
  <2>1. job'["mgr"] = job["mgr"]
    BY <1>4 DEF Start, SelfHeal, Unread, Begin, TypeOK, Procs
  <2> QED BY <1>4, <2>1, MemoryOfSame DEF Start
<1>5. CASE Crash
  <2>1. job'["mgr"] = Idle /\ active' = FALSE /\ mem' = Empty
    BY <1>5 DEF Crash, Procs
  <2> QED BY <2>1 DEF Memory, ActiveIffTaken, Idle
<1>6. CASE SaveBeforeTakeover
  <2>1. j.pc = "save" /\ j \in Jobs /\ j.call \in {"Takeover", "TakeoverSingle"} /\ active' = active
    BY <1>6, BusyJob DEF SaveBeforeTakeover, JobOK
  <2>2. CASE Goto("mgr", "apply") /\ UNCHANGED mem
    <3>1. job'["mgr"] = [j EXCEPT !.pc = "apply"]
      BY <2>2 DEF Goto, TypeOK, Procs
    <3> QED BY <2>1, <2>2, <3>1, MemoryOfStep DEF Jobs
  <2>3. CASE Return("mgr") /\ mem' = j.old
    <3>1. active' <=> mem' # Empty
      BY <2>1, <2>3 DEF Memory
    <3> QED BY <2>3, <3>1, MemoryOfReturn
  <2> QED BY <1>6, <2>2, <2>3 DEF SaveBeforeTakeover
<1>7. ASSUME NEW b \in Adapters, Apply(b) PROVE Memory'
  <2>1. j.pc = "apply" /\ j \in Jobs /\ j.snap # Empty /\ j.call \in {"Takeover", "TakeoverSingle"}
    BY <1>7, BusyJob DEF Apply, JobOK
  <2>2. CASE Return("mgr") /\ active' = TRUE /\ mem' = j.snap
    BY <2>1, <2>2, MemoryOfReturn
  <2>3. CASE job' = [job EXCEPT !["mgr"].todo = @ \ {b}] /\ UNCHANGED <<active, mem>>
    <3>1. job'["mgr"] = [j EXCEPT !.todo = @ \ {b}]
      BY <2>3 DEF TypeOK, Procs
    <3> QED BY <2>1, <2>3, <3>1, MemoryOfStep DEF Jobs
  <2>4. ASSUME NEW S, job' = [job EXCEPT !["mgr"].pc = "restore", !["mgr"].todo = S], UNCHANGED <<active, mem>>
        PROVE  Memory'
    <3>1. job'["mgr"] = [j EXCEPT !.pc = "restore", !.todo = S]
      BY <2>4 DEF TypeOK, Procs
    <3>2. /\ job'["mgr"].pc = "restore" /\ job'["mgr"].call = j.call /\ job'["mgr"].snap = j.snap
          /\ job'["mgr"].old = j.old /\ job'["mgr"].was = j.was
      BY <2>1, <3>1 DEF Jobs
    <3> QED BY <2>1, <2>4, <3>2, MemoryOfStep
  <2> QED BY <1>7, <2>2, <2>3, <2>4 DEF Apply
<1>8. ASSUME NEW b \in Adapters, RestoreAdapter("mgr", b) PROVE Memory'
  <2>1. j.pc = "restore" /\ j \in Jobs /\ j.call \in ManagerCalls /\ UNCHANGED <<mem, active>>
    BY <1>8, BusyJob DEF RestoreAdapter
  <2>2. PICK bad : job' = [job EXCEPT
          !["mgr"].todo = @ \ {b}, !["mgr"].bad = bad,
          !["mgr"].pc = IF j.todo = {b} THEN AfterRestore(j, bad) ELSE @]
    BY <1>8 DEF RestoreAdapter
  <2> DEFINE pc == IF j.todo = {b} THEN AfterRestore(j, bad) ELSE j.pc
             rest == [a \in Adapters |-> IF j.snap[a] # None /\ a \notin bad THEN None ELSE mem[a]]
  <2>3. /\ job'["mgr"].call = j.call /\ job'["mgr"].snap = j.snap /\ job'["mgr"].old = j.old
        /\ job'["mgr"].was = j.was /\ job'["mgr"].bad = bad /\ job'["mgr"].pc = pc
    BY <2>1, <2>2 DEF TypeOK, Procs, Jobs
  <2>4. pc \in {"restore", "clear", "sweep", "resave"}
    BY <2>1, AfterRestoreType DEF ManagerCalls, CallKinds
  <2>5. Remaining(job["mgr"])' = rest /\ Remaining([j EXCEPT !.bad = bad]) = rest
    BY <2>1, <2>3 DEF Remaining, Jobs
  <2>6. j.call = "RestoreSingle" /\ pc = "resave" => rest # Empty
    BY <2>1, <2>5 DEF AfterRestore
  <2> HIDE DEF pc, rest
  <2> QED BY <2>1, <2>3, <2>4, <2>5, <2>6, MemoryOfStep
<1>9. CASE Sweep("mgr")
  <2>1. j.pc = "sweep" /\ j \in Jobs /\ j.call \in {"Takeover", "Restore"} /\ UNCHANGED <<mem, active>>
    BY <1>9, BusyJob DEF Sweep, JobOK, ManagerCalls
  <2>2. CASE j.call = "Restore"
    <3>1. job'["mgr"] = [j EXCEPT !.pc = "resave"]
      BY <1>9, <2>2 DEF Sweep, Goto, TypeOK, Procs
    <3> QED BY <2>1, <2>2, <3>1, MemoryOfStep DEF Jobs
  <2>3. CASE j.call = "Takeover"
    <3>1. Return("mgr")
      BY <1>9, <2>3 DEF Sweep
    <3>2. active' <=> mem' # Empty
      BY <2>1, <2>3 DEF Memory
    <3> QED BY <3>1, <3>2, MemoryOfReturn
  <2> QED BY <2>1, <2>2, <2>3
<1>10. CASE Resave
  <2>1. j.pc = "resave" /\ j.call \in {"TakeoverSingle", "Restore", "RestoreSingle"} /\ Return("mgr") /\ j.snap # Empty
    BY <1>10, BusyJob DEF Resave, JobOK
  <2>2. active' <=> mem' # Empty
    <3>1. CASE j.call = "TakeoverSingle"
      <4>1. mem' = j.old /\ active' = j.was
        BY <1>10, <3>1 DEF Resave, KeepOld, KeepAll, KeepRemaining
      <4> QED BY <2>1, <4>1 DEF Memory
    <3>2. CASE j.call = "Restore"
      <4>1. mem' = j.snap /\ active' = TRUE
        BY <1>10, <3>2 DEF Resave, KeepOld, KeepAll, KeepRemaining
      <4> QED BY <2>1, <4>1
    <3>3. CASE j.call = "RestoreSingle"
      <4>1. mem' = Remaining(j) /\ active' = active
        BY <1>10, <3>3 DEF Resave, KeepOld, KeepAll, KeepRemaining
      <4>2. Remaining(j) # Empty /\ mem = j.old /\ active = j.was /\ (j.was <=> j.old # Empty)
        BY <2>1, <3>3 DEF Memory
      <4>3. mem # Empty
        BY <4>2 DEF Remaining, Empty
      <4> QED BY <4>1, <4>2, <4>3
    <3> QED BY <2>1, <3>1, <3>2, <3>3
  <2> QED BY <2>1, <2>2, MemoryOfReturn
<1>11. CASE ClearFile("mgr")
  <2>1. j.pc = "clear" /\ j \in Jobs /\ j.call \in ManagerCalls
    BY <1>11, BusyJob DEF ClearFile
  <2>2. CASE j.call = "Restore"
    <3>1. job'["mgr"] = [j EXCEPT !.pc = "residual"] /\ mem' = Empty /\ active' = FALSE
      BY <1>11, <2>2 DEF ClearFile, Goto, TypeOK, Procs
    <3>2. job'["mgr"].call = "Restore" /\ job'["mgr"].pc = "residual" /\ job'["mgr"].old = j.old /\ job'["mgr"].was = j.was
      BY <2>1, <2>2, <3>1 DEF Jobs
    <3> QED BY <2>1, <3>1, <3>2 DEF Memory, ActiveIffTaken
  <2>3. CASE j.call # "Restore"
    <3>1. Return("mgr")
      BY <1>11, <2>1, <2>3 DEF ClearFile, ManagerCalls
    <3>2. active' <=> mem' # Empty
      <4>1. CASE j.call = "RestoreSingle"
        BY <1>11, <4>1 DEF ClearFile
      <4>2. CASE j.call = "TakeoverSingle"
        <5>1. mem' = j.old /\ active' = j.was
          BY <1>11, <4>2 DEF ClearFile
        <5> QED BY <2>1, <5>1 DEF Memory
      <4>3. CASE j.call = "Takeover"
        <5>1. mem' = mem /\ active' = active
          BY <1>11, <4>3 DEF ClearFile
        <5> QED BY <2>1, <4>3, <5>1 DEF Memory
      <4> QED BY <2>1, <2>3, <4>1, <4>2, <4>3 DEF ManagerCalls
    <3> QED BY <3>1, <3>2, MemoryOfReturn
  <2> QED BY <2>2, <2>3
<1>12. CASE ResetResidualLoopbackDNS("mgr")
  <2>1. j.pc = "residual" /\ j.call = "Restore" /\ Return("mgr") /\ UNCHANGED <<mem, active>>
    BY <1>12, BusyJob DEF ResetResidualLoopbackDNS, JobOK, ManagerCalls
  <2> QED BY <2>1, MemoryOfReturn DEF Memory
<1>13. CASE StepOf("heal")
  <2>1. job'["mgr"] = job["mgr"]
    <3>1. CASE \E a \in Adapters : RestoreAdapter("heal", a)
      BY <3>1 DEF RestoreAdapter, TypeOK, Procs
    <3>2. CASE Sweep("heal")
      BY <3>2 DEF Sweep, Goto, Return, TypeOK, Procs, Roles, JobOK
    <3>3. CASE ClearFile("heal") \/ ResetResidualLoopbackDNS("heal")
      BY <3>3 DEF ClearFile, ResetResidualLoopbackDNS, Goto, Return, TypeOK, Procs
    <3> QED BY <1>13, <3>1, <3>2, <3>3 DEF StepOf
  <2>2. JobOK("heal", job["heal"])
    BY DEF Roles, Procs
  <2>3. UNCHANGED <<mem, active>>
    <3>1. CASE ClearFile("heal")
      BY <2>2, <3>1 DEF ClearFile, JobOK
    <3>2. CASE ~ClearFile("heal")
      BY <1>13, <3>2 DEF StepOf, RestoreAdapter, Sweep, ResetResidualLoopbackDNS
    <3> QED BY <3>1, <3>2
  <2> QED BY <2>1, <2>3, MemoryOfSame
<1>14. CASE StepOf("mgr")
  BY <1>6, <1>7, <1>8, <1>9, <1>10, <1>11, <1>12, <1>14 DEF StepOf
<1>15. CASE UNCHANGED vars
  BY <1>15, MemoryOfSame DEF vars
<1> QED BY <1>1, <1>2, <1>3, <1>4, <1>5, <1>13, <1>14, <1>15 DEF Next, Takeovers, Step, Procs

-----------------------------------------------------------------------------
(* The rest of the invariant, while some adapter is safe.                  *)
Core   == SnapsOriginal /\ Recoverable /\ OneAtATime /\ Cover
Steady == TypeOK /\ Roles /\ Memory /\ Core

LEMMA InitInductive == Init => Inductive
<1> SUFFICES ASSUME Init PROVE Inductive
  OBVIOUS
<1>1. \A p \in Procs : job[p] = Idle
  BY DEF Init
<1>2. job["mgr"] = Idle /\ job["heal"] = Idle
  BY <1>1 DEF Procs
<1>3. SnapsOriginal
  BY <1>1 DEF Init, SnapsOriginal, Safe, Idle, Empty, NoFile
<1>4. Recoverable /\ OneAtATime /\ Cover
  BY <1>2 DEF Init, Recoverable, OneAtATime, Cover, Idle
<1> QED BY <1>3, <1>4, TypeInit, RolesInit, ScannedInit, MemoryInit DEF Inductive

(* An operation of the manager has begun and some adapter is safe: it      *)
(* knows of every safe adapter that is off, and rightly.                   *)
LEMMA BeginsKnowing ==
  ASSUME Steady, NEW l, Spoils(l), UNCHANGED <<orig, sys, file>>, spoilt' # Adapters, job["mgr"].pc = "idle"
  PROVE  /\ job["heal"].pc = "idle" /\ job["heal"].call = "none"
         /\ Safe' \subseteq Safe /\ Off' \subseteq Off /\ Off' \subseteq Listed(l)
         /\ \A a \in Safe' : l[a] \in {None, orig[a]}
         /\ Recoverable'
<1>1. job["heal"].pc = "idle" /\ job["heal"].call = "none"
  BY DEF Spoils, Steady, Roles, JobOK, Procs
<1>2. spoilt' = spoilt \cup Missed(l) \cup Mistaken(l)
  BY <1>1 DEF Spoils
<1>3. Safe' \subseteq Safe /\ Off' \subseteq Off
  BY <1>2 DEF Safe, Off, Away
<1>4. Off' \subseteq Listed(l)
  BY <1>2 DEF Off, Away, Missed, Listed
<1>5. \A a \in Safe' : l[a] \in {None, orig[a]}
  BY <1>2 DEF Safe, Mistaken
<1>6. Recoverable'
  BY <1>3 DEF Recoverable, Steady, Core, Safe
<1> QED BY <1>1, <1>3, <1>4, <1>5, <1>6

LEMMA CallSnaps ==
  ASSUME Steady, Safe' \subseteq Safe, UNCHANGED <<orig, file>>, NEW l, \A a \in Safe' : l[a] \in {None, orig[a]},
         \A a \in Safe' : mem'[a] \in {None, orig[a]},
         job'["heal"] = job["heal"], job'["mgr"].snap = l, job'["mgr"].old = mem
  PROVE  SnapsOriginal'
BY DEF Steady, Core, SnapsOriginal, Procs

LEMMA TakeoverInductive ==
  ASSUME Steady, Scanned, spoilt' # Adapters, NEW c \in Callers, Takeover(c)
  PROVE  Core'
<1> DEFINE l == scan[c].snap
<1>1. Begin("mgr", "Takeover", "save", Listed(l), l) /\ Spoils(l) /\ UNCHANGED <<orig, sys, file, active, mem>>
      /\ job["mgr"].pc = "idle" /\ l # Empty /\ l \in Snapshots
  BY DEF Takeover, CallAllowed, Scanned, Steady, TypeOK, Scans
<1> HIDE DEF l
<1>2. /\ job["heal"].pc = "idle" /\ job["heal"].call = "none"
      /\ Safe' \subseteq Safe /\ Off' \subseteq Off /\ Off' \subseteq Listed(l)
      /\ \A a \in Safe' : l[a] \in {None, orig[a]}
      /\ Recoverable'
  BY <1>1, BeginsKnowing
<1>3. job'["heal"] = job["heal"] /\ job'["mgr"] = [call |-> "Takeover", pc |-> "save", todo |-> Listed(l),
         bad |-> {}, snap |-> l, old |-> mem, was |-> active]
  BY <1>1 DEF Begin, Steady, TypeOK, Procs
<1>4. \A a \in Safe' : mem'[a] \in {None, orig[a]}
  BY <1>1, <1>2 DEF Steady, Core, SnapsOriginal
<1>5. SnapsOriginal'
  BY <1>1, <1>2, <1>3, <1>4, CallSnaps
<1>6. OneAtATime'
  BY <1>2, <1>3 DEF OneAtATime
<1>7. Listed(l) # {}
  BY <1>1, ListedMeans
<1>8. TakeoverCover(job["mgr"])'
  BY <1>2, <1>3, <1>7 DEF TakeoverCover, BulkCover, Listed
<1>9. Cover'
  BY <1>2, <1>3, <1>8 DEF Cover
<1> QED BY <1>2, <1>5, <1>6, <1>9 DEF Core

LEMMA TakeoverSingleInductive ==
  ASSUME Steady, Scanned, spoilt' # Adapters, NEW c \in Callers, TakeoverSingle(c)
  PROVE  Core'
<1> DEFINE l == [a \in Adapters |-> IF scan[c].snap[a] # None THEN scan[c].snap[a] ELSE mem[a]]
<1>1. /\ Begin("mgr", "TakeoverSingle", "save", Listed(scan[c].snap), l) /\ Spoils(l) /\ mem' = l
      /\ UNCHANGED <<orig, sys, file, active>> /\ job["mgr"].pc = "idle"
  BY DEF TakeoverSingle, CallAllowed
<1>0. PICK b \in Adapters : Listed(scan[c].snap) = {b}
  BY DEF TakeoverSingle, Scanned
<1>2. \A a \in Adapters \ {b} : l[a] = mem[a]
  BY <1>0 DEF Listed
<1> HIDE DEF l
<1>3. /\ job["heal"].pc = "idle" /\ job["heal"].call = "none"
      /\ Safe' \subseteq Safe /\ Off' \subseteq Off /\ Off' \subseteq Listed(l)
      /\ \A a \in Safe' : l[a] \in {None, orig[a]}
      /\ Recoverable'
  BY <1>1, BeginsKnowing
<1>4. job'["heal"] = job["heal"] /\ job'["mgr"] = [call |-> "TakeoverSingle", pc |-> "save", todo |-> {b},
         bad |-> {}, snap |-> l, old |-> mem, was |-> active]
  BY <1>0, <1>1 DEF Begin, Steady, TypeOK, Procs
<1>5. SnapsOriginal'
  BY <1>1, <1>3, <1>4, CallSnaps
<1>6. OneAtATime'
  BY <1>3, <1>4 DEF OneAtATime
<1>7. SingleCover(job["mgr"])'
  <2>1. \E a \in Adapters : job'["mgr"].todo = {a} /\ \A d \in Adapters \ {a} : job'["mgr"].snap[d] = job'["mgr"].old[d]
    BY <1>2, <1>4
  <2> QED BY <1>3, <1>4, <2>1 DEF SingleCover, Listed
<1>8. Cover'
  BY <1>3, <1>4, <1>7 DEF Cover
<1> QED BY <1>3, <1>5, <1>6, <1>8 DEF Core

LEMMA RestoreInductive ==
  ASSUME Steady, spoilt' # Adapters, Restore
  PROVE  Core'
<1>1. PICK states \in {mem, file.snap} :
        /\ Begin("mgr", "Restore", IF Listed(states) = {} THEN "clear" ELSE "restore", Listed(states), states)
        /\ Spoils(states)
  BY DEF Restore
<1>2. UNCHANGED <<orig, sys, file, active, mem>> /\ job["mgr"].pc = "idle"
  BY DEF Restore, CallAllowed
<1>3. /\ job["heal"].pc = "idle" /\ job["heal"].call = "none"
      /\ Safe' \subseteq Safe /\ Off' \subseteq Off /\ Off' \subseteq Listed(states)
      /\ \A a \in Safe' : states[a] \in {None, orig[a]}
      /\ Recoverable'
  BY <1>1, <1>2, BeginsKnowing
<1> DEFINE pc == IF Listed(states) = {} THEN "clear" ELSE "restore"
<1>4. job'["heal"] = job["heal"] /\ job'["mgr"] = [call |-> "Restore", pc |-> pc, todo |-> Listed(states),
         bad |-> {}, snap |-> states, old |-> mem, was |-> active]
  BY <1>1 DEF Begin, Steady, TypeOK, Procs
<1>5. \A a \in Safe' : mem'[a] \in {None, orig[a]}
  BY <1>2, <1>3 DEF Steady, Core, SnapsOriginal
<1>6. SnapsOriginal'
  BY <1>2, <1>3, <1>4, <1>5, CallSnaps
<1>7. OneAtATime'
  BY <1>3, <1>4 DEF OneAtATime
<1>8. RestoreCover(job["mgr"])'
  BY <1>3, <1>4 DEF RestoreCover, BulkCover, Listed
<1>9. Cover'
  BY <1>3, <1>4, <1>8 DEF Cover
<1> QED BY <1>3, <1>6, <1>7, <1>9 DEF Core

LEMMA RestoreSingleInductive ==
  ASSUME Steady, spoilt' # Adapters, NEW id, RestoreSingle(id)
  PROVE  Core'
<1> DEFINE l == Only(mem, Targets(id))
<1>1. /\ Begin("mgr", "RestoreSingle", "restore", Targets(id), l) /\ Spoils(mem)
      /\ UNCHANGED <<orig, sys, file, active, mem>> /\ job["mgr"].pc = "idle"
  BY DEF RestoreSingle, CallAllowed
<1>2. /\ job["heal"].pc = "idle" /\ job["heal"].call = "none"
      /\ Safe' \subseteq Safe /\ Off' \subseteq Off /\ Off' \subseteq Listed(mem)
      /\ \A a \in Safe' : mem[a] \in {None, orig[a]}
      /\ Recoverable'
  BY <1>1, BeginsKnowing
<1>3. job'["heal"] = job["heal"] /\ job'["mgr"] = [call |-> "RestoreSingle", pc |-> "restore",
         todo |-> Targets(id), bad |-> {}, snap |-> l, old |-> mem, was |-> active]
  BY <1>1 DEF Begin, Steady, TypeOK, Procs
<1>4. /\ Targets(id) # {} /\ Listed(l) = Targets(id)
      /\ \A a \in Adapters : l[a] # None => l[a] = mem[a]
      /\ \A a \in Safe' : l[a] \in {None, orig[a]}
  BY <1>2 DEF RestoreSingle, Only, Targets, Listed, Safe
<1> HIDE DEF l
<1>5. SnapsOriginal'
  BY <1>1, <1>2, <1>3, <1>4, CallSnaps
<1>6. OneAtATime'
  BY <1>2, <1>3 DEF OneAtATime
<1>7. RestoreSingleCover(job["mgr"])'
  BY <1>1, <1>2, <1>3, <1>4 DEF RestoreSingleCover, Listed
<1>8. Cover'
  BY <1>2, <1>3, <1>7 DEF Cover
<1> QED BY <1>2, <1>5, <1>6, <1>8 DEF Core

(* The self-heal works on exactly the adapters the file records, and those *)
(* are all the safe adapters that are off their configuration.  A start    *)
(* may find more adapters safe than there were.                            *)
LEMMA SelfHealInductive ==
  ASSUME TypeOK, Roles, SnapsOriginal, Recoverable, job["mgr"].pc = "idle", job["heal"].pc = "idle",
         NEW c \in {"Heal", "Emergency"}, NEW e \in {"idle", "residual"}, SelfHeal(c, e) \/ Unread(c, e),
         UNCHANGED <<orig, sys, file, active, mem>>, Off' = Off,
         \A a \in Safe' : mem[a] \in {None, orig[a]} /\ file.snap[a] \in {None, orig[a]}
  PROVE  Core'
<1>1. Off \subseteq Healable(file) /\ Healable(file) \subseteq Listed(file.snap)
  BY DEF Recoverable, Off, Away, Safe, Healable, Listed
<1>2. /\ job["mgr"].call = "none" /\ job["heal"].call = "none"
      /\ job["mgr"].snap = Empty /\ job["mgr"].old = Empty /\ job["heal"].snap = Empty /\ job["heal"].old = Empty
  BY DEF Roles, JobOK, Procs
<1>3. job' = job \/ \E pc \in {"restore", "residual"}, S \in SUBSET Adapters, l \in {Empty, file.snap} :
        /\ job'["mgr"] = job["mgr"]
        /\ job'["heal"] = [call |-> c, pc |-> pc, todo |-> S, bad |-> {},
                           snap |-> l, old |-> mem, was |-> active]
        /\ pc = "restore" => S = Healable(file) /\ S # {} /\ l = file.snap
  <2>1. \/ job' = job \/ Begin("heal", c, "residual", {}, Empty)
        \/ Healable(file) # {} /\ Begin("heal", c, "restore", Healable(file), file.snap)
    BY DEF SelfHeal, Unread
  <2>2. CASE Begin("heal", c, "residual", {}, Empty)
    BY <2>2 DEF Begin, TypeOK, Procs
  <2>3. CASE Healable(file) # {} /\ Begin("heal", c, "restore", Healable(file), file.snap)
    BY <1>1, <2>3 DEF Begin, TypeOK, Procs, Listed
  <2> QED BY <2>1, <2>2, <2>3
<1>0. Recoverable'
  BY <1>1 DEF Recoverable, Off, Away, Safe
<1>4. CASE job' = job
  <2>1. SnapsOriginal'
    BY <1>2, <1>4 DEF SnapsOriginal, Procs, Empty, Safe
  <2>2. OneAtATime' /\ Cover'
    BY <1>2, <1>4 DEF OneAtATime, Cover
  <2> QED BY <1>0, <2>1, <2>2 DEF Core
<1>5. ASSUME NEW pc \in {"restore", "residual"}, NEW S \in SUBSET Adapters, NEW l \in {Empty, file.snap},
             job'["mgr"] = job["mgr"],
             job'["heal"] = [call |-> c, pc |-> pc, todo |-> S, bad |-> {},
                             snap |-> l, old |-> mem, was |-> active],
             pc = "restore" => S = Healable(file) /\ S # {} /\ l = file.snap
      PROVE  Core'
  <2>1. SnapsOriginal'
    BY <1>2, <1>5 DEF SnapsOriginal, Procs, Empty, Safe
  <2>2. OneAtATime'
    BY <1>5 DEF OneAtATime
  <2>4. Cover'
    BY <1>1, <1>2, <1>5 DEF Cover, HealCover, BulkCover
  <2> QED BY <1>0, <2>1, <2>2, <2>4 DEF Core
<1> QED BY <1>3, <1>4, <1>5

(* A Save that leaves no file leaves no safe adapter off, and any other    *)
(* keeps the adapters that are safe.                                       *)
LEMMA SaveLoses ==
  ASSUME TypeOK, TypeOK', Recoverable, SaveSpoils, UNCHANGED <<orig, sys>>
  PROVE  /\ Safe' \subseteq Safe /\ Off' \subseteq Off
         /\ ~file'.present => Off' = {}
         /\ file'.present => spoilt' = spoilt /\ Off' = Off
<1>1. file.present \in BOOLEAN /\ file'.present \in BOOLEAN
  BY DEF TypeOK, StateFiles
<1>2. spoilt \subseteq spoilt' /\ Away' = Away
  BY DEF SaveSpoils, Away
<1>3. CASE file'.present
  BY <1>2, <1>3 DEF SaveSpoils, Off, Safe
<1>4. CASE ~file'.present /\ file.present
  BY <1>2, <1>4 DEF SaveSpoils, Off, Safe
<1>5. CASE ~file'.present /\ ~file.present
  <2>1. Off = {}
    BY <1>5 DEF Recoverable, Off, Away, Safe, Healable
  <2> QED BY <1>2, <1>5, <2>1 DEF Off, Safe
<1> QED BY <1>1, <1>3, <1>4, <1>5

LEMMA CrashInductive ==
  ASSUME TypeOK, TypeOK', SnapsOriginal, Recoverable, Crash
  PROVE  Core'
<1>1. \A p \in Procs : job'[p] = Idle
  BY DEF Crash
<1>2. job'["mgr"] = Idle /\ job'["heal"] = Idle
  BY <1>1 DEF Procs
<1>3. UNCHANGED <<orig, sys>> /\ mem' = Empty /\ (file' = file \/ file' = NoFile) /\ SaveSpoils
  BY DEF Crash
<1>4. /\ Safe' \subseteq Safe /\ Off' \subseteq Off /\ (~file'.present => Off' = {})
  BY <1>3, SaveLoses
<1>5. SnapsOriginal'
  BY <1>1, <1>3, <1>4 DEF SnapsOriginal, Idle, Empty, NoFile, Safe
<1>6. Recoverable'
  <2>1. CASE file' = NoFile
    BY <1>4, <2>1 DEF Recoverable, NoFile, Off, Away, Safe
  <2>2. CASE file' = file
    BY <1>3, <1>4, <2>2 DEF Recoverable, Safe
  <2> QED BY <1>3, <2>1, <2>2
<1>7. OneAtATime' /\ Cover'
  BY <1>2 DEF OneAtATime, Cover, Idle
<1> QED BY <1>5, <1>6, <1>7 DEF Core

(* Steps of the manager: the self-heal is idle while one is taken.         *)
LEMMA ManagerStep ==
  ASSUME Steady, job["mgr"].pc # "idle"
  PROVE  /\ job["heal"].pc = "idle" /\ job["heal"].call = "none"
         /\ job["mgr"] \in Jobs /\ JobOK("mgr", job["mgr"])
         /\ job["mgr"].snap \in Snapshots /\ job["mgr"].old \in Snapshots
         /\ \A a \in Safe : /\ job["mgr"].snap[a] \in {None, orig[a]}
                            /\ job["mgr"].old[a] \in {None, orig[a]}
BY DEF Steady, Core, OneAtATime, Roles, JobOK, TypeOK, Procs, Jobs, SnapsOriginal

LEMMA IdleManager ==
  ASSUME Steady, job["mgr"].pc # "idle", Return("mgr")
  PROVE  job'["mgr"] = Idle /\ job'["heal"] = job["heal"]
BY DEF Return, Steady, TypeOK, Procs

(* When the manager's operation has returned, only the file, the memory    *)
(* and the adapters are left to relate.                                    *)
LEMMA ReturnInductive ==
  ASSUME Steady, job["mgr"].pc # "idle", Return("mgr"), orig' = orig, Safe' \subseteq Safe,
         \A a \in Safe' : mem'[a] \in {None, orig[a]} /\ file'.snap[a] \in {None, orig[a]},
         Recoverable'
  PROVE  Core'
<1>1. job'["mgr"] = Idle /\ job'["heal"] = job["heal"] /\ job["heal"].call = "none" /\ job["heal"].pc = "idle"
  BY IdleManager, ManagerStep
<1>2. SnapsOriginal'
  BY <1>1 DEF SnapsOriginal, Steady, Core, Procs, Idle, Empty, Safe
<1>3. OneAtATime' /\ Cover'
  BY <1>1 DEF OneAtATime, Cover, Idle
<1> QED BY <1>2, <1>3 DEF Core

(* A step that keeps what the manager's operation works from and does not  *)
(* end it keeps these two parts of the invariant.                          *)
LEMMA SameJob ==
  ASSUME Steady, job["mgr"].pc # "idle", UNCHANGED <<orig, mem, spoilt>>,
         \A a \in Safe : file'.snap[a] \in {None, orig[a]},
         job'["heal"] = job["heal"],
         job'["mgr"].snap = job["mgr"].snap, job'["mgr"].old = job["mgr"].old
  PROVE  SnapsOriginal' /\ OneAtATime'
<1>1. SnapsOriginal'
  BY ManagerStep DEF Steady, Core, SnapsOriginal, Procs, Safe
<1>2. OneAtATime'
  BY ManagerStep DEF OneAtATime
<1> QED BY <1>1, <1>2

LEMMA SaveBeforeTakeoverInductive ==
  ASSUME Steady, TypeOK', SaveBeforeTakeover
  PROVE  Core'
<1> DEFINE j == job["mgr"]
<1>1. j.pc = "save" /\ orig' = orig /\ sys' = sys /\ active' = active /\ SaveSpoils
  BY DEF SaveBeforeTakeover
<1>2. j.call \in {"Takeover", "TakeoverSingle"}
  BY <1>1, ManagerStep DEF JobOK
<1>0. /\ Safe' \subseteq Safe /\ Off' \subseteq Off
      /\ ~file'.present => Off' = {}
      /\ file'.present => spoilt' = spoilt /\ Off' = Off
  BY <1>1, SaveLoses DEF Steady, Core
<1>3. CASE Ok /\ file' = StateFile(TRUE, j.snap) /\ Goto("mgr", "apply") /\ UNCHANGED mem
  <2>0. spoilt' = spoilt /\ Off' = Off
    BY <1>0, <1>3 DEF StateFile
  <2>1. job'["heal"] = job["heal"] /\ job'["mgr"] = [j EXCEPT !.pc = "apply"]
    BY <1>3 DEF Goto, Steady, TypeOK, Procs
  <2>2. Off \subseteq Listed(j.snap)
    BY <1>1, <1>2 DEF Steady, Core, Cover, TakeoverCover, SingleCover
  <2>3. Recoverable'
    BY <1>1, <1>3, <2>0, <2>2, ManagerStep DEF Recoverable, Off, Away, Safe, StateFile, Healable, Listed
  <2>4. /\ job'["mgr"].call = j.call /\ job'["mgr"].snap = j.snap /\ job'["mgr"].old = j.old
        /\ job'["mgr"].was = j.was /\ job'["mgr"].pc = "apply"
        /\ job'["mgr"].todo = j.todo /\ job'["mgr"].bad = j.bad
    BY <1>1, <2>1, ManagerStep DEF Jobs
  <2>5. SnapsOriginal' /\ OneAtATime'
    <3>1. \A a \in Safe : file'.snap[a] \in {None, orig[a]}
      BY <1>1, <1>3, ManagerStep DEF StateFile
    <3> QED BY <1>1, <1>3, <2>0, <2>1, <2>4, <3>1, SameJob
  <2>6. Cover'
    <3>1. CASE j.call = "Takeover"
      <4>1. TakeoverCover(j)
        BY <3>1 DEF Steady, Core, Cover
      <4>2. TakeoverCover(job["mgr"])'
        BY <1>1, <1>3, <2>0, <2>4, <4>1 DEF TakeoverCover, BulkCover, Listed
      <4> QED BY <1>1, <2>1, <2>4, <3>1, <4>2, ManagerStep DEF Cover
    <3>2. CASE j.call = "TakeoverSingle"
      <4>1. SingleCover(j)
        BY <3>2 DEF Steady, Core, Cover
      <4>2. SingleCover(job["mgr"])'
        BY <1>1, <1>3, <2>0, <2>4, <4>1 DEF SingleCover, Listed
      <4> QED BY <1>1, <2>1, <2>4, <3>2, <4>2, ManagerStep DEF Cover
    <3> QED BY <1>2, <3>1, <3>2
  <2> QED BY <2>3, <2>5, <2>6 DEF Core
<1>4. CASE (file' = file \/ file' = NoFile) /\ Return("mgr") /\ mem' = j.old
  <2>1. Recoverable'
    <3>1. CASE file' = file
      BY <1>0, <1>1, <3>1 DEF Steady, Core, Recoverable, Safe
    <3>2. CASE file' = NoFile
      BY <1>0, <3>2 DEF NoFile, Recoverable, Off, Away, Safe
    <3> QED BY <1>4, <3>1, <3>2
  <2>2. \A a \in Safe' : mem'[a] \in {None, orig[a]} /\ file'.snap[a] \in {None, orig[a]}
    BY <1>0, <1>1, <1>4, ManagerStep DEF Steady, Core, SnapsOriginal, NoFile, Empty, Safe
  <2> QED BY <1>0, <1>1, <1>4, <2>1, <2>2, ReturnInductive
<1> QED BY <1>3, <1>4 DEF SaveBeforeTakeover

LEMMA ApplyInductive ==
  ASSUME Steady, NEW b \in Adapters, Apply(b)
  PROVE  Core'
<1> DEFINE j == job["mgr"]
<1>1. j.pc = "apply" /\ b \in j.todo /\ orig' = orig /\ file' = file /\ spoilt' = spoilt /\ Safe' = Safe
  BY DEF Apply, Safe
<1>2. j.call \in {"Takeover", "TakeoverSingle"} /\ j.todo \subseteq Listed(j.snap)
  BY <1>1, ManagerStep DEF JobOK
<1>3. file = StateFile(TRUE, j.snap)
  BY <1>1, <1>2 DEF Steady, Core, Cover, TakeoverCover, SingleCover
<1>4. \A a \in Adapters : a # b => sys'[a] = sys[a]
  BY DEF Apply, Steady, TypeOK
<1>5. Recoverable'
  <2>1. b \in Healable(file) /\ (b \in Safe => file.snap[b] = orig[b])
    BY <1>1, <1>2, <1>3, ManagerStep DEF StateFile, Healable, Listed
  <2> QED BY <1>1, <1>4, <2>1 DEF Steady, Core, Recoverable, Safe
<1>0. \A a \in Safe : file'.snap[a] \in {None, orig[a]}
  BY <1>1 DEF Steady, Core, SnapsOriginal
<1>6. CASE Return("mgr") /\ active' = TRUE /\ mem' = j.snap
  <2>2. \A a \in Safe' : mem'[a] \in {None, orig[a]} /\ file'.snap[a] \in {None, orig[a]}
    BY <1>0, <1>1, <1>6, ManagerStep
  <2> QED BY <1>1, <1>5, <1>6, <2>2, ReturnInductive
<1>7. CASE job' = [job EXCEPT !["mgr"].todo = @ \ {b}] /\ j.todo # {b} /\ UNCHANGED <<active, mem>>
  <2>1. job'["heal"] = job["heal"] /\ job'["mgr"] = [j EXCEPT !.todo = @ \ {b}]
    BY <1>7 DEF Steady, TypeOK, Procs
  <2>2. /\ job'["mgr"].call = j.call /\ job'["mgr"].snap = j.snap /\ job'["mgr"].old = j.old
        /\ job'["mgr"].was = j.was /\ job'["mgr"].pc = "apply"
        /\ job'["mgr"].todo = j.todo \ {b} /\ job'["mgr"].bad = j.bad
    BY <1>1, <2>1, ManagerStep DEF Jobs
  <2>3. SnapsOriginal' /\ OneAtATime'
    BY <1>0, <1>1, <1>7, <2>1, <2>2, SameJob
  <2>4. j.call = "Takeover"
    BY <1>1, <1>2, <1>7 DEF Steady, Core, Cover, SingleCover
  <2>5. Cover'
    <3>1. TakeoverCover(j)
      BY <2>4 DEF Steady, Core, Cover
    <3>2. TakeoverCover(job["mgr"])'
      BY <1>1, <1>3, <1>7, <2>2, <3>1 DEF TakeoverCover, BulkCover, Listed
    <3> QED BY <1>1, <2>1, <2>2, <2>4, <3>2, ManagerStep DEF Cover
  <2> QED BY <1>5, <2>3, <2>5 DEF Core
<1>8. CASE /\ job' = [job EXCEPT !["mgr"].pc = "restore",
                                 !["mgr"].todo = IF j.call = "Takeover" THEN Listed(j.snap) ELSE {b}]
           /\ UNCHANGED <<active, mem>>
  <2> DEFINE S == IF j.call = "Takeover" THEN Listed(j.snap) ELSE {b}
  <2>1. job'["heal"] = job["heal"] /\ job'["mgr"] = [j EXCEPT !.pc = "restore", !.todo = S]
    BY <1>8 DEF Steady, TypeOK, Procs
  <2> HIDE DEF S
  <2>2. /\ job'["mgr"].call = j.call /\ job'["mgr"].snap = j.snap /\ job'["mgr"].old = j.old
        /\ job'["mgr"].was = j.was /\ job'["mgr"].pc = "restore"
        /\ job'["mgr"].todo = S /\ job'["mgr"].bad = j.bad
    BY <1>1, <2>1, ManagerStep DEF Jobs
  <2>3. SnapsOriginal' /\ OneAtATime'
    BY <1>0, <1>1, <1>8, <2>1, <2>2, SameJob
  <2>4. Off' \subseteq Listed(j.snap)
    BY <1>1, <1>3, <1>5 DEF Recoverable, Off, Away, Safe, Healable, StateFile, Listed
  <2>5. CASE j.call = "Takeover"
    <3>1. Cover'
      <4>1. S = Listed(j.snap) /\ S # {} /\ j.bad = {}
        BY <1>1, <1>2, <2>5 DEF S, Steady, Core, Cover, TakeoverCover
      <4>2. TakeoverCover(job["mgr"])'
        BY <2>2, <2>4, <4>1 DEF TakeoverCover, BulkCover, Listed
      <4> QED BY <1>1, <2>1, <2>2, <2>5, <4>2, ManagerStep DEF Cover
    <3> QED BY <1>5, <2>3, <3>1 DEF Core
  <2>6. CASE j.call = "TakeoverSingle"
    <3>1. PICK a \in Adapters : j.todo = {a} /\ \A d \in Adapters \ {a} : j.snap[d] = j.old[d]
      BY <1>1, <2>6 DEF Steady, Core, Cover, SingleCover
    <3>2. a = b /\ S = {a} /\ j.bad = {}
      BY <1>1, <2>6, <3>1 DEF S, Steady, Core, Cover, SingleCover
    <3>4. SingleCover(job["mgr"])'
      <4>1. \E c \in Adapters : job'["mgr"].todo = {c} /\ \A d \in Adapters \ {c} : job'["mgr"].snap[d] = job'["mgr"].old[d]
        BY <2>2, <3>1, <3>2
      <4> QED BY <2>2, <2>4, <3>2, <4>1 DEF SingleCover, Listed
    <3>5. Cover'
      BY <1>1, <2>1, <2>2, <2>6, <3>4, ManagerStep DEF Cover
    <3> QED BY <1>5, <2>3, <3>5 DEF Core
  <2> QED BY <1>2, <2>5, <2>6
<1> QED BY <1>6, <1>7, <1>8 DEF Apply

(* The same for the self-heal, which the manager does not overlap.         *)
LEMMA SameHeal ==
  ASSUME Steady, job["heal"].pc # "idle", UNCHANGED <<orig, mem, spoilt>>,
         \A a \in Safe : file'.snap[a] \in {None, orig[a]},
         job'["mgr"] = job["mgr"],
         job'["heal"].snap = job["heal"].snap, job'["heal"].old = job["heal"].old
  PROVE  SnapsOriginal' /\ OneAtATime' /\ job["mgr"].call = "none"
<1>1. job["mgr"].pc = "idle" /\ job["mgr"].call = "none"
  BY DEF Steady, Core, OneAtATime, Roles, JobOK, Procs
<1>2. SnapsOriginal'
  BY DEF Steady, Core, SnapsOriginal, Procs, Safe
<1>3. OneAtATime'
  BY <1>1 DEF OneAtATime
<1> QED BY <1>1, <1>2, <1>3

LEMMA ReturnHeal ==
  ASSUME Steady, job["heal"].pc # "idle", Return("heal"),
         UNCHANGED <<orig, mem, spoilt>>,
         \A a \in Safe : file'.snap[a] \in {None, orig[a]}, Recoverable'
  PROVE  Core'
<1>1. job["mgr"].pc = "idle" /\ job["mgr"].call = "none"
  BY DEF Steady, Core, OneAtATime, Roles, JobOK, Procs
<1>2. job'["mgr"] = job["mgr"] /\ job'["heal"] = Idle
  BY DEF Return, Steady, TypeOK, Procs
<1>3. SnapsOriginal'
  BY <1>2 DEF Steady, Core, SnapsOriginal, Procs, Idle, Empty, Safe
<1>4. OneAtATime' /\ Cover'
  BY <1>1, <1>2 DEF OneAtATime, Cover, Idle
<1> QED BY <1>3, <1>4 DEF Core

(* A restore writes the original configuration, so it moves no adapter off *)
(* it, and one it leaves off is among the failed ones.                     *)
LEMMA RestoreFacts ==
  ASSUME Steady, NEW p \in Procs, NEW b \in Adapters, RestoreAdapter(p, b)
  PROVE  /\ job[p].pc = "restore" /\ b \in job[p].todo /\ job[p].todo \subseteq Listed(job[p].snap)
         /\ Off' \subseteq Off /\ Recoverable' /\ UNCHANGED <<orig, file, up, active, mem, spoilt>>
         /\ \E bad \in {job[p].bad, job[p].bad \cup {b}} :
              /\ b \in Off' => b \in bad
              /\ job' = [job EXCEPT ![p] = [job[p] EXCEPT !.todo = @ \ {b}, !.bad = bad,
                   !.pc = IF job[p].todo = {b} THEN AfterRestore(job[p], bad) ELSE @]]
<1> DEFINE j == job[p]
<1>1. j.pc = "restore" /\ b \in j.todo /\ UNCHANGED <<orig, file, up, active, mem, spoilt>>
  BY DEF RestoreAdapter
<1>2. j \in Jobs /\ JobOK(p, j)
  BY DEF Steady, TypeOK, Roles
<1>3. j.todo \subseteq Listed(j.snap)
  BY <1>1, <1>2 DEF JobOK
<1>4. /\ b \in Safe => j.snap[b] = orig[b]
      /\ orig[b] \in Clean /\ orig[b] \in Configs
  BY <1>1, <1>3, CleanIsConfig DEF Listed, Steady, Core, SnapsOriginal, TypeOK
<1>5. b \in Safe => CleanAdapterState(j.snap[b]) = orig[b]
  BY <1>4, CleanOfClean
<1>6. \/ sys' = [sys EXCEPT ![b] = CleanAdapterState(j.snap[b])]
      \/ \E W \in SUBSET Stacks : sys' = [sys EXCEPT ![b] = Written(sys[b], CleanAdapterState(j.snap[b]), W)]
  BY DEF RestoreAdapter
<1>7. Off' \subseteq Off
  <2> SUFFICES ASSUME NEW a \in Safe, sys[a] = orig[a] PROVE sys'[a] = orig'[a]
    BY <1>1 DEF Off, Away, Safe
  <2>1. \A W : Written(orig[b], orig[b], W) = orig[b]
    BY <1>4, WrittenSame
  <2>2. CASE a = b
    BY <1>1, <1>5, <1>6, <2>1, <2>2 DEF Steady, TypeOK, Safe
  <2>3. CASE a # b
    BY <1>1, <1>6, <2>3 DEF Steady, TypeOK, Safe
  <2> QED BY <2>2, <2>3
<1>8. Recoverable'
  BY <1>1, <1>7 DEF Recoverable, Steady, Core, Off, Away, Safe
<1>9. \E bad \in {j.bad, j.bad \cup {b}} :
         /\ b \in Off' => b \in bad
         /\ job' = [job EXCEPT ![p] = [j EXCEPT !.todo = @ \ {b}, !.bad = bad,
                   !.pc = IF j.todo = {b} THEN AfterRestore(j, bad) ELSE @]]
  <2> DEFINE then(bad) == job' = [job EXCEPT
                 ![p].todo = @ \ {b}, ![p].bad = bad,
                 ![p].pc = IF j.todo = {b} THEN AfterRestore(j, bad) ELSE @]
  <2>1. \A bad : then(bad) =>
          job' = [job EXCEPT ![p] = [j EXCEPT !.todo = @ \ {b}, !.bad = bad,
                   !.pc = IF j.todo = {b} THEN AfterRestore(j, bad) ELSE @]]
    BY DEF Steady, TypeOK
  <2>2. CASE sys' = [sys EXCEPT ![b] = CleanAdapterState(j.snap[b])] /\ then(j.bad)
    <3>1. b \notin Off'
      BY <1>1, <1>5, <2>2 DEF Off, Away, Safe, Steady, TypeOK
    <3> QED BY <2>1, <2>2, <3>1
  <2>3. CASE then(j.bad \cup {b})
    BY <2>1, <2>3
  <2> HIDE DEF then
  <2>4. (sys' = [sys EXCEPT ![b] = CleanAdapterState(j.snap[b])] /\ then(j.bad)) \/ then(j.bad \cup {b})
    BY DEF RestoreAdapter, then
  <2> QED BY <2>2, <2>3, <2>4
<1> QED BY <1>1, <1>3, <1>7, <1>8, <1>9
LEMMA RestoreAdapterInductive ==
  ASSUME Steady, NEW p \in Procs, NEW b \in Adapters, RestoreAdapter(p, b)
  PROVE  Core'
<1> DEFINE j == job[p]
<1>1. /\ j.pc = "restore" /\ b \in j.todo /\ j.todo \subseteq Listed(j.snap)
      /\ Off' \subseteq Off /\ Recoverable' /\ UNCHANGED <<orig, file, up, active, mem, spoilt>>
  BY RestoreFacts
<1>2. PICK bad \in {j.bad, j.bad \cup {b}} :
        /\ b \in Off' => b \in bad
        /\ job' = [job EXCEPT ![p] = [j EXCEPT !.todo = @ \ {b}, !.bad = bad,
                   !.pc = IF j.todo = {b} THEN AfterRestore(j, bad) ELSE @]]
  BY RestoreFacts
<1>3. j \in Jobs /\ JobOK(p, j) /\ job \in [Procs -> Jobs]
  BY DEF Steady, TypeOK, Roles
<1> DEFINE pc == IF j.todo = {b} THEN AfterRestore(j, bad) ELSE "restore"
<1>4. /\ job'[p].call = j.call /\ job'[p].snap = j.snap /\ job'[p].old = j.old /\ job'[p].was = j.was
      /\ job'[p].todo = j.todo \ {b} /\ job'[p].bad = bad /\ job'[p].pc = pc
      /\ \A q \in Procs \ {p} : job'[q] = job[q]
  BY <1>1, <1>2, <1>3 DEF Jobs
<1>5. j.call \in CallKinds \cup {"Heal"}
  BY <1>1, <1>3 DEF JobOK, Jobs
<1>6. pc \in {"restore", "clear", "sweep", "resave"}
  BY <1>3, <1>5, AfterRestoreType
<1>7. \A a \in Safe : file'.snap[a] \in {None, orig[a]}
  BY <1>1 DEF Steady, Core, SnapsOriginal
<1>8. j.call \in {"Takeover", "Restore", "Heal", "Emergency"} /\ BulkCover(j) =>
        /\ pc \in {"restore", "sweep", "clear"}
        /\ pc = "restore" => Off' \subseteq job'[p].todo \cup bad /\ job'[p].todo # {}
        /\ pc = "sweep" => Off' \subseteq bad /\ bad # {}
        /\ pc = "clear" => Off' = {}
        /\ job'[p].todo \cup bad \subseteq Listed(j.snap)
  <2> SUFFICES ASSUME j.call \in {"Takeover", "Restore", "Heal", "Emergency"}, BulkCover(j)
               PROVE  /\ pc \in {"restore", "sweep", "clear"}
                      /\ pc = "restore" => Off' \subseteq job'[p].todo \cup bad /\ job'[p].todo # {}
                      /\ pc = "sweep" => Off' \subseteq bad /\ bad # {}
                      /\ pc = "clear" => Off' = {}
                      /\ job'[p].todo \cup bad \subseteq Listed(j.snap)
    OBVIOUS
  <2>1. Off \subseteq j.todo \cup j.bad /\ j.todo \cup j.bad \subseteq Listed(j.snap)
    BY <1>1 DEF BulkCover
  <2>2. Off' \subseteq (j.todo \ {b}) \cup bad /\ (j.todo \ {b}) \cup bad \subseteq Listed(j.snap)
    BY <1>1, <1>2, <2>1
  <2>3. CASE j.todo # {b}
    BY <1>1, <1>4, <2>2, <2>3
  <2>4. CASE j.todo = {b}
    <3>1. pc = IF bad = {} THEN "clear" ELSE "sweep"
      BY <2>4 DEF AfterRestore
    <3> HIDE DEF pc
    <3> QED BY <1>4, <2>2, <2>4, <3>1
  <2> QED BY <2>3, <2>4
<1>9. CASE p = "heal"
  <2>1. SnapsOriginal' /\ OneAtATime' /\ job["mgr"].call = "none" /\ job'["mgr"] = job["mgr"]
    <3>1. job["heal"].pc # "idle" /\ job'["mgr"] = job["mgr"]
      BY <1>1, <1>4, <1>9 DEF Procs
    <3> HIDE DEF pc
    <3> QED BY <1>1, <1>4, <1>7, <1>9, <3>1, SameHeal
  <2>2. j.call \in {"Heal", "Emergency"} /\ BulkCover(j)
    BY <1>1, <1>3, <1>9 DEF JobOK, Steady, Core, Cover, HealCover
  <2>3. HealCover(job["heal"])'
    <3> HIDE DEF pc
    <3> QED BY <1>4, <1>8, <1>9, <2>2 DEF HealCover, BulkCover, Listed
  <2> QED BY <1>1, <2>1, <2>3 DEF Core, Cover
<1>10. CASE p = "mgr"
  <2>1. /\ SnapsOriginal' /\ OneAtATime'
        /\ job'["heal"] = job["heal"] /\ job["heal"].call = "none"
    <3>1. job["heal"].call = "none" /\ job'["heal"] = job["heal"]
      BY <1>1, <1>4, <1>10, ManagerStep DEF Procs
    <3>2. job["mgr"].pc \notin {"idle", "residual"} /\ job'["mgr"].pc \notin {"idle", "residual"}
      BY <1>1, <1>4, <1>6, <1>10
    <3> HIDE DEF pc
    <3> QED BY <1>1, <1>4, <1>7, <1>10, <3>1, <3>2, SameJob
  <2>2. j.call \in ManagerCalls
    BY <1>1, <1>3, <1>10 DEF JobOK
  <2>3. CASE j.call \in {"Takeover", "Restore"}
    <3>1. BulkCover(j)
      BY <1>10, <2>3 DEF Steady, Core, Cover, TakeoverCover, RestoreCover
    <3> HIDE DEF pc
    <3>2. BulkCover(job["mgr"])'
      BY <1>4, <1>8, <1>10, <2>3, <3>1 DEF BulkCover, Listed
    <3>3. pc \in {"restore", "sweep", "clear"}
      BY <1>8, <2>3, <3>1
    <3>4. Cover'
      BY <1>4, <1>10, <2>1, <2>3, <3>1, <3>2, <3>3 DEF Cover, TakeoverCover, RestoreCover
    <3> QED BY <1>1, <2>1, <3>4 DEF Core
  <2>4. CASE j.call = "TakeoverSingle"
    <3>1. j.todo = {b} /\ j.bad = {} /\ Off \subseteq Listed(j.old) \cup {b}
      <4>1. SingleCover(j)
        BY <1>10, <2>4 DEF Steady, Core, Cover
      <4>2. PICK a \in Adapters : j.todo = {a} /\ \A d \in Adapters \ {a} : j.snap[d] = j.old[d]
        BY <1>1, <4>1 DEF SingleCover
      <4>3. a = b /\ j.bad = {} /\ Off \subseteq Listed(j.snap)
        BY <1>1, <4>1, <4>2 DEF SingleCover
      <4> QED BY <4>2, <4>3 DEF Listed
    <3>2. pc = IF bad = {} /\ j.old = Empty THEN "clear" ELSE "resave"
      BY <2>4, <3>1 DEF AfterRestore
    <3>3. bad \subseteq {b} /\ b \in Listed(j.snap) /\ Off' \subseteq Listed(j.old) \cup bad
      BY <1>1, <1>2, <3>1
    <3> HIDE DEF pc
    <3>4. SingleCover(job["mgr"])'
      <4>1. pc \in {"clear", "resave"} /\ (pc = "clear" => bad = {} /\ j.old = Empty /\ Off' = {})
        BY <3>2, <3>3, EmptyType
      <4>2. pc = "resave" /\ bad = {} => j.old # Empty
        BY <3>2
      <4>3. bad \subseteq Listed(j.snap)
        BY <3>3
      <4> QED BY <1>4, <1>10, <3>3, <4>1, <4>2, <4>3 DEF SingleCover, Listed
    <3>5. Cover'
      BY <1>4, <1>10, <2>1, <2>4, <3>4 DEF Cover
    <3> QED BY <1>1, <2>1, <3>5 DEF Core
  <2>5. CASE j.call = "RestoreSingle"
    <3>1. /\ Off \subseteq Listed(mem)
          /\ \A a \in Adapters : j.snap[a] # None => j.snap[a] = mem[a]
          /\ Off \cap Listed(j.snap) \subseteq j.todo \cup j.bad
          /\ j.todo \cup j.bad \subseteq Listed(j.snap)
      BY <1>10, <2>5 DEF Steady, Core, Cover, RestoreSingleCover
    <3> DEFINE rest == [a \in Adapters |-> IF j.snap[a] # None /\ a \notin bad THEN None ELSE mem[a]]
    <3>2. Remaining([j EXCEPT !.bad = bad]) = rest
      BY <1>3 DEF Remaining, Jobs
    <3>3. Remaining(job["mgr"])' = rest
      BY <1>1, <1>4, <1>10 DEF Remaining
    <3> HIDE DEF rest
    <3>4. pc = IF j.todo = {b} THEN IF rest = Empty THEN "clear" ELSE "resave" ELSE "restore"
      BY <2>5, <3>2 DEF AfterRestore
    <3> HIDE DEF pc
    <3>5. Off' \cap Listed(j.snap) \subseteq (j.todo \ {b}) \cup bad /\ (j.todo \ {b}) \cup bad \subseteq Listed(j.snap)
      BY <1>1, <1>2, <3>1
    <3>6. RestoreSingleCover(job["mgr"])'
      BY <1>1, <1>4, <1>10, <3>1, <3>3, <3>4, <3>5 DEF RestoreSingleCover, Listed
    <3>7. Cover'
      BY <1>4, <1>10, <2>1, <2>5, <3>6 DEF Cover
    <3> QED BY <1>1, <2>1, <3>7 DEF Core
  <2> QED BY <2>2, <2>3, <2>4, <2>5 DEF ManagerCalls
<1> QED BY <1>9, <1>10 DEF Procs
(* Only an adapter that is off its configuration can be on the loopback,   *)
(* so pulling such adapters to DHCP moves no other adapter.                *)
LEMMA ResetFacts ==
  ASSUME Steady, NEW S, S \subseteq {a \in Adapters : HasResidualLoopback(sys[a])},
         ResetToDHCP(S), UNCHANGED <<orig, file, spoilt>>
  PROVE  Off' \subseteq Off /\ Recoverable' /\ \A a \in Safe : file'.snap[a] \in {None, orig[a]}
<1>1. \A a \in S : sys[a] # orig[a]
  BY ConfigAssumption DEF HasResidualLoopback, Steady, TypeOK, Clean
<1>2. \A a \in Adapters \ S : sys'[a] = sys[a]
  BY DEF ResetToDHCP
<1>3. Off' \subseteq Off
  BY <1>1, <1>2 DEF Off, Away
<1>4. Recoverable'
  BY <1>3 DEF Recoverable, Steady, Core, Off, Away, Safe
<1>5. \A a \in Safe : file'.snap[a] \in {None, orig[a]}
  BY DEF Steady, Core, SnapsOriginal
<1> QED BY <1>3, <1>4, <1>5

LEMMA SweepInductive ==
  ASSUME Steady, NEW p \in Procs, Sweep(p)
  PROVE  Core'
<1> DEFINE j == job[p]
<1>1. j.pc = "sweep" /\ UNCHANGED <<orig, file, up, active, mem, spoilt>>
  BY DEF Sweep
<1>2. j \in Jobs /\ JobOK(p, j) /\ job \in [Procs -> Jobs]
  BY DEF Steady, TypeOK, Roles
<1>3. Off' \subseteq Off /\ Recoverable' /\ \A a \in Safe : file'.snap[a] \in {None, orig[a]}
  <2>1. {a \in j.bad : HasResidualLoopback(sys[a])} \subseteq {a \in Adapters : HasResidualLoopback(sys[a])}
    BY <1>2 DEF Jobs
  <2> QED BY <1>1, <2>1, ResetFacts DEF Sweep
<1>4. CASE p = "heal"
  <2>1. j.call \in {"Heal", "Emergency"}
    BY <1>1, <1>2, <1>4 DEF JobOK
  <2>2. CASE j.call = "Heal"
    <3>1. Return("heal")
      BY <1>4, <2>2 DEF Sweep
    <3> QED BY <1>1, <1>3, <1>4, <3>1, ReturnHeal
  <2>3. CASE j.call = "Emergency"
    <3>1. Goto("heal", "residual")
      BY <1>4, <2>3 DEF Sweep
    <3>2. /\ job'["mgr"] = job["mgr"] /\ job'["heal"].snap = j.snap /\ job'["heal"].old = j.old
          /\ job'["heal"].pc = "residual" /\ job'["heal"].call = j.call
      BY <1>2, <1>4, <3>1 DEF Goto, Jobs, Procs
    <3>3. SnapsOriginal' /\ OneAtATime' /\ job["mgr"].call = "none"
      BY <1>1, <1>3, <1>4, <3>2, SameHeal
    <3>4. Cover'
      BY <2>3, <3>2, <3>3 DEF Cover, HealCover, BulkCover
    <3> QED BY <1>3, <3>3, <3>4 DEF Core
  <2> QED BY <2>1, <2>2, <2>3
<1>5. CASE p = "mgr"
  <2>1. j.call \in {"Takeover", "Restore"}
    BY <1>1, <1>2, <1>5 DEF JobOK, ManagerCalls
  <2>2. CASE j.call = "Takeover"
    <3>1. Return("mgr")
      BY <1>5, <2>2 DEF Sweep
    <3>2. Safe' = Safe /\ \A a \in Safe' : mem'[a] \in {None, orig[a]}
      BY <1>1 DEF Steady, Core, SnapsOriginal, Safe
    <3> QED BY <1>1, <1>3, <1>5, <3>1, <3>2, ReturnInductive
  <2>3. CASE j.call = "Restore"
    <3>1. Goto("mgr", "resave")
      BY <1>5, <2>3 DEF Sweep
    <3>2. /\ job'["heal"] = job["heal"] /\ job'["mgr"].snap = j.snap /\ job'["mgr"].old = j.old
          /\ job'["mgr"].pc = "resave" /\ job'["mgr"].call = j.call /\ job'["mgr"].was = j.was
          /\ job'["mgr"].todo = j.todo /\ job'["mgr"].bad = j.bad
      BY <1>2, <1>5, <3>1 DEF Goto, Jobs, Procs
    <3>3. SnapsOriginal' /\ OneAtATime'
      BY <1>1, <1>3, <1>5, <3>2, SameJob
    <3>4. Off \subseteq j.bad /\ j.bad # {} /\ j.todo \cup j.bad \subseteq Listed(j.snap)
      BY <1>1, <1>5, <2>3 DEF Steady, Core, Cover, RestoreCover, BulkCover
    <3>5. RestoreCover(job["mgr"])'
      BY <1>3, <3>2, <3>4 DEF RestoreCover, BulkCover, Listed
    <3>6. Cover'
      BY <1>1, <1>5, <2>3, <3>2, <3>5, ManagerStep DEF Cover
    <3> QED BY <1>3, <3>3, <3>6 DEF Core
  <2> QED BY <2>1, <2>2, <2>3
<1> QED BY <1>4, <1>5 DEF Procs

LEMMA ResidualInductive ==
  ASSUME Steady, NEW p \in Procs, ResetResidualLoopbackDNS(p)
  PROVE  Core'
<1>1. job[p].pc = "residual" /\ UNCHANGED <<orig, file, up, active, mem, spoilt>> /\ Return(p)
  BY DEF ResetResidualLoopbackDNS
<1>2. Recoverable' /\ \A a \in Safe : file'.snap[a] \in {None, orig[a]}
  BY <1>1, ResetFacts DEF ResetResidualLoopbackDNS
<1>3. CASE p = "heal"
  BY <1>1, <1>2, <1>3, ReturnHeal
<1>4. CASE p = "mgr"
  <2>1. job["mgr"].call = "Restore"
    BY <1>1, <1>4, ManagerStep DEF JobOK, ManagerCalls
  <2>2. mem' = Empty /\ active' = FALSE
    BY <1>1, <1>4, <2>1 DEF Steady, Memory
  <2>3. Safe' = Safe /\ \A a \in Safe' : mem'[a] \in {None, orig[a]}
    BY <1>1, <2>2 DEF Empty, Safe
  <2> QED BY <1>1, <1>2, <1>4, <2>3, ReturnInductive
<1> QED BY <1>3, <1>4 DEF Procs
(* The file is cleared only when every adapter is back.                    *)
LEMMA ClearMeansBack ==
  ASSUME Steady, NEW p \in Procs, job[p].pc = "clear"
  PROVE  Off = {}
<1> DEFINE j == job[p]
<1>1. JobOK(p, j)
  BY DEF Steady, Roles
<1>2. CASE p = "heal"
  BY <1>1, <1>2 DEF JobOK, Steady, Core, Cover, HealCover, BulkCover
<1>3. CASE p = "mgr"
  <2>1. j.call \in ManagerCalls
    BY <1>1, <1>3 DEF JobOK
  <2>2. CASE j.call \in {"Takeover", "Restore", "TakeoverSingle"}
    BY <1>3, <2>2 DEF Steady, Core, Cover, TakeoverCover, RestoreCover, BulkCover, SingleCover
  <2>3. CASE j.call = "RestoreSingle"
    <3>1. /\ Off \subseteq Listed(mem) /\ Off \cap Listed(j.snap) \subseteq j.todo \cup j.bad
          /\ j.todo = {} /\ Remaining(j) = Empty
      BY <1>3, <2>3 DEF Steady, Core, Cover, RestoreSingleCover
    <3>2. \A a \in Adapters : mem[a] # None => j.snap[a] # None /\ a \notin j.bad
      BY <3>1 DEF Remaining, Empty
    <3> QED BY <3>1, <3>2 DEF Listed
  <2> QED BY <2>1, <2>2, <2>3 DEF ManagerCalls
<1> QED BY <1>2, <1>3 DEF Procs

LEMMA ClearInductive ==
  ASSUME Steady, NEW p \in Procs, ClearFile(p)
  PROVE  Core'
<1> DEFINE j == job[p]
<1>1. j.pc = "clear" /\ UNCHANGED <<orig, sys, up, spoilt>>
  BY DEF ClearFile, Clear
<1>2. j \in Jobs /\ JobOK(p, j) /\ job \in [Procs -> Jobs]
  BY DEF Steady, TypeOK, Roles
<1>3. Off' = {} /\ Recoverable'
  BY <1>1, ClearMeansBack DEF Off, Away, Safe, Recoverable
<1>4. \A a \in Safe : file'.snap[a] \in {None, orig[a]}
  BY DEF ClearFile, Clear, NoFile, Empty, Steady, Core, SnapsOriginal, Safe
<1>5. CASE p = "heal"
  <2>1. j.call \in {"Heal", "Emergency"}
    BY <1>1, <1>2, <1>5 DEF JobOK
  <2>2. UNCHANGED <<mem, active>>
    BY <2>1 DEF ClearFile, Clear
  <2>3. CASE j.call = "Heal"
    <3>1. Return("heal")
      BY <1>5, <2>3 DEF ClearFile, Clear
    <3> QED BY <1>1, <1>3, <1>4, <1>5, <2>2, <3>1, ReturnHeal
  <2>4. CASE j.call = "Emergency"
    <3>1. Goto("heal", "residual")
      BY <1>5, <2>4 DEF ClearFile, Clear
    <3>2. /\ job'["mgr"] = job["mgr"] /\ job'["heal"].snap = j.snap /\ job'["heal"].old = j.old
          /\ job'["heal"].pc = "residual" /\ job'["heal"].call = j.call
      BY <1>2, <1>5, <3>1 DEF Goto, Jobs, Procs
    <3>3. SnapsOriginal' /\ OneAtATime' /\ job["mgr"].call = "none"
      BY <1>1, <1>4, <1>5, <2>2, <3>2, SameHeal
    <3>4. Cover'
      BY <2>4, <3>2, <3>3 DEF Cover, HealCover, BulkCover
    <3> QED BY <1>3, <3>3, <3>4 DEF Core
  <2> QED BY <2>1, <2>3, <2>4
<1>6. CASE p = "mgr"
  <2>1. j.call \in ManagerCalls
    BY <1>1, <1>2, <1>6 DEF JobOK
  <2>2. CASE j.call # "Restore"
    <3>1. Return("mgr")
      BY <1>6, <2>1, <2>2 DEF ClearFile, Clear, ManagerCalls
    <3>2. mem' \in {mem, j.old, Empty} /\ Safe' = Safe
      BY <1>1, <2>1, <2>2 DEF ClearFile, ManagerCalls, Safe
    <3>3. \A a \in Safe' : mem'[a] \in {None, orig[a]}
      BY <1>1, <1>6, <3>2, ManagerStep DEF Empty, Steady, Core, SnapsOriginal, Safe
    <3> QED BY <1>1, <1>3, <1>4, <1>6, <3>1, <3>2, <3>3, ReturnInductive
  <2>3. CASE j.call = "Restore"
    <3>1. Goto("mgr", "residual") /\ mem' = Empty /\ active' = FALSE
      BY <1>6, <2>3 DEF ClearFile, Clear
    <3>2. /\ job'["heal"] = job["heal"] /\ job'["mgr"].snap = j.snap /\ job'["mgr"].old = j.old
          /\ job'["mgr"].pc = "residual" /\ job'["mgr"].call = j.call /\ job'["mgr"].was = j.was
      BY <1>2, <1>6, <3>1 DEF Goto, Jobs, Procs
    <3>3. SnapsOriginal'
      BY <1>1, <1>4, <1>6, <3>1, <3>2, ManagerStep DEF Steady, Core, SnapsOriginal, Procs, Empty, Safe
    <3>4. OneAtATime'
      BY <1>1, <1>6, <3>2, ManagerStep DEF OneAtATime
    <3>5. Cover'
      BY <1>1, <1>3, <1>6, <2>3, <3>2, ManagerStep DEF Cover, RestoreCover, BulkCover
    <3> QED BY <1>3, <3>3, <3>4, <3>5 DEF Core
  <2> QED BY <2>2, <2>3
<1> QED BY <1>5, <1>6 DEF Procs

(* What the end of an operation writes into the file covers what is off,   *)
(* so either it or the file as it was can be restored from.                *)
LEMMA ResaveInductive ==
  ASSUME Steady, TypeOK', Resave
  PROVE  Core'
<1> DEFINE j == job["mgr"]
<1>1. j.pc = "resave" /\ UNCHANGED <<orig, sys, up>> /\ Return("mgr") /\ SaveSpoils
  BY DEF Resave
<1>0. /\ Safe' \subseteq Safe /\ Off' \subseteq Off
      /\ ~file'.present => Off' = {}
      /\ file'.present => spoilt' = spoilt /\ Off' = Off
  BY <1>1, SaveLoses DEF Steady, Core
<1>2. /\ j \in Jobs /\ j.call \in {"TakeoverSingle", "Restore", "RestoreSingle"}
      /\ \A a \in Safe : j.snap[a] \in {None, orig[a]} /\ j.old[a] \in {None, orig[a]}
  BY <1>1, ManagerStep DEF JobOK
<1>3. ASSUME NEW b \in BOOLEAN, NEW l \in Snapshots, Save(StateFile(b, l)), Off # {} => b,
             Off \subseteq Listed(l), \A a \in Safe : l[a] \in {None, orig[a]}
      PROVE  Recoverable' /\ \A a \in Safe' : file'.snap[a] \in {None, orig[a]}
  <2>1. CASE file' = StateFile(b, l)
    <3>1. spoilt' = spoilt /\ Off' = Off /\ Safe' = Safe
      BY <1>0, <2>1 DEF StateFile, Safe
    <3> QED BY <1>1, <1>3, <2>1, <3>1 DEF Recoverable, Off, Away, Safe, StateFile, Healable, Listed
  <2>2. CASE file' = file
    BY <1>0, <1>1, <2>2 DEF Steady, Core, Recoverable, SnapsOriginal, Safe
  <2>3. CASE file' = NoFile
    BY <1>0, <2>3 DEF NoFile, Empty, Recoverable, Off, Away, Safe
  <2> QED BY <1>3, <2>1, <2>2, <2>3 DEF Save
<1>4. CASE j.call = "TakeoverSingle"
  <2> DEFINE l == [a \in Adapters |-> IF a \in j.bad THEN j.snap[a] ELSE j.old[a]]
  <2>1. /\ Off \subseteq Listed(j.old) \cup j.bad /\ j.bad \subseteq Listed(j.snap)
        /\ j.bad = {} => j.old # Empty
        /\ j.was <=> j.old # Empty
    BY <1>1, <1>4 DEF Steady, Core, Cover, SingleCover, Memory
  <2>2. mem' = j.old
    BY <1>4 DEF Resave, KeepOld, KeepAll, KeepRemaining
  <2>3. Recoverable' /\ \A a \in Safe' : file'.snap[a] \in {None, orig[a]}
    <3>1. CASE j.bad = {}
      <4>1. Save(StateFile(j.was, j.old))
        BY <1>4, <3>1 DEF Resave, KeepOld, KeepAll, KeepRemaining
      <4>2. j.was \in BOOLEAN /\ j.old \in Snapshots
        BY <1>2 DEF Jobs
      <4> QED BY <1>2, <1>3, <2>1, <3>1, <4>1, <4>2
    <3>2. CASE j.bad # {}
      <4>1. Save(StateFile(TRUE, l))
        BY <1>4, <3>2 DEF Resave, KeepOld, KeepAll, KeepRemaining
      <4>2. l \in Snapshots
        BY <1>2 DEF Jobs, Snapshots
      <4>3. Off \subseteq Listed(l) /\ \A a \in Safe : l[a] \in {None, orig[a]}
        BY <1>2, <2>1 DEF Listed, Off, Away, Safe
      <4> HIDE DEF l
      <4> QED BY <1>3, <4>1, <4>2, <4>3
    <3> QED BY <3>1, <3>2
  <2> QED BY <1>0, <1>1, <1>2, <2>2, <2>3, ReturnInductive
<1>5. CASE j.call = "Restore"
  <2>1. Off \subseteq j.bad /\ j.bad \subseteq Listed(j.snap)
    BY <1>1, <1>5 DEF Steady, Core, Cover, RestoreCover, BulkCover
  <2>2. mem' = j.snap /\ Save(StateFile(TRUE, j.snap))
    BY <1>5 DEF Resave, KeepOld, KeepAll, KeepRemaining
  <2>3. j.snap \in Snapshots
    BY <1>2 DEF Jobs
  <2>4. Recoverable' /\ \A a \in Safe' : file'.snap[a] \in {None, orig[a]}
    BY <1>2, <1>3, <2>1, <2>2, <2>3
  <2> QED BY <1>0, <1>1, <1>2, <2>2, <2>4, ReturnInductive
<1>6. CASE j.call = "RestoreSingle"
  <2>1. Off \subseteq Listed(mem) /\ Off \cap Listed(j.snap) \subseteq j.bad
    BY <1>1, <1>6 DEF Steady, Core, Cover, RestoreSingleCover
  <2>2. mem' = Remaining(j) /\ Save(StateFile(TRUE, Remaining(j)))
    BY <1>6 DEF Resave, KeepOld, KeepAll, KeepRemaining
  <2>3. Remaining(j) \in Snapshots
    BY RemainingType DEF Steady, TypeOK
  <2>4. \A a \in Safe : Remaining(j)[a] \in {None, orig[a]}
    BY DEF Remaining, Steady, Core, SnapsOriginal, Safe
  <2>5. Off \subseteq Listed(Remaining(j))
    BY <2>1 DEF Remaining, Listed, Off, Away
  <2>7. Recoverable' /\ \A a \in Safe' : file'.snap[a] \in {None, orig[a]}
    BY <1>3, <2>2, <2>3, <2>4, <2>5
  <2> QED BY <1>0, <1>1, <2>2, <2>4, <2>7, ReturnInductive
<1> QED BY <1>2, <1>4, <1>5, <1>6

(* No step but a start makes an adapter safe again.                        *)
LEMMA SpoiltGrows ==
  ASSUME [Next]_vars
  PROVE  Start \/ spoilt \subseteq spoilt' \/ spoilt' = Adapters
<1>1. \A l : Spoils(l) => spoilt \subseteq spoilt' \/ spoilt' = Adapters
  BY DEF Spoils
<1>2. SaveSpoils => spoilt \subseteq spoilt'
  BY DEF SaveSpoils
<1>3. CASE NewCall
  BY <1>1, <1>3 DEF NewCall, ScanAdapters, Restore, RestoreSingle, EmergencyRestore
<1>4. CASE Takeovers
  BY <1>1, <1>4 DEF Takeovers, Takeover, TakeoverSingle
<1>5. CASE Step
  BY <1>2, <1>5 DEF Step, StepOf, SaveBeforeTakeover, Apply, RestoreAdapter, Sweep, Resave, ClearFile,
     ResetResidualLoopbackDNS
<1>6. CASE Crash \/ UNCHANGED vars
  BY <1>2, <1>6 DEF Crash, vars
<1> QED BY <1>3, <1>4, <1>5, <1>6 DEF Next

LEMMA SameCore ==
  ASSUME Core, UNCHANGED <<orig, sys, file, mem, job, spoilt>>
  PROVE  Core'
<1>1. Off' = Off /\ Safe' = Safe
  BY DEF Off, Away, Safe
<1>2. Recoverable' /\ SnapsOriginal' /\ OneAtATime'
  BY <1>1 DEF Core, Recoverable, SnapsOriginal, OneAtATime
<1>3. Remaining(job["mgr"])' = Remaining(job["mgr"])
  BY DEF Remaining
<1>4. Cover'
  BY <1>1, <1>3 DEF Core, Cover, TakeoverCover, SingleCover, RestoreCover, RestoreSingleCover, HealCover, BulkCover, Listed
<1> QED BY <1>2, <1>4 DEF Core

(* Every step keeps the inductive invariant.  Once no adapter is safe it   *)
(* says nothing of them; it has to be found again only at a start, where   *)
(* no operation is under way.                                              *)
LEMMA NextInductive ==
  ASSUME Inductive, [Next]_vars
  PROVE  Inductive'
<1>1. TypeOK' /\ Roles' /\ Scanned' /\ Memory'
  BY TypeNext, ScanNext, MemoryNext DEF Inductive
<1>2. CASE spoilt' = Adapters
  <2>1. Safe' = {}
    BY <1>2 DEF Safe
  <2>2. SnapsOriginal' /\ Recoverable'
    BY <2>1 DEF SnapsOriginal, Recoverable
  <2> QED BY <1>1, <1>2, <2>2 DEF Inductive
<1>3. CASE Start
  <2>1. job["mgr"].pc = "idle" /\ job["heal"].pc = "idle" /\ mem = Empty
    BY <1>3 DEF Start, Inductive, Roles, Procs
  <2>2. Off' = Off
    BY <1>3 DEF Start, Off, Away
  <2>3. \A a \in Safe' : mem[a] \in {None, orig[a]} /\ file.snap[a] \in {None, orig[a]}
    <3>1. \A a \in Safe' : a \in Safe \/ file.snap[a] \in {None, orig[a]}
      BY <1>3 DEF Start, Safe, Away
    <3> QED BY <2>1, <3>1 DEF Inductive, SnapsOriginal, Empty, Safe
  <2>4. UNCHANGED <<orig, sys, file, active, mem>> /\ (SelfHeal("Heal", "idle") \/ Unread("Heal", "idle"))
    BY <1>3 DEF Start
  <2>5. Core'
    BY <2>1, <2>2, <2>3, <2>4, SelfHealInductive DEF Inductive
  <2> QED BY <1>1, <2>5 DEF Inductive, Core
<1>4. CASE spoilt' # Adapters /\ ~Start
  <2> SUFFICES Core'
    BY <1>1 DEF Inductive, Core
  <2>1. Steady /\ Scanned
    <3>1. spoilt # Adapters
      BY <1>1, <1>4, SpoiltGrows DEF TypeOK
    <3> QED BY <3>1 DEF Inductive, Steady, Core
  <2>2. CASE EmergencyRestore
    <3>1. job["mgr"].pc = "idle" /\ job["heal"].pc = "idle" /\ spoilt' = spoilt
      BY <1>4, <2>2 DEF EmergencyRestore
    <3>2. UNCHANGED <<orig, sys, file, active, mem>>
          /\ (SelfHeal("Emergency", "residual") \/ Unread("Emergency", "residual"))
      BY <2>2 DEF EmergencyRestore
    <3>3. Off' = Off /\ Safe' = Safe
      BY <3>1, <3>2 DEF Off, Away, Safe
    <3>4. \A a \in Safe' : mem[a] \in {None, orig[a]} /\ file.snap[a] \in {None, orig[a]}
      BY <3>3 DEF Inductive, SnapsOriginal
    <3> QED BY <3>1, <3>2, <3>3, <3>4, SelfHealInductive DEF Inductive
  <2>3. CASE NewCall /\ ~EmergencyRestore
    <3>1. ASSUME NEW c, NEW call, NEW S, ScanAdapters(c, call, S) PROVE Core'
      BY <2>1, <3>1, SameCore DEF ScanAdapters, Steady
    <3> QED BY <1>4, <2>1, <2>3, <3>1, RestoreInductive, RestoreSingleInductive DEF NewCall
  <2>4. CASE Takeovers
    BY <1>4, <2>1, <2>4, TakeoverInductive, TakeoverSingleInductive DEF Takeovers
  <2>5. CASE Step
    BY <1>1, <2>1, <2>5, SaveBeforeTakeoverInductive, ApplyInductive, RestoreAdapterInductive, SweepInductive,
       ClearInductive, ResidualInductive, ResaveInductive DEF Step, StepOf
  <2>6. CASE Crash
    BY <1>1, <2>6, CrashInductive DEF Inductive
  <2>7. CASE UNCHANGED vars
    BY <2>1, <2>7, SameCore DEF vars, Steady
  <2> QED BY <1>4, <2>2, <2>3, <2>4, <2>5, <2>6, <2>7 DEF Next
<1> QED BY <1>2, <1>3, <1>4

LEMMA InductiveAlways == Spec => []Inductive
<1>1. Init => Inductive
  BY InitInductive
<1>2. Inductive /\ [Next]_vars => Inductive'
  BY NextInductive
<1> QED BY <1>1, <1>2, PTL DEF Spec

(* Whatever is called, crashes, fails or is rolled back, and however late  *)
(* the scan of a takeover is used, dns_state.json holds the original       *)
(* configuration of every safe adapter that has lost it, so the next start *)
(* of the service (CheckAndSelfHeal) can put it back.                      *)
THEOREM TakeoverSafe == Spec => []Recoverable
<1>1. Inductive => Recoverable
  BY DEF Inductive
<1> QED BY <1>1, InductiveAlways, PTL

(* What the manager remembers is true, on every path of its operations:    *)
(* each snapshot of a safe adapter is of it as it was before DITING, and   *)
(* m.active always says whether there are any snapshots, which is what     *)
(* Stop and StopDNS go by.                                                 *)
THEOREM MemoryStaysTrue == Spec => []MemoryIsTrue
<1>1. Inductive => MemoryIsTrue
  BY DEF Inductive, SnapsOriginal, SnapshotsAreOriginal, Memory, MemoryIsTrue
<1> QED BY <1>1, InductiveAlways, PTL

(* No step changes the file and an adapter together, nor an adapter and    *)
(* what is safe.                                                           *)
LEMMA FileOrAdapters ==
  ASSUME [Next]_vars
  PROVE  orig' = orig /\ ((file' = file /\ spoilt' = spoilt) \/ sys' = sys)
<1>1. CASE NewCall
  BY <1>1 DEF NewCall, ScanAdapters, Restore, RestoreSingle, EmergencyRestore
<1>2. CASE Takeovers
  BY <1>2 DEF Takeovers, Takeover, TakeoverSingle
<1>3. CASE Step
  BY <1>3 DEF Step, StepOf, SaveBeforeTakeover, Apply, RestoreAdapter, Sweep, Resave, ClearFile, ResetResidualLoopbackDNS
<1>4. CASE Start \/ Crash \/ UNCHANGED vars
  BY <1>4 DEF Start, Crash, vars
<1> QED BY <1>1, <1>2, <1>3, <1>4 DEF Next

(* Clear and the Saves at the end of a rollback or a restore give up the   *)
(* record of a safe adapter only when it has its configuration back.       *)
THEOREM ForgettingIsSafe == Spec => ForgetOnlyRestored
<1>1. ASSUME Inductive, Inductive', [Next]_vars, NEW a \in Safe',
             a \in Healable(file), a \notin Healable(file)'
      PROVE  sys[a] = orig[a]
  BY <1>1, FileOrAdapters DEF Inductive, Recoverable, Healable
<1>2. Inductive /\ Inductive' /\ [Next]_vars =>
        [\A a \in Safe' : a \in Healable(file) /\ a \notin Healable(file)' => sys[a] = orig[a]]_vars
  BY <1>1
<1> QED BY <1>2, InductiveAlways, PTL DEF Spec, ForgetOnlyRestored

(* A stack of a safe adapter is written with the loopback, with DHCP, or   *)
(* with what it was.                                                       *)
LEMMA AdapterValues ==
  ASSUME Inductive, [Next]_vars, NEW a \in Safe, NEW s \in Stacks
  PROVE  sys'[a][s] \in {sys[a][s], orig[a][s], Loop, DHCP}
<1>0. sys \in [Adapters -> Configs] /\ a \in Adapters /\ sys[a] \in [Stacks -> Statics \cup {DHCP, Loop}]
  BY DEF Inductive, TypeOK, Configs, Safe
<1>1. ASSUME NEW b \in Adapters, Apply(b) PROVE sys'[a][s] \in {sys[a][s], orig[a][s], Loop, DHCP}
  <2>1. \/ sys' = [sys EXCEPT ![b] = AllLoop]
        \/ \E W \in SUBSET Stacks : sys' = [sys EXCEPT ![b] = Written(sys[b], AllLoop, W)]
    BY <1>1 DEF Apply
  <2> QED BY <1>0, <2>1 DEF Written, AllLoop
<1>2. ASSUME NEW p \in Procs, NEW b \in Adapters, RestoreAdapter(p, b)
      PROVE  sys'[a][s] \in {sys[a][s], orig[a][s], Loop, DHCP}
  <2> DEFINE t == CleanAdapterState(job[p].snap[b])
  <2>1. b \in Safe => t = orig[b]
    <3>1. b \in job[p].todo /\ job[p].todo \subseteq Listed(job[p].snap)
      BY <1>2 DEF RestoreAdapter, Inductive, Roles, JobOK
    <3>2. b \in Safe => job[p].snap[b] = orig[b] /\ orig[b] \in Clean
      BY <3>1 DEF Inductive, SnapsOriginal, Listed, TypeOK
    <3> QED BY <3>2, CleanOfClean
  <2>2. \/ sys' = [sys EXCEPT ![b] = t]
        \/ \E W \in SUBSET Stacks : sys' = [sys EXCEPT ![b] = Written(sys[b], t, W)]
    BY <1>2 DEF RestoreAdapter
  <2> HIDE DEF t
  <2> QED BY <1>0, <2>1, <2>2 DEF Written
<1>3. ASSUME NEW S, ResetToDHCP(S) PROVE sys'[a][s] \in {sys[a][s], orig[a][s], Loop, DHCP}
  BY <1>0, <1>3 DEF ResetToDHCP, Written, AllDHCP
<1>4. CASE Step
  <2>1. CASE SaveBeforeTakeover \/ Resave \/ \E p \in Procs : ClearFile(p)
    BY <2>1 DEF SaveBeforeTakeover, Resave, ClearFile, Clear
  <2>2. CASE \E p \in Procs : Sweep(p) \/ ResetResidualLoopbackDNS(p)
    BY <1>3, <2>2 DEF Sweep, ResetResidualLoopbackDNS
  <2> QED BY <1>1, <1>2, <1>4, <2>1, <2>2 DEF Step, StepOf
<1>5. CASE NewCall \/ Takeovers \/ Start \/ Crash \/ UNCHANGED vars
  BY <1>5 DEF NewCall, ScanAdapters, Takeovers, Takeover, TakeoverSingle, Restore, RestoreSingle, EmergencyRestore,
     Start, Crash, vars
<1> QED BY <1>4, <1>5 DEF Next

(* The manager implements the contract: every step that touches a safe     *)
(* adapter is a Reconfigure of a recorded one, every step that touches the *)
(* file a Rewrite that keeps the record of what is off.                    *)
THEOREM ManagerImplementsContract == Spec => ImplementsContract
<1> DEFINE record == {a \in Healable(file) : file.snap[a] = orig[a]}
<1>1. Init => Contract!Init
  BY DEF Init, Contract!Init, Healable, NoFile, Clean, Contract!Clean
<1>2. ASSUME Inductive, Inductive', [Next]_vars PROVE [Contract!Next]_Contract!vars
  <2>1. orig' = orig /\ sys' \in [Adapters -> Configs] /\ spoilt' \in SUBSET Adapters
    BY <1>2, FileOrAdapters DEF Inductive, TypeOK
  <2>2. Off \subseteq record /\ (Off \subseteq record)' /\ (Off = Contract!Off)'
    BY <1>2 DEF Inductive, Recoverable, Off, Away, Safe, Contract!Off
  <2>3. CASE sys' = sys
    <3>1. record' \in SUBSET Adapters
      BY DEF Healable, Listed
    <3>2. Contract!Rewrite
      BY <2>1, <2>2, <2>3, <3>1 DEF Contract!Rewrite
    <3> QED BY <3>2 DEF Contract!Next
  <2>4. CASE file' = file /\ spoilt' = spoilt
    <3>1. record' = record
      BY <2>1, <2>4 DEF Healable
    <3>2. \A a \in Adapters \ spoilt : sys'[a] # sys[a] => a \in record
      <4> SUFFICES ASSUME NEW a \in Adapters \ spoilt, sys'[a] # sys[a] PROVE a \in Off \/ a \in Off'
        BY <2>2, <3>1
      <4> QED BY <2>1, <2>4 DEF Off, Away
    <3>3. \A a \in Adapters \ spoilt : \A s \in Stacks : sys'[a][s] \in {sys[a][s], orig[a][s], Loop, DHCP}
      BY <1>2, AdapterValues DEF Safe
    <3>4. Contract!Reconfigure
      BY <2>1, <2>4, <3>1, <3>2, <3>3 DEF Contract!Reconfigure, Configs, Contract!Configs
    <3> QED BY <3>4 DEF Contract!Next
  <2> QED BY <1>2, <2>3, <2>4, FileOrAdapters
<1> QED BY <1>1, <1>2, InductiveAlways, PTL DEF Spec, ImplementsContract, Contract!Spec
=============================================================================
