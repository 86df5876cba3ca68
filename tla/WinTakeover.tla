----------------------------- MODULE WinTakeover -----------------------------
(***************************************************************************)
(* The Windows DNS takeover manager (platform/windows/takeover.go) with    *)
(* the state file, the adapters it changes, crash and restart with the     *)
(* self-heal of platform/state.go, and the emergency restore of            *)
(* cmd/service/controller_emergency.go.                                    *)
(*                                                                         *)
(* A manager operation holds m.mu from its first step to its last, so at   *)
(* most one runs ("mgr"); the self-heal does not take m.mu ("heal").  Each *)
(* step of a job is one call that touches the file or one adapter, and the *)
(* service may crash between any two of them.  The controller scans the    *)
(* adapters before it calls the manager and outside m.mu, so what a        *)
(* takeover is given may be stale.                                         *)
(***************************************************************************)
EXTENDS StateStore

CONSTANTS
  NameOf,      \* display name of an adapter; not unique
  Callers      \* goroutines of the controller that may ask for a takeover

CallKinds  == {"Takeover", "TakeoverSingle", "Restore", "RestoreSingle", "Emergency"}

VARIABLES
  orig,    \* the configuration each adapter had before DITING touched it
  sys,     \* the configuration each adapter has
  up,      \* the service process is running
  active,  \* m.active
  mem,     \* m.adapters
  job,     \* the two operations in progress
  scan,    \* what each caller has scanned for the takeover it will ask for
  spoilt   \* history: adapters whose way back the code has given away

vars == <<orig, sys, file, up, active, mem, job, scan, spoilt, budget>>

Procs == {"mgr", "heal"}
Idle  == [call |-> "none", pc |-> "idle", todo |-> {}, bad |-> {},
          snap |-> Empty, old |-> Empty, was |-> FALSE]

(* A job: the call, where it is, the adapters still to do, the adapters    *)
(* whose restore failed, the snapshot it works from, and the values of     *)
(* m.adapters and m.active when it began.                                  *)
Jobs == [call : CallKinds \cup {"none", "Heal"},
         pc   : {"idle", "save", "apply", "restore", "sweep", "resave", "clear", "residual"},
         todo : SUBSET Adapters, bad : SUBSET Adapters,
         snap : Snapshots, old : Snapshots, was : BOOLEAN]

Begin(p, c, pc, S, l) ==
  job' = [job EXCEPT ![p] = [call |-> c, pc |-> pc, todo |-> S, bad |-> {},
                             snap |-> l, old |-> mem, was |-> active]]

Goto(p, pc) == job' = [job EXCEPT ![p].pc = pc]
Return(p)   == job' = [job EXCEPT ![p] = Idle]

NoScan == [call |-> "none", snap |-> Empty]
Scans  == [call : {"none", "Takeover", "TakeoverSingle"}, snap : Snapshots]

-----------------------------------------------------------------------------
(* What the code does not guard against, by cause.  An operation of the    *)
(* manager works from a list l, and what it leaves in the file is of l.    *)

Away == {a \in Adapters : sys[a] # orig[a]}

(* Adapters that are off their configuration and not in l: a rollback or a *)
(* restore has failed and nothing but the file remembers them.             *)
Missed(l) == {a \in Away : l[a] = None}

(* Adapters whose entry in l is not what the user had configured: they     *)
(* were taken over, or pulled to DHCP, when they were scanned.             *)
Mistaken(l) == {a \in Adapters : l[a] \notin {None, orig[a]}}

(* The manager begins an operation that works from l; an emergency restore *)
(* may be under way, which does not take m.mu and clears the file.         *)
Spoils(l) ==
  spoilt' = IF job["heal"].pc # "idle" THEN Adapters
            ELSE spoilt \cup Missed(l) \cup Mistaken(l)

(* A Save has removed the file and not put the new one in its place.       *)
SaveSpoils ==
  spoilt' = IF file.present /\ ~file'.present THEN spoilt \cup Away ELSE spoilt

-----------------------------------------------------------------------------
(* The calls of the controller.  The self-heal of a start comes before     *)
(* them.                                                                   *)
Serving == up /\ job["heal"].call # "Heal"

(* m.mu is free.                                                           *)
CallAllowed == Serving /\ job["mgr"].pc = "idle"

(* EnableTakeover, SetAdapterTakeover(enable): the scan of the active      *)
(* adapters S, or of the one adapter asked for.                            *)
ScanAdapters(c, call, S) ==
  /\ Serving /\ scan[c] = NoScan
  /\ S # {} /\ (call = "TakeoverSingle" => \E a \in Adapters : S = {a})
  /\ scan' = [scan EXCEPT ![c] =
                [call |-> call, snap |-> Only([a \in Adapters |-> CleanAdapterState(sys[a])], S)]]
  /\ UNCHANGED <<orig, sys, file, up, active, mem, job, spoilt, budget>>

(* Takeover up to its Save.                                                *)
Takeover(c) ==
  LET l == scan[c].snap IN
  /\ CallAllowed /\ scan[c].call = "Takeover"
  /\ Begin("mgr", "Takeover", "save", Listed(l), l)
  /\ scan' = [scan EXCEPT ![c] = NoScan] /\ Spoils(l)
  /\ UNCHANGED <<orig, sys, file, up, active, mem, budget>>

(* TakeoverSingle: m.adapters changes before the file does.                *)
TakeoverSingle(c) ==
  LET l == [a \in Adapters |-> IF scan[c].snap[a] # None THEN scan[c].snap[a] ELSE mem[a]] IN
  /\ CallAllowed /\ scan[c].call = "TakeoverSingle"
  /\ mem' = l
  /\ Begin("mgr", "TakeoverSingle", "save", Listed(scan[c].snap), l)
  /\ scan' = [scan EXCEPT ![c] = NoScan] /\ Spoils(l)
  /\ UNCHANGED <<orig, sys, file, up, active, budget>>

(* Restore works from m.adapters or, when that is empty, from the file; a  *)
(* file that cannot be read is taken for none.                             *)
Restore ==
  /\ CallAllowed
  /\ \E states \in {mem, file.snap} :
       /\ \/ Ok /\ states = IF mem = Empty /\ file.present THEN file.snap ELSE mem
          \/ mem = Empty /\ file.present /\ Fault("load") /\ states = mem
       /\ Begin("mgr", "Restore", IF Listed(states) = {} THEN "clear" ELSE "restore",
                Listed(states), states)
       /\ Spoils(states)
  /\ UNCHANGED <<orig, sys, file, up, active, mem, scan>>

(* RestoreSingle(adapterID): match by ID, else by display name.            *)
(* Mutant: the name is taken for an ID.                                    *)
MutNoLookup(id) == {id}

Targets(id) == IF id \in Listed(mem) THEN {id}
               ELSE {a \in Listed(mem) : NameOf[a] = id}

RestoreSingle(id) ==
  /\ CallAllowed /\ Targets(id) # {}
  /\ Begin("mgr", "RestoreSingle", "restore", Targets(id), Only(mem, Targets(id)))
  /\ Spoils(mem)
  /\ UNCHANGED <<orig, sys, file, up, active, mem, scan, budget>>

-----------------------------------------------------------------------------
(* Steps of the manager's jobs.                                            *)

SaveBeforeTakeover ==
  LET j == job["mgr"] IN
  /\ j.pc = "save"
  /\ \/ /\ Ok
        /\ file' = StateFile(TRUE, j.snap)
        /\ Goto("mgr", "apply")
        /\ UNCHANGED mem
     \/ /\ \/ Fault("save") /\ file' = file
           \/ Fault("rename") /\ file' = NoFile
        /\ Return("mgr")
        /\ mem' = j.old
  /\ SaveSpoils
  /\ UNCHANGED <<orig, sys, up, active, scan>>

(* applyTakeoverOnAdapter: both stacks, or an error that may leave some of *)
(* them written.  After the last adapter the operation is complete.        *)
Apply(a) ==
  LET j == job["mgr"] IN
  /\ j.pc = "apply" /\ a \in j.todo
  /\ \/ /\ Ok
        /\ sys' = [sys EXCEPT ![a] = AllLoop]
        /\ IF j.todo = {a}
             THEN Return("mgr") /\ active' = TRUE /\ mem' = j.snap
             ELSE job' = [job EXCEPT !["mgr"].todo = @ \ {a}] /\ UNCHANGED <<active, mem>>
     \/ /\ Fault("apply")
        /\ \E W \in SUBSET Stacks \ {Stacks} :
             sys' = [sys EXCEPT ![a] = Written(@, AllLoop, W)]
        /\ job' = [job EXCEPT !["mgr"].pc = "restore",
                              !["mgr"].todo = IF j.call = "Takeover" THEN Listed(j.snap) ELSE {a}]
        /\ UNCHANGED <<active, mem>>
  /\ UNCHANGED <<orig, file, up, scan, spoilt>>

(* Mutant: a target is forgotten whether its restore worked or not.        *)
MutForgetFailed(j) == [a \in Adapters |-> IF j.snap[a] # None THEN None ELSE mem[a]]

(* RestoreSingle's m.adapters afterwards: a target stays if it failed.     *)
Remaining(j) == [a \in Adapters |-> IF j.snap[a] # None /\ a \notin j.bad THEN None ELSE mem[a]]

(* Mutants: the file is cleared although a restore failed; the last target *)
(* restored does not end the takeover.                                     *)
MutClearAnyway(j, bad) ==
  IF j.call \in {"Takeover", "Restore", "Heal", "Emergency"} THEN "clear" ELSE "resave"
MutStayActive(j, bad) ==
  IF bad = {} /\ (j.call = "TakeoverSingle" => j.old = Empty) /\ j.call # "RestoreSingle"
    THEN "clear"
    ELSE IF j.call \in {"TakeoverSingle", "RestoreSingle"} THEN "resave" ELSE "sweep"

(* Where a job goes once every adapter has been tried.  RestoreAdapters    *)
(* sweeps the failed ones; the single-adapter paths call                   *)
(* restoreSingleAdapter directly and do not.                               *)
AfterRestore(j, bad) ==
  CASE j.call \in {"Takeover", "Restore", "Heal", "Emergency"} ->
         IF bad = {} THEN "clear" ELSE "sweep"
    [] j.call = "TakeoverSingle" ->
         IF bad = {} /\ j.old = Empty THEN "clear" ELSE "resave"
    [] j.call = "RestoreSingle" ->
         IF Remaining([j EXCEPT !.bad = bad]) = Empty THEN "clear" ELSE "resave"

(* restoreSingleAdapter: the snapshot is cleaned again and written.        *)
RestoreAdapter(p, a) ==
  LET j == job[p]
      target == CleanAdapterState(j.snap[a])
      then(bad) == job' = [job EXCEPT
                     ![p].todo = @ \ {a}, ![p].bad = bad,
                     ![p].pc = IF j.todo = {a} THEN AfterRestore(j, bad) ELSE @]
  IN
  /\ j.pc = "restore" /\ a \in j.todo
  /\ \/ /\ Ok
        /\ sys' = [sys EXCEPT ![a] = target]
        /\ then(j.bad)
     \/ /\ Fault("restore")
        /\ \E W \in SUBSET Stacks \ {Stacks} :
             sys' = [sys EXCEPT ![a] = Written(@, target, W)]
        /\ then(j.bad \cup {a})
  /\ UNCHANGED <<orig, file, up, active, mem, scan, spoilt>>

(* Pulling adapters back to DHCP on the stacks W[a] says; all of them      *)
(* unless netsh or the scan fails.                                         *)
ResetToDHCP(S) ==
  \/ /\ Ok
     /\ sys' = [a \in Adapters |-> IF a \in S THEN AllDHCP ELSE sys[a]]
  \/ /\ Fault("netsh")
     /\ \E W \in [S -> SUBSET Stacks] :
          sys' = [a \in Adapters |-> IF a \in S THEN Written(sys[a], AllDHCP, W[a]) ELSE sys[a]]

(* forceResetLoopbackAdaptersToDHCP on the failed adapters still on the    *)
(* loopback, and what each caller of RestoreAdapters does with the error.  *)
Sweep(p) ==
  LET j == job[p] IN
  /\ j.pc = "sweep"
  /\ ResetToDHCP({a \in j.bad : HasResidualLoopback(sys[a])})
  /\ CASE j.call = "Restore"             -> Goto(p, "resave")
       [] j.call = "Emergency"           -> Goto(p, "residual")
       [] j.call \in {"Takeover", "Heal"} -> Return(p)
  /\ UNCHANGED <<orig, file, up, active, mem, scan, spoilt>>

(* The bookkeeping of an operation that still has adapters to remember.    *)
(* The result of Save is ignored in each.                                  *)

(* TakeoverSingle rolled back: the adapters from before it, and its own if *)
(* the rollback failed.                                                    *)
KeepOld(j) ==
  /\ mem' = j.old /\ active' = j.was
  /\ Save(IF j.bad = {} THEN StateFile(j.was, j.old)
          ELSE StateFile(TRUE, [a \in Adapters |->
                 IF a \in j.bad THEN j.snap[a] ELSE j.old[a]]))

(* Restore failed: everything it tried.                                    *)
KeepAll(j) ==
  /\ mem' = j.snap /\ active' = TRUE
  /\ Save(StateFile(TRUE, j.snap))

(* RestoreSingle: what is left.                                            *)
KeepRemaining(j) ==
  /\ mem' = Remaining(j) /\ active' = active
  /\ Save(StateFile(TRUE, Remaining(j)))

Resave ==
  LET j == job["mgr"] IN
  /\ j.pc = "resave"
  /\ CASE j.call = "TakeoverSingle" -> KeepOld(j)
       [] j.call = "Restore"        -> KeepAll(j)
       [] j.call = "RestoreSingle"  -> KeepRemaining(j)
  /\ Return("mgr")
  /\ SaveSpoils
  /\ UNCHANGED <<orig, sys, up, scan>>

(* FileStateStore.Clear and the memory of the call that clears.            *)
ClearFile(p) ==
  LET j == job[p] IN
  /\ j.pc = "clear"
  /\ Clear
  /\ mem' = CASE j.call \in {"Restore", "RestoreSingle"} -> Empty
              [] j.call = "TakeoverSingle" -> j.old
              [] OTHER -> mem
  /\ active' = CASE j.call \in {"Restore", "RestoreSingle"} -> FALSE
                 [] j.call = "TakeoverSingle" -> j.was
                 [] OTHER -> active
  /\ IF j.call \in {"Restore", "Emergency"} THEN Goto(p, "residual") ELSE Return(p)
  /\ UNCHANGED <<orig, sys, up, scan, spoilt>>

(* ResetResidualLoopbackDNS over every adapter of the machine.             *)
ResetResidualLoopbackDNS(p) ==
  /\ job[p].pc = "residual"
  /\ ResetToDHCP({a \in Adapters : HasResidualLoopback(sys[a])})
  /\ Return(p)
  /\ UNCHANGED <<orig, file, up, active, mem, scan, spoilt>>

-----------------------------------------------------------------------------
(* Mutant: the file is cleared without a restore.                          *)
MutForgetAtStart(c, else) ==
  IF Healable(file) = {} /\ else = "idle"
    THEN UNCHANGED job ELSE Begin("heal", c, "clear", {}, Empty)

(* CheckAndSelfHeal: at a start of the service, and from the emergency     *)
(* restore, which goes on to the residual reset whatever it found.         *)
SelfHeal(c, else) ==
  IF Healable(file) = {}
    THEN IF else = "idle" THEN UNCHANGED job ELSE Begin("heal", c, else, {}, Empty)
    ELSE Begin("heal", c, "restore", Healable(file), file.snap)

(* It gives up when the file cannot be read.                               *)
Unread(c, else) ==
  /\ file.present /\ Fault("load")
  /\ IF else = "idle" THEN UNCHANGED job ELSE Begin("heal", c, else, {}, Empty)

(* An adapter that has its configuration, with no other in the file, has   *)
(* nothing left of what had happened to it.                                *)
Start ==
  /\ ~up /\ up' = TRUE
  /\ \/ Ok /\ SelfHeal("Heal", "idle")
     \/ Unread("Heal", "idle")
  /\ spoilt' = {a \in spoilt : a \in Away \/ file.snap[a] \notin {None, orig[a]}}
  /\ UNCHANGED <<orig, sys, file, active, mem, scan>>

EmergencyRestore ==
  /\ up /\ job["heal"].pc = "idle"
  /\ \/ Ok /\ SelfHeal("Emergency", "residual")
     \/ Unread("Emergency", "residual")
  /\ spoilt' = IF job["mgr"].pc # "idle" THEN Adapters ELSE spoilt
  /\ UNCHANGED <<orig, sys, file, up, active, mem, scan>>

(* The process dies.  Within Save it may die between os.Remove and         *)
(* os.Rename, which the fault "rename" stands for.                         *)
Crash ==
  /\ up /\ up' = FALSE
  /\ Fault("crash")
  /\ \/ file' = file
     \/ "rename" \in Faults /\ job["mgr"].pc \in {"save", "resave"} /\ file' = NoFile
  /\ active' = FALSE /\ mem' = Empty
  /\ job' = [p \in Procs |-> Idle] /\ scan' = [c \in Callers |-> NoScan]
  /\ SaveSpoils
  /\ UNCHANGED <<orig, sys>>

-----------------------------------------------------------------------------
Init ==
  /\ orig \in [Adapters -> Clean]
  /\ sys = orig
  /\ file = NoFile
  /\ up = FALSE
  /\ active = FALSE /\ mem = Empty
  /\ job = [p \in Procs |-> Idle] /\ scan = [c \in Callers |-> NoScan]
  /\ spoilt = {} /\ budget = MaxFaults

NewCall ==
  \/ \E c \in Callers, call \in {"Takeover", "TakeoverSingle"}, S \in SUBSET Adapters :
       ScanAdapters(c, call, S)
  \/ Restore
  \/ \E id \in Adapters \cup {NameOf[a] : a \in Adapters} : RestoreSingle(id)
  \/ EmergencyRestore

Takeovers == \E c \in Callers : Takeover(c) \/ TakeoverSingle(c)

StepOf(p) ==
  \/ p = "mgr" /\ (SaveBeforeTakeover \/ Resave \/ \E a \in Adapters : Apply(a))
  \/ \E a \in Adapters : RestoreAdapter(p, a)
  \/ Sweep(p) \/ ClearFile(p) \/ ResetResidualLoopbackDNS(p)

Step == \E p \in Procs : StepOf(p)

Next == NewCall \/ Takeovers \/ Step \/ Start \/ Crash

Spec == Init /\ [][Next]_vars

(* A job that has begun goes on, and a stopped service is started again by *)
(* the Windows service manager.                                            *)
FairSpec == Spec /\ (\A p \in Procs : WF_vars(StepOf(p))) /\ WF_vars(Start)

-----------------------------------------------------------------------------
TypeOK ==
  /\ orig \in [Adapters -> Clean] /\ sys \in [Adapters -> Configs]
  /\ file \in StateFiles /\ up \in BOOLEAN
  /\ active \in BOOLEAN /\ mem \in Snapshots
  /\ job \in [Procs -> Jobs] /\ budget \in 0..MaxFaults
  /\ scan \in [Callers -> Scans] /\ spoilt \subseteq Adapters

(* The adapters nothing of that has happened to.                           *)
Safe == Adapters \ spoilt

(* An adapter that is off its original configuration can be put back by    *)
(* the next start of the service whatever happens before it: the state     *)
(* file is there, is active and holds the adapter's original snapshot.     *)
(* This is what takeover.go calls the only basis of the self-heal.  It     *)
(* holds over all calls and faults until one of the four things happens to *)
(* the adapter that the code does not guard against: an operation begins   *)
(* that does not know it is off (Missed), a takeover scanned it while it   *)
(* was (Mistaken), a Save stopped between its remove and its rename        *)
(* (SaveSpoils), or an emergency restore overlapped an operation.          *)
Recoverable ==
  \A a \in Safe : sys[a] # orig[a] =>
    a \in Healable(file) /\ file.snap[a] = orig[a]

(* No snapshot, in memory or in the file, is of anything but the           *)
(* configuration the adapter had before the takeover.                      *)
SnapshotsAreOriginal ==
  \A a \in Safe : {mem[a], file.snap[a]} \subseteq {None, orig[a]}

(* When no operation runs, the manager says "active" exactly when it holds *)
(* snapshots, so Stop and StopDNS, which restore only when it does, never  *)
(* skip an adapter the manager has taken over.                             *)
ActiveIffTaken ==
  job["mgr"].pc = "idle" => (active <=> mem # Empty)

(* What the manager remembers is true: of the configurations of the safe   *)
(* adapters, and always of whether there is anything to restore.           *)
MemoryIsTrue == SnapshotsAreOriginal /\ ActiveIffTaken

(* The record of a safe adapter leaves the file only while the adapter has *)
(* its original configuration (Clear, and Save after a rollback or a       *)
(* restore).                                                               *)
ForgetOnlyRestored ==
  [][\A a \in Safe' : a \in Healable(file) /\ a \notin Healable(file)' => sys[a] = orig[a]]_vars

(* Once nothing fails any more, a start of the service puts every safe     *)
(* adapter back, whatever state the crash left the file and the adapters   *)
(* in.                                                                     *)
CrashIsHealed ==
  (~up /\ budget = 0) ~> \A a \in Safe : sys[a] = orig[a]

(* Every operation returns, so m.mu is never held for ever.                *)
JobsFinish ==
  \A p \in Procs : job[p].pc # "idle" ~> job[p].pc = "idle"

(* The way back always comes to an end: a start heals what a crash left,   *)
(* and no operation keeps the next one waiting.                            *)
Progress == CrashIsHealed /\ JobsFinish

(* The inductive invariant behind Recoverable, for the safe adapters.      *)
Off == Away \ spoilt

SnapsOriginal ==
  \A a \in Safe :
    /\ mem[a] \in {None, orig[a]} /\ file.snap[a] \in {None, orig[a]}
    /\ \A p \in Procs : job[p].snap[a] \in {None, orig[a]} /\ job[p].old[a] \in {None, orig[a]}

(* Which calls each process makes, and where it can be in them; this much  *)
(* holds for every caller and every fault.                                 *)
ManagerCalls == {"Takeover", "TakeoverSingle", "Restore", "RestoreSingle"}

JobOK(p, j) ==
  /\ p = "mgr" => j.call \in ManagerCalls \cup {"none"}
  /\ p = "heal" => j.call \in {"none", "Heal", "Emergency"}
  /\ j.call = "none" <=> j.pc = "idle"
  /\ j.pc = "idle" => j.snap = Empty /\ j.old = Empty
  /\ j.pc \in {"save", "apply", "restore"} => j.todo \subseteq Listed(j.snap)
  /\ j.pc \in {"save", "apply"} => j.call \in {"Takeover", "TakeoverSingle"}
  /\ j.pc = "sweep" => j.call \in {"Takeover", "Restore", "Heal", "Emergency"}
  /\ j.pc = "resave" => j.call \in {"TakeoverSingle", "Restore", "RestoreSingle"}
  /\ j.pc = "residual" => j.call \in {"Restore", "Emergency"}
  /\ j.pc \in {"save", "apply", "restore", "sweep", "resave"} => j.snap # Empty

Roles ==
  /\ \A p \in Procs : JobOK(p, job[p])
  /\ ~up => active = FALSE /\ mem = Empty /\ \A p \in Procs : job[p].pc = "idle"

Scanned ==
  \A c \in Callers :
    /\ scan[c].call # "none" => scan[c].snap # Empty
    /\ scan[c].call = "TakeoverSingle" => \E a \in Adapters : Listed(scan[c].snap) = {a}

OneAtATime == job["mgr"].pc = "idle" \/ job["heal"].pc = "idle"

(* What a manager operation that has begun knows of m.adapters, m.active.  *)
Memory ==
  LET j == job["mgr"] IN
  /\ ActiveIffTaken
  /\ j.pc # "idle" => (j.was <=> j.old # Empty)
  /\ j.call \in {"Takeover", "RestoreSingle"} => mem = j.old /\ active = j.was
  /\ j.call = "Restore" /\ j.pc # "residual" => mem = j.old /\ active = j.was
  /\ j.call = "Restore" /\ j.pc = "residual" => mem = Empty /\ active = FALSE
  /\ j.call = "TakeoverSingle" => mem = j.snap /\ active = j.was
  /\ j.call = "RestoreSingle" /\ j.pc = "resave" => Remaining(j) # Empty

(* The adapters a job may leave off their configuration are the ones it    *)
(* still has to restore, or will write into the file when it ends.         *)
BulkCover(j) ==
  /\ j.pc = "restore" => Off \subseteq j.todo \cup j.bad /\ j.todo # {}
  /\ j.pc \in {"sweep", "resave"} => Off \subseteq j.bad /\ j.bad # {}
  /\ j.pc = "clear" => Off = {}
  /\ j.pc \in {"restore", "sweep", "resave"} => j.todo \cup j.bad \subseteq Listed(j.snap)

TakeoverCover(j) ==
  /\ j.pc \in {"save", "apply", "restore", "sweep", "clear"}
  /\ j.pc = "save" => Off \subseteq Listed(j.snap)
  /\ j.pc \in {"save", "apply"} => j.todo # {} /\ j.todo \subseteq Listed(j.snap) /\ j.bad = {}
  /\ j.pc = "apply" => file = StateFile(TRUE, j.snap)
  /\ BulkCover(j)

RestoreCover(j) ==
  /\ j.pc \in {"restore", "sweep", "resave", "clear", "residual"}
  /\ j.pc = "residual" => Off = {}
  /\ BulkCover(j)

HealCover(j) ==
  /\ j.pc \in {"restore", "sweep", "clear", "residual"}
  /\ BulkCover(j)

SingleCover(j) ==
  /\ j.pc \in {"save", "apply", "restore", "resave", "clear"}
  /\ j.pc \in {"save", "apply", "restore"} =>
       /\ j.bad = {}
       /\ Off \subseteq Listed(j.snap)
       /\ \E a \in Adapters : j.todo = {a} /\ \A b \in Adapters \ {a} : j.snap[b] = j.old[b]
  /\ j.pc = "apply" => file = StateFile(TRUE, j.snap)
  /\ j.pc = "resave" => Off \subseteq Listed(j.old) \cup j.bad /\ j.bad \subseteq Listed(j.snap)
  /\ j.pc = "resave" /\ j.bad = {} => j.old # Empty
  /\ j.pc = "clear" => Off = {} /\ j.old = Empty

RestoreSingleCover(j) ==
  /\ j.pc \in {"restore", "resave", "clear"}
  /\ Off \subseteq Listed(mem)
  /\ \A a \in Adapters : j.snap[a] # None => j.snap[a] = mem[a]
  /\ Off \cap Listed(j.snap) \subseteq j.todo \cup j.bad
  /\ j.todo \cup j.bad \subseteq Listed(j.snap)
  /\ j.pc = "restore" <=> j.todo # {}
  /\ j.pc = "clear" => Remaining(j) = Empty

Cover ==
  /\ job["mgr"].call = "Takeover" => TakeoverCover(job["mgr"])
  /\ job["mgr"].call = "TakeoverSingle" => SingleCover(job["mgr"])
  /\ job["mgr"].call = "Restore" => RestoreCover(job["mgr"])
  /\ job["mgr"].call = "RestoreSingle" => RestoreSingleCover(job["mgr"])
  /\ job["heal"].call # "none" => HealCover(job["heal"])

Inductive ==
  /\ TypeOK /\ Roles /\ Scanned /\ Memory /\ SnapsOriginal /\ Recoverable
  /\ spoilt # Adapters => OneAtATime /\ Cover

(* The manager implements the contract, the record being what a start of   *)
(* the service would restore correctly from dns_state.json.                *)
Contract == INSTANCE TakeoverContract WITH
  record <- {a \in Healable(file) : file.snap[a] = orig[a]},
  lost   <- spoilt
ImplementsContract == Contract!Spec
=============================================================================
