---------------------------- MODULE LinuxTakeover ----------------------------
(***************************************************************************)
(* The Linux DNS takeover manager (platform/linux/takeover.go) over its    *)
(* three backends: systemd-resolved, which writes one link at a time,      *)
(* NetworkManager, which writes every active connection whatever adapters  *)
(* were asked for, and /etc/resolv.conf, one file for the whole machine    *)
(* that is restored from a backup and not from the snapshots.              *)
(*                                                                         *)
(* A configuration here is the servers in effect on each stack, as the     *)
(* scanner reads them; DHCP is the empty list, which the backends write by *)
(* giving the stack back to the system.  Jobs are as in WinTakeover: "mgr" *)
(* holds m.mu, "heal" is CheckAndSelfHeal and takes no lock; the scan that *)
(* comes before a takeover is here part of its call.                       *)
(***************************************************************************)
EXTENDS StateStore

CONSTANTS
  Backends,    \* the backends detectBackend may find
  Public       \* the public servers written when there is no backup

CallKinds == {"Takeover", "TakeoverSingle", "Restore", "RestoreSingle", "Emergency"}

LinuxAssumption ==
  /\ DHCP \notin Statics /\ Loop \notin Statics \cup {DHCP}
  /\ None \notin [Stacks -> Statics \cup {DHCP, Loop}]
  /\ Adapters # {} /\ Stacks # {} /\ Faults \subseteq FaultKinds /\ MaxFaults \in Nat
  /\ Backends \subseteq {"resolved", "nm", "resolvconf"} /\ Backends # {}
  /\ Public \in Statics

VARIABLES
  backend,   \* m.backend
  named,     \* connections of NetworkManager are named after interfaces
  orig,      \* the configuration the user gave each interface
  sys,       \* the configuration in effect
  backup,    \* backups/resolv.conf in the data directory, or None
  dorig,     \* /etc/resolv.conf.diting.orig, or None
  script,    \* the snapshots written into restore-dns.sh
  up, active, mem, job,
  stale,     \* history: the last takeover could not write restore-dns.sh
  spoilt     \* history: the code has given a way back away, see the causes

system == <<backend, named, orig>>
history == <<stale, spoilt>>
vars == <<system, sys, file, backup, dorig, script, up, active, mem, job, history, budget>>

Procs == {"mgr", "heal"}
Idle  == [call |-> "none", pc |-> "idle", ask |-> {}, todo |-> {}, done |-> {}, bad |-> FALSE,
          snap |-> Empty, old |-> Empty, was |-> FALSE]
Jobs  == [call : CallKinds \cup {"none", "Heal"},
          pc   : {"idle", "save", "backup", "apply", "undo", "restore", "resave", "clear", "residual"},
          ask  : SUBSET Adapters, todo : SUBSET Adapters, done : SUBSET Adapters, bad : BOOLEAN,
          snap : Snapshots, old : Snapshots, was : BOOLEAN]

-----------------------------------------------------------------------------
(* The backends.  One write of resolv.conf reaches every interface.        *)
Whole   == CHOOSE a \in Adapters : TRUE
Span(a) == IF backend = "resolvconf" THEN Adapters ELSE {a}
Put(a, c) == sys' = [x \in Adapters |-> IF x \in Span(a) THEN c ELSE sys[x]]

(* What Apply and Restore go over when asked for the adapters S.           *)
Units(S) == CASE backend = "resolved"   -> S
              [] backend = "nm"         -> Adapters
              [] backend = "resolvconf" -> {Whole}

(* A call for the adapters S that works from the snapshots l.              *)
Begin(p, c, pc, S, l) ==
  job' = [job EXCEPT ![p] = [call |-> c, pc |-> pc, ask |-> S,
                             todo |-> IF S = {} THEN {} ELSE Units(S), done |-> {}, bad |-> FALSE,
                             snap |-> l, old |-> mem, was |-> active]]
Return(p) == job' = [job EXCEPT ![p] = Idle]

ResolvedRestore(l, a) == IF l[a] # None THEN CleanAdapterState(l[a]) ELSE sys[a]
NmRestore(l, a) == IF l[a] # None /\ named THEN CleanAdapterState(l[a]) ELSE AllDHCP
PublicServers == [s \in Stacks |-> Public]
(* Mutant: a missing backup is not noticed.                                *)
MutNoFallback == backup

ResolvConfRestore == IF backup # None THEN backup ELSE PublicServers

(* What Restore writes on a for the snapshots l.                           *)
RestoreValue(l, a) ==
  CASE backend = "resolved"   -> ResolvedRestore(l, a)
    [] backend = "nm"         -> NmRestore(l, a)
    [] backend = "resolvconf" -> ResolvConfRestore

-----------------------------------------------------------------------------
(* What the code does not guard against, by cause.                         *)

(* A good configuration is the user's own; resolv.conf without a backup    *)
(* falls back to the public servers, which the code accepts as its         *)
(* promise of basic connectivity.                                          *)
Good(a, c) == c = orig[a] \/ (backend = "resolvconf" /\ c = PublicServers)
Off == {a \in Adapters : ~Good(a, sys[a])}

(* What a restore from the snapshots l reaches.                            *)
Reach(l) == IF backend = "resolved" \/ Listed(l) = {} THEN Listed(l) ELSE Adapters

(* It takes over what is taken over: the snapshots are of the loopback,    *)
(* and the backup of resolv.conf is overwritten with it.                   *)
Twice(c, S) ==
  \/ c = "Takeover" /\ mem # Empty
  \/ c = "TakeoverSingle" /\ ((\E a \in S : mem[a] # None) \/ (backend = "resolvconf" /\ mem # Empty))

(* NetworkManager writes every connection, and restores to automatic the   *)
(* ones it finds no snapshot for.                                          *)
Partial(c, S) ==
  /\ backend = "nm"
  /\ \/ c = "Takeover" /\ (S # Adapters \/ ~named)
     \/ c \in {"TakeoverSingle", "RestoreSingle"}

(* Something is off that the snapshots l do not know of: a rollback or a   *)
(* self-heal has failed, or the file could not be read.                    *)
Missed(l) == ~(Off \subseteq Reach(l))

(* The manager begins a call c for the adapters S that works from l; an    *)
(* emergency restore, which takes no lock, may be under way.               *)
Spoils(c, S, l) ==
  /\ spoilt' = (spoilt \/ Twice(c, S) \/ Partial(c, S) \/ Missed(l) \/ job["heal"].pc # "idle")
  /\ UNCHANGED stale

(* A Save has removed the file and not put the new one in its place.       *)
Lost == file.present /\ ~file'.present /\ Off # {}

-----------------------------------------------------------------------------
(* Callers.  A call waits for m.mu; the self-heal of a start comes before. *)
CallAllowed == up /\ job["mgr"].pc = "idle" /\ job["heal"].call # "Heal"

Takeover(S) ==
  /\ CallAllowed /\ S # {}
  /\ Begin("mgr", "Takeover", "save", S,
           Only([a \in Adapters |-> CleanAdapterState(sys[a])], S))
  /\ Spoils("Takeover", S, mem)
  /\ UNCHANGED <<system, sys, file, backup, dorig, script, up, active, mem, budget>>

TakeoverSingle(a) ==
  /\ CallAllowed
  /\ mem' = [mem EXCEPT ![a] = CleanAdapterState(sys[a])]
  /\ Begin("mgr", "TakeoverSingle", "save", {a}, mem')
  /\ Spoils("TakeoverSingle", {a}, mem)
  /\ UNCHANGED <<system, sys, file, backup, dorig, script, up, active, budget>>

(* Restore works from m.adapters or, when that is empty, from the file; a  *)
(* file that cannot be read is taken for none.                             *)
Restore ==
  /\ CallAllowed
  /\ \E states \in {mem, file.snap} :
       /\ \/ Ok /\ states = IF mem = Empty /\ file.present THEN file.snap ELSE mem
          \/ mem = Empty /\ file.present /\ Fault("load") /\ states = mem
       /\ Begin("mgr", "Restore", IF Listed(states) = {} THEN "clear" ELSE "restore",
                Listed(states), states)
       /\ Spoils("Restore", {}, states)
  /\ UNCHANGED <<system, sys, file, backup, dorig, script, up, active, mem>>

RestoreSingle(a) ==
  /\ CallAllowed /\ mem[a] # None
  /\ Begin("mgr", "RestoreSingle", "restore", {a}, Only(mem, {a}))
  /\ Spoils("RestoreSingle", {a}, mem)
  /\ UNCHANGED <<system, sys, file, backup, dorig, script, up, active, mem, budget>>

-----------------------------------------------------------------------------
(* Mutant: the script is written only by the first takeover.               *)
MutScriptOnce(l) == IF script = Empty THEN l ELSE script
GenerateRestoreScript(l) == l

(* The state is saved, and the script written; its error is ignored.       *)
SaveBeforeTakeover ==
  LET j == job["mgr"] IN
  /\ j.pc = "save"
  /\ \/ /\ file' = StateFile(TRUE, j.snap)
        /\ \/ Ok /\ script' = GenerateRestoreScript(j.snap) /\ stale' = FALSE
           \/ Fault("script") /\ script' \in {script, Empty} /\ stale' = TRUE
        /\ job' = [job EXCEPT !["mgr"].pc = IF backend = "resolvconf" THEN "backup" ELSE "apply"]
        /\ UNCHANGED mem
     \/ /\ \/ Fault("save") /\ file' = file
           \/ Fault("rename") /\ file' = NoFile
        /\ Return("mgr") /\ mem' = j.old
        /\ UNCHANGED <<script, stale>>
  /\ spoilt' = (spoilt \/ Lost)
  /\ UNCHANGED <<system, sys, backup, dorig, up, active>>

(* resolvConfBackend.Apply: the two backups come before the write.  When   *)
(* resolv.conf cannot be read an old backup stays, and is not an error.    *)
BackupResolvConf ==
  /\ job["mgr"].pc = "backup"
  /\ \/ Ok /\ backup' = sys[Whole] /\ dorig' = sys[Whole]
        /\ job' = [job EXCEPT !["mgr"].pc = "apply"]
     \/ Fault("read") /\ backup' = backup /\ dorig' = None
        /\ job' = [job EXCEPT !["mgr"].pc = "apply"]
     \/ Fault("backup") /\ backup' \in {backup, sys[Whole]} /\ dorig' = dorig
        /\ job' = [job EXCEPT !["mgr"].pc = "undo"]
  /\ UNCHANGED <<system, sys, file, script, up, active, mem, history>>

(* One link, one connection or the file.  A failure may come after the     *)
(* servers were set (the domain route, the activation, the flush);         *)
(* resolved counts such a link among the applied ones, the others do not.  *)
Apply(a) ==
  LET j == job["mgr"] IN
  /\ j.pc = "apply" /\ a \in j.todo
  /\ \/ /\ Ok /\ Put(a, AllLoop)
        /\ IF j.todo = {a}
             THEN Return("mgr") /\ active' = TRUE /\ mem' = j.snap
             ELSE /\ job' = [job EXCEPT !["mgr"].todo = @ \ {a}, !["mgr"].done = @ \cup {a}]
                  /\ UNCHANGED <<active, mem>>
     \/ /\ Fault("apply")
        /\ \/ UNCHANGED sys /\ job' = [job EXCEPT !["mgr"].pc = "undo"]
           \/ Put(a, AllLoop)
              /\ job' = [job EXCEPT !["mgr"].pc = "undo",
                           !["mgr"].done = IF backend = "resolved" THEN @ \cup {a} ELSE @]
        /\ UNCHANGED <<active, mem>>
  /\ UNCHANGED <<system, file, backup, dorig, script, up, history>>

(* rollbackApplied, revertConnections: back to automatic, errors ignored;  *)
(* then the manager restores what it was asked to take over.               *)
RollbackApplied ==
  LET j == job["mgr"] IN
  /\ j.pc = "undo"
  /\ \/ Ok /\ sys' = [a \in Adapters |-> IF a \in j.done THEN AllDHCP ELSE sys[a]]
     \/ /\ j.done # {} /\ Fault("restore")
        /\ \E S \in SUBSET j.done : sys' = [a \in Adapters |-> IF a \in S THEN AllDHCP ELSE sys[a]]
  /\ job' = [job EXCEPT !["mgr"].pc = "restore", !["mgr"].snap = Only(j.snap, j.ask),
                        !["mgr"].todo = Units(j.ask)]
  /\ UNCHANGED <<system, file, backup, dorig, script, up, active, mem, history>>

(* Where a job goes once everything has been tried.                        *)
AfterRestore(j, bad) ==
  CASE j.call \in {"Takeover", "Heal"} -> IF bad THEN "idle" ELSE "clear"
    [] j.call = "Emergency"            -> IF bad THEN "residual" ELSE "clear"
    [] j.call = "TakeoverSingle"       -> IF j.old = Empty THEN "clear" ELSE "resave"
    [] j.call = "Restore"              -> "clear"
    [] j.call = "RestoreSingle"        ->
         IF bad THEN "idle" ELSE IF Listed(mem) \subseteq Listed(j.snap) THEN "clear" ELSE "resave"

(* What Restore writes for the snapshots l on the units W, and that it     *)
(* removes resolv.conf.diting.orig after its write.                        *)
Rewrite(W, l) ==
  /\ sys' = [a \in Adapters |-> IF \E u \in W : a \in Span(u) THEN RestoreValue(l, a) ELSE sys[a]]
  /\ dorig' = IF backend = "resolvconf" /\ W # {} THEN None ELSE dorig

(* The backend's Restore, one write at a time; errors are collected, and   *)
(* one may come after the write.                                           *)
RestoreAdapter(p, a) ==
  LET j == job[p]
      next(bad) == IF j.todo # {a} THEN job' = [job EXCEPT ![p].todo = @ \ {a}, ![p].bad = bad]
                   ELSE LET pc == AfterRestore(j, bad) IN
                        IF pc = "idle" THEN Return(p)
                        ELSE job' = [job EXCEPT ![p].todo = {}, ![p].bad = bad, ![p].pc = pc]
  IN
  /\ j.pc = "restore" /\ a \in j.todo
  /\ \/ Ok /\ Rewrite({a}, j.snap) /\ next(j.bad)
     \/ /\ Fault("restore") /\ next(TRUE)
        /\ \E W \in SUBSET {a} : Rewrite(W, j.snap)
  /\ UNCHANGED <<system, file, backup, script, up, active, mem, history>>

(* TakeoverSingle rolled back, and RestoreSingle with others left.         *)
(* Mutant: the restored adapters are the ones kept.                        *)
MutKeepTargets(j) ==
  IF j.call = "RestoreSingle" THEN Only(mem, Listed(j.snap)) ELSE j.old
Remaining(j) ==
  IF j.call = "RestoreSingle" THEN Only(mem, Listed(mem) \ Listed(j.snap)) ELSE j.old

(* A restore that failed is forgotten here all the same.                   *)
Resave ==
  LET j == job["mgr"] IN
  /\ j.pc = "resave"
  /\ Save(StateFile(j.call = "RestoreSingle" \/ j.was, Remaining(j)))
  /\ mem' = Remaining(j) /\ active' = IF j.call = "RestoreSingle" THEN active ELSE j.was
  /\ Return("mgr")
  /\ spoilt' = (spoilt \/ j.bad \/ Lost)
  /\ UNCHANGED <<system, sys, backup, dorig, script, up, stale>>

ClearFile(p) ==
  LET j == job[p] IN
  /\ j.pc = "clear" /\ Clear
  /\ mem' = CASE j.call \in {"Restore", "RestoreSingle"} -> Empty
              [] j.call = "TakeoverSingle" -> j.old
              [] OTHER -> mem
  /\ active' = CASE j.call \in {"Restore", "RestoreSingle"} -> FALSE
                 [] j.call = "TakeoverSingle" -> j.was
                 [] OTHER -> active
  /\ IF j.call \in {"Restore", "Emergency"} THEN job' = [job EXCEPT ![p].pc = "residual"] ELSE Return(p)
  /\ spoilt' = (spoilt \/ j.bad)
  /\ UNCHANGED <<system, sys, backup, dorig, script, up, stale>>

(* ResetResidualLoopbackDNS: what a scan still finds on the loopback is    *)
(* restored from a cleaned snapshot of itself; the error is ignored.       *)
ResetResidualLoopbackDNS(p) ==
  LET S == {a \in Adapters : HasResidualLoopback(sys[a])}
      l == Only([a \in Adapters |-> CleanAdapterState(sys[a])], S)
      U == IF S = {} THEN {} ELSE Units(S)
  IN
  /\ job[p].pc = "residual"
  /\ \/ Ok /\ Rewrite(U, l)
     \/ S # {} /\ Fault("restore") /\ \E W \in SUBSET U : Rewrite(W, l)
  /\ Return(p)
  /\ UNCHANGED <<system, file, backup, script, up, active, mem, history>>

-----------------------------------------------------------------------------
(* CheckAndSelfHeal, at a start and in an emergency restore.               *)
(* Mutant: a start does not heal.                                          *)
MutNoHeal(c, else) ==
  IF c = "Heal" \/ Healable(file) = {}
    THEN IF else = "idle" THEN UNCHANGED job ELSE Begin("heal", c, else, {}, Empty)
    ELSE Begin("heal", c, "restore", Healable(file), file.snap)

SelfHeal(c, else) ==
  IF Healable(file) = {}
    THEN IF else = "idle" THEN UNCHANGED job ELSE Begin("heal", c, else, {}, Empty)
    ELSE Begin("heal", c, "restore", Healable(file), file.snap)

(* It gives up when the file cannot be read.                               *)
Unread(c, else) ==
  /\ file.present /\ Fault("load")
  /\ IF else = "idle" THEN UNCHANGED job ELSE Begin("heal", c, else, {}, Empty)

(* Everything is as the user has it and nothing is remembered of it.       *)
Mended == sys = orig /\ ~file.present /\ {backup, dorig} \subseteq {None, orig[Whole]}

Start ==
  /\ ~up /\ up' = TRUE
  /\ \/ Ok /\ SelfHeal("Heal", "idle")
     \/ Unread("Heal", "idle")
  /\ spoilt' = (spoilt /\ ~Mended)
  /\ UNCHANGED <<system, sys, file, backup, dorig, script, active, mem, stale>>

EmergencyRestore ==
  /\ up /\ job["heal"].pc = "idle"
  /\ \/ Ok /\ SelfHeal("Emergency", "residual")
     \/ Unread("Emergency", "residual")
  /\ spoilt' = (spoilt \/ job["mgr"].pc # "idle")
  /\ UNCHANGED <<system, sys, file, backup, dorig, script, up, active, mem, stale>>

(* The process dies, perhaps within a Save between os.Remove and           *)
(* os.Rename, which the fault "rename" stands for.                         *)
Crash ==
  /\ up /\ up' = FALSE /\ Fault("crash")
  /\ \/ file' = file
     \/ "rename" \in Faults /\ job["mgr"].pc \in {"save", "resave"} /\ file' = NoFile
  /\ active' = FALSE /\ mem' = Empty /\ job' = [p \in Procs |-> Idle]
  /\ spoilt' = (spoilt \/ Lost)
  /\ UNCHANGED <<system, sys, backup, dorig, script, stale>>

(* The administrator runs restore-dns.sh when the service died during a    *)
(* takeover; it may be the script of an earlier one.                       *)
ScriptValue(a) ==
  IF backend = "resolvconf"
    THEN IF dorig # None THEN dorig
         ELSE LET listed == Listed(script) IN
              IF \A x \in listed : script[x] = AllDHCP THEN PublicServers
              ELSE script[CHOOSE x \in listed : script[x] # AllDHCP]
    ELSE IF script[a] # None THEN CleanAdapterState(script[a]) ELSE sys[a]

RunScript ==
  /\ ~up /\ script # Empty /\ file.present
  /\ sys' = [a \in Adapters |-> ScriptValue(a)]
  /\ spoilt' = (spoilt \/ stale)
  /\ UNCHANGED <<system, file, backup, dorig, script, up, active, mem, job, stale, budget>>

(* The user reconfigures an interface that nothing of DITING remembers.    *)
(* (With resolv.conf the old backup stays, and a crash before the next     *)
(* one brings it back: left out.)                                          *)
UserChange(a, c) ==
  /\ backend # "resolvconf" /\ mem = Empty /\ ~file.present
  /\ sys = orig /\ \A p \in Procs : job[p].pc = "idle"
  /\ up
  /\ sys' = [sys EXCEPT ![a] = c] /\ orig' = sys'
  /\ UNCHANGED <<backend, named, file, backup, dorig, script, up, active, mem, job, history, budget>>

-----------------------------------------------------------------------------
Init ==
  /\ backend \in Backends /\ named \in BOOLEAN /\ (backend # "nm" => named)
  /\ orig \in [Adapters -> Clean]
  /\ backend = "resolvconf" => \A a, b \in Adapters : orig[a] = orig[b]
  /\ sys = orig /\ file = NoFile
  /\ backup = None /\ dorig = None /\ script = Empty
  /\ up = FALSE /\ active = FALSE /\ mem = Empty
  /\ job = [p \in Procs |-> Idle] /\ budget = MaxFaults
  /\ stale = FALSE /\ spoilt = FALSE

Step ==
  \/ SaveBeforeTakeover \/ BackupResolvConf \/ RollbackApplied \/ Resave
  \/ \E a \in Adapters : Apply(a)
  \/ \E p \in Procs, a \in Adapters : RestoreAdapter(p, a)
  \/ \E p \in Procs : ClearFile(p) \/ ResetResidualLoopbackDNS(p)

NewCall ==
  \/ \E S \in SUBSET Adapters : Takeover(S)
  \/ \E a \in Adapters : TakeoverSingle(a) \/ RestoreSingle(a)
  \/ Restore \/ EmergencyRestore
  \/ \E a \in Adapters, c \in Clean : UserChange(a, c)

Work == Step \/ Start \/ Crash \/ RunScript

Next == NewCall \/ Work

Spec == Init /\ [][Next]_vars

(* A job that has begun goes on; systemd restarts the service.             *)
FairSpec == Spec /\ WF_vars(Step) /\ WF_vars(Start)

-----------------------------------------------------------------------------
TypeOK ==
  /\ backend \in Backends /\ orig \in [Adapters -> Clean] /\ sys \in [Adapters -> Configs]
  /\ file \in StateFiles /\ {backup, dorig} \subseteq Configs \cup {None}
  /\ script \in Snapshots /\ up \in BOOLEAN /\ active \in BOOLEAN /\ mem \in Snapshots
  /\ job \in [Procs -> Jobs] /\ budget \in 0..MaxFaults
  /\ {named, stale, spoilt} \subseteq BOOLEAN

(* The interfaces the next start would write, and would write correctly.   *)
Restorable ==
  {a \in Adapters : /\ Healable(file) # {}
                    /\ \E u \in Units(Healable(file)) : a \in Span(u)
                    /\ Good(a, RestoreValue(file.snap, a))}

(* An interface that has lost its configuration gets it back from the next *)
(* start, whatever was written, rolled back or interrupted.  It holds over *)
(* all calls and faults until one of the things happens that the code does *)
(* not guard against: a takeover of what is taken over (Twice), a takeover *)
(* or restore of a part of the connections of NetworkManager (Partial), a  *)
(* call that does not know what is off (Missed), an emergency restore      *)
(* beside an operation, a Save that stops between its remove and its       *)
(* rename (Lost), a Restore or a rollback of TakeoverSingle that fails and *)
(* forgets the snapshots all the same, or an old restore-dns.sh that is    *)
(* run because the new one could not be written.                           *)
Recoverable == ~spoilt => Off \subseteq Restorable

(* The offline script restores every interface that is off, too: it is the *)
(* way back when the service does not start.  A takeover goes on without   *)
(* it when it cannot be written.                                           *)
ScriptRestores ==
  ~spoilt /\ ~stale => \A a \in Off : script # Empty /\ Good(a, ScriptValue(a))

(* Once nothing fails any more, a service that is down comes back and puts *)
(* every interface right, unless a way back was given away.                *)
CrashIsHealed ==
  (~up /\ budget = 0) ~> (spoilt \/ Off = {})
=============================================================================
