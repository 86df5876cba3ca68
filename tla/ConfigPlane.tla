----------------------------- MODULE ConfigPlane -----------------------------
(***************************************************************************)
(* The configuration of the desktop service: p.cfg in memory, the engines  *)
(* that run with it, and config.json.  A handler of the administration     *)
(* interface holds p.mu from its first assignment to the end of            *)
(* SaveConfig; only a change of the password works on the account before   *)
(* it takes p.mu.                                                          *)
(*                                                                         *)
(* A section is a number (0: its default) or, for the rewrite rules, a set *)
(* of rules.  Bad is the one value outside a section's range, which        *)
(* normalisation turns into the default.                                   *)
(***************************************************************************)
EXTENDS Naturals

CONSTANTS MaxEdits,     \* bound: handlers that begin
          MaxFaults,    \* bound: saves that fail
          MaxCrashes,   \* bound: ends of the process
          Changers,     \* calls of ChangePassword and UpdateQueryLogConfig
          Values,       \* values a request may give a section
          None

Bad == 9
Rules == {"x", "y", "empty"}       \* "empty": a rule without a domain

\* The sections an engine runs with, and the ones that queries read from p.cfg.
EngineSections == {"access", "rateLimit", "dns64", "ecs", "rewrite", "rebind",
                   "hosts", "cache", "aliases", "padding", "cred", "queryLog",
                   "safeSearch", "safeBrowsing", "zone"}
LiveSections == {"privacy", "unqualified", "trusted", "uuid"}
Sections == EngineSections \cup LiveSections

VARIABLES
  mem,      \* p.cfg
  eng,      \* what the engines run with
  disk,     \* config.json, or None when there is no file
  job,      \* the handler that holds p.mu: what it does next, or None
  change,   \* the password changes under way, by number
  qlog,     \* the UpdateQueryLogConfig calls under way, by the value they save
  passwd,   \* history: the number of passwords that were set
  synced,   \* history: the last save succeeded
  up, edits, faults, crashes

cfgVars == <<mem, eng, disk, job, change, qlog, passwd, synced, up, edits, faults, crashes>>

DefaultConfig == [s \in Sections |-> IF s = "rewrite" THEN {} ELSE 0]
NormalizeConfig(c) == [s \in Sections |-> IF s # "rewrite" /\ c[s] = Bad THEN 0 ELSE c[s]]

\* LoadConfig: no file is the default configuration.
LoadConfig == IF disk = None THEN DefaultConfig ELSE NormalizeConfig(disk)

\* What the engine of a section makes of a value: rules without a domain go.
Runs(s, v) == IF s = "rewrite" THEN v \ {"empty"} ELSE v
Start(c) == [s \in EngineSections |-> Runs(s, c[s])]

ConfigInit ==
  /\ mem = DefaultConfig /\ eng = Start(DefaultConfig) /\ disk = None
  /\ job = None /\ change = [k \in Changers |-> 0] /\ passwd = 0
  /\ qlog = [k \in Changers |-> None]
  /\ synced = TRUE /\ up = TRUE /\ edits = 0 /\ faults = 0 /\ crashes = 0

(* --- SaveConfig ---                                                      *)

\* The temporary file is written; a failure is logged and the handler ends.
WriteTmp ==
  /\ job = "write"
  /\ \/ job' = "remove" /\ UNCHANGED <<faults, synced>>
     \/ faults < MaxFaults /\ faults' = faults + 1 /\ job' = None /\ synced' = FALSE
  /\ UNCHANGED <<mem, eng, disk, change, qlog, passwd, up, edits, crashes>>

\* The old file is removed before the new one takes its name.
RemoveOld ==
  /\ job = "remove" /\ job' = "rename"
  /\ disk' = None
  /\ UNCHANGED <<mem, eng, change, qlog, passwd, synced, up, edits, faults, crashes>>

Rename ==
  /\ job = "rename" /\ job' = None
  /\ \/ disk' = mem /\ synced' = TRUE /\ UNCHANGED faults
     \/ faults < MaxFaults /\ faults' = faults + 1 /\ synced' = FALSE /\ UNCHANGED disk
  /\ UNCHANGED <<mem, eng, change, qlog, passwd, up, edits, crashes>>

(* --- the handlers ---                                                    *)

Enters == up /\ job = None /\ edits < MaxEdits /\ edits' = edits + 1
Others == UNCHANGED <<disk, change, qlog, passwd, synced, up, faults, crashes>>

MutApply(s, v) ==
  /\ mem' = [mem EXCEPT ![s] = v] /\ job' = "write"
  /\ UNCHANGED eng

\* The engine takes the value, p.cfg follows, the file is saved.
Apply(s, v) ==
  /\ eng' = [eng EXCEPT ![s] = Runs(s, v)]
  /\ mem' = [mem EXCEPT ![s] = v]
  /\ job' = "write"

\* The engine refuses the value, the handler returns its error.
Reject == UNCHANGED <<mem, eng, job>>

ConfigureAccess == Enters /\ Others /\ (Reject \/ \E v \in Values : Apply("access", v))
ConfigureRateLimit == Enters /\ Others /\ (Reject \/ \E v \in Values : Apply("rateLimit", v))
ConfigureDNS64 == Enters /\ Others /\ (Reject \/ \E v \in Values : Apply("dns64", v))
ConfigureECS == Enters /\ Others /\ \E v \in Values : Apply("ecs", v)
ConfigureRebind == Enters /\ Others /\ \E v \in Values : Apply("rebind", v)

ConfigureSafeSearch == Enters /\ Others /\ (Reject \/ \E v \in Values : Apply("safeSearch", v))

\* These three normalise the request before the engine and p.cfg get it.
Normal(v) == IF v = Bad THEN 0 ELSE v
UpdateCacheConfig ==
  Enters /\ Others /\ \E v \in Values \cup {Bad} : Apply("cache", Normal(v))
ConfigureSafeBrowsing ==
  Enters /\ Others /\ \E v \in Values \cup {Bad} : Apply("safeBrowsing", Normal(v))
ConfigureZone ==
  /\ Enters /\ Others
  /\ Reject \/ \E v \in Values \cup {Bad} : Apply("zone", Normal(v))

ConfigureRewrite ==
  Enters /\ Others /\ (Reject \/ \E rules \in SUBSET Rules : Apply("rewrite", rules))

\* One rule: p.cfg gets the list of the engine, not its own with one more.
MutAddRewriteRule ==
  /\ Enters /\ Others
  /\ \E r \in Rules \ {"empty"} :
       /\ eng' = [eng EXCEPT !["rewrite"] = @ \cup {r}] /\ job' = "write"
       /\ UNCHANGED mem

AddRewriteRule ==
  /\ Enters /\ Others
  /\ \/ Reject
     \/ \E r \in Rules \ {"empty"} : Apply("rewrite", eng["rewrite"] \cup {r})

DeleteRewriteRule ==
  /\ Enters /\ Others
  /\ \/ Reject
     \/ \E r \in eng["rewrite"] : Apply("rewrite", eng["rewrite"] \ {r})

\* The alias goes to the client resolver and to the list in p.cfg.
ConfigureClientAlias == Enters /\ Others /\ \E v \in Values : Apply("aliases", v)

ConfigureBlockUnqualified ==
  /\ Enters /\ Others
  /\ \E v \in Values : mem' = [mem EXCEPT !["unqualified"] = v]
  /\ job' = "write" /\ UNCHANGED eng

\* The sources of trusted proxies: checked, put into p.cfg, read by the
\* listeners when they are rebuilt.
ConfigureEncryptedACL ==
  /\ Enters /\ Others
  /\ \/ Reject
     \/ /\ \E v \in Values : mem' = [mem EXCEPT !["trusted"] = v]
        /\ job' = "write" /\ UNCHANGED eng

\* The identifier of the Apple profile is made once.
EnsureEncryptedUUID ==
  /\ Enters /\ Others
  /\ mem["uuid"] = 0 /\ mem' = [mem EXCEPT !["uuid"] = 1]
  /\ job' = "write" /\ UNCHANGED eng

\* The switches are set one by one; a padding the resolver refuses ends the
\* handler with the earlier ones set and nothing saved.
ConfigurePrivacy ==
  /\ Enters /\ Others
  /\ \E v \in Values, pad \in Values \cup {Bad} :
       \/ /\ mem' = [mem EXCEPT !["privacy"] = v,
                                !["padding"] = Normal(pad)]
          /\ eng' = [eng EXCEPT !["padding"] = Normal(pad)]
          /\ job' = "write"
       \/ mem' = [mem EXCEPT !["privacy"] = v] /\ UNCHANGED <<eng, job>>

\* p.cfg.Hosts is changed before the TTL is looked at.
ConfigureHosts ==
  /\ Enters /\ Others
  /\ \E v \in Values :
       \/ Apply("hosts", v)
       \/ mem' = [mem EXCEPT !["hosts"] = v] /\ UNCHANGED <<eng, job>>

\* SetupAuth, ChangePassword: the account has the new password at once.
ChangePassword(k) ==
  /\ up /\ change[k] = 0 /\ edits < MaxEdits /\ edits' = edits + 1
  /\ passwd' = passwd + 1
  /\ eng' = [eng EXCEPT !["cred"] = passwd + 1]
  /\ change' = [change EXCEPT ![k] = passwd + 1]
  /\ UNCHANGED <<mem, disk, job, qlog, synced, up, faults, crashes>>

MutSyncCredentials(k) ==
  /\ up /\ change[k] # 0 /\ job = None
  /\ mem' = [mem EXCEPT !["cred"] = change[k]]
  /\ change' = [change EXCEPT ![k] = 0] /\ job' = "write"
  /\ UNCHANGED <<eng, disk, qlog, passwd, synced, up, edits, faults, crashes>>

\* Under p.mu the account is asked again what its password is.
SyncCredentials(k) ==
  /\ up /\ change[k] # 0 /\ job = None
  /\ mem' = [mem EXCEPT !["cred"] = eng["cred"]]
  /\ change' = [change EXCEPT ![k] = 0] /\ job' = "write"
  /\ UNCHANGED <<eng, disk, qlog, passwd, synced, up, edits, faults, crashes>>

\* The log runs with the new configuration before p.mu is taken, and the call
\* saves what it was given.
UpdateQueryLogConfig(k, v) ==
  /\ up /\ qlog[k] = None /\ edits < MaxEdits /\ edits' = edits + 1
  /\ eng' = [eng EXCEPT !["queryLog"] = Normal(v)]
  /\ qlog' = [qlog EXCEPT ![k] = v]
  /\ UNCHANGED <<mem, disk, job, change, passwd, synced, up, faults, crashes>>

SaveQueryLogConfig(k) ==
  /\ up /\ qlog[k] # None /\ job = None
  /\ mem' = [mem EXCEPT !["queryLog"] = qlog[k]]
  /\ qlog' = [qlog EXCEPT ![k] = None] /\ job' = "write"
  /\ UNCHANGED <<eng, disk, change, passwd, synced, up, edits, faults, crashes>>

(* --- the process ---                                                     *)

Crash ==
  /\ up /\ crashes < MaxCrashes
  /\ up' = FALSE /\ crashes' = crashes + 1
  /\ job' = None /\ change' = [k \in Changers |-> 0]
  /\ qlog' = [k \in Changers |-> None]
  /\ UNCHANGED <<mem, eng, disk, passwd, synced, edits, faults>>

Boot ==
  /\ ~up /\ up' = TRUE
  /\ mem' = LoadConfig /\ eng' = Start(LoadConfig) /\ synced' = TRUE
  /\ UNCHANGED <<disk, job, change, qlog, passwd, edits, faults, crashes>>

Handler ==
  \/ ConfigureAccess \/ ConfigureRateLimit \/ ConfigureDNS64 \/ ConfigureECS
  \/ ConfigureRebind \/ UpdateCacheConfig \/ ConfigureRewrite \/ AddRewriteRule
  \/ DeleteRewriteRule \/ ConfigureClientAlias \/ ConfigureBlockUnqualified
  \/ ConfigurePrivacy \/ ConfigureHosts \/ ConfigureSafeSearch \/ ConfigureSafeBrowsing
  \/ ConfigureZone \/ ConfigureEncryptedACL \/ EnsureEncryptedUUID

ConfigNext ==
  \/ Handler \/ WriteTmp \/ RemoveOld \/ Rename
  \/ \E k \in Changers : ChangePassword(k) \/ SyncCredentials(k) \/ SaveQueryLogConfig(k)
  \/ \E k \in Changers, v \in Values \cup {Bad} : UpdateQueryLogConfig(k, v)
  \/ Crash \/ Boot

(* --- properties ---                                                      *)

\* When no handler is at work and the last save succeeded, the engines run
\* with exactly what the next start would give them: every section, the
\* rewrite rules and the password, whatever order the handlers, the password
\* changes and the crashes came in.  Two sections are not claimed: a
\* ConfigureHosts that is refused leaves p.cfg.Hosts ahead of the resolver,
\* and two UpdateQueryLogConfig calls may save in the other order than they
\* configured the log
\* (controller_security.go:13-160, controller_rewrite.go:24-182,
\* controller_web.go:199-239, store.go:46-107).
RestartChangesNothing ==
  up /\ job = None /\ synced =>
    \A s \in EngineSections \ {"hosts", "queryLog"} :
      (s = "cred" /\ \E k \in Changers : change[k] # 0) \/ Start(LoadConfig)[s] = eng[s]
=============================================================================
