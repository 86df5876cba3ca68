----------------------------- MODULE CertManager -----------------------------
(***************************************************************************)
(* The certificate of the encrypted listeners (internal/core/cert_*.go and *)
(* controller_encrypted.go): two pairs of files, the self-signed pair and  *)
(* the imported one, and the pair the manager has loaded.  A handler that  *)
(* changes the certificate holds p.mu; GetEncryptedDNS reloads the files   *)
(* without it.  A pair is a number; its certificate and its key are        *)
(* written one after the other, each by truncating the file first.         *)
(***************************************************************************)
EXTENDS Naturals

CONSTANTS MaxPairs,       \* bound: pairs that are issued or imported
          MaxCertFaults,  \* bound: writes that fail
          MaxCertCrashes, \* bound: ends of the process
          None

Sources == {"self", "file"}
Torn == 99                         \* a file that was truncated

VARIABLES
  certs,     \* the files of each source: [crt, key], 0 for no file
  mgr,       \* m.cfg.Source and the pair that is loaded, 0 for none
  certCfg,   \* p.cfg.Encrypted.Cert.Source, which is also the saved one
  call,      \* the handler, or the start of the service, at work on the certificate
  reader,    \* the Reload of GetEncryptedDNS
  due,       \* pairs that have expired or soon will
  made,      \* pairs issued so far
  dirty,     \* history: the last write failed half-way
  raced,     \* history: GetEncryptedDNS ran beside a handler
  alive, certFaults, certCrashes

certVars == <<certs, mgr, certCfg, call, reader, due, made, dirty, raced,
              alive, certFaults, certCrashes>>

NoFiles == [crt |-> 0, key |-> 0]
IdleReader == [pc |-> "idle", src |-> "self", crt |-> 0]

\* loadCertMaterial: both files can be read and belong together.
Pair(crt, key) == IF crt = key /\ crt # Torn THEN crt ELSE 0
LoadCertMaterial(src) == Pair(certs[src].crt, certs[src].key)

\* Start finds whatever the last process saved; here, no certificate at all.
CertInit ==
  /\ certs = [s \in Sources |-> NoFiles] /\ mgr = [src |-> "self", loaded |-> 0]
  /\ certCfg = "self" /\ call = [op |-> "boot", pc |-> "renew", slot |-> "self"]
  /\ reader = IdleReader /\ due = {} /\ made = 0 /\ dirty = FALSE /\ raced = FALSE
  /\ alive = TRUE /\ certFaults = 0 /\ certCrashes = 0

Races == raced' = (raced \/ reader.pc # "idle")
CallStep(pc) == call' = [call EXCEPT !.pc = pc]

\* Configure: the source, then a Reload of its files.
Configured(src) == [src |-> src, loaded |-> LoadCertMaterial(src)]

(* --- what begins a change ---                                            *)

Free == alive /\ call = None

\* ConfigureEncryptedDNS reloads only when the certificate's part changed, and
\* then makes sure that a self-signed source has a certificate; p.cfg is set
\* and saved at the end, whether or not that succeeded.
ConfigureEncryptedDNS(src) ==
  /\ Free /\ Races
  /\ mgr' = IF src = certCfg THEN mgr ELSE Configured(src)
  /\ IF src = "self"
     THEN call' = [op |-> "configure", pc |-> "renew", slot |-> "self"] /\ UNCHANGED certCfg
     ELSE certCfg' = src /\ UNCHANGED call
  /\ UNCHANGED <<certs, reader, due, made, dirty, alive, certFaults, certCrashes>>

\* Health: what is loaded is gone, over, or nearly over.
MutNeedsRenewal == TRUE
NeedsRenewal == mgr.loaded = 0 \/ mgr.loaded \in due

MutRenewSelfSignedIfNeeded ==
  /\ call # None /\ call.pc = "renew" /\ Races
  /\ call' = IF NeedsRenewal /\ (certs["self"].crt = 0 \/ certs["self"].key = 0)
             THEN [call EXCEPT !.pc = "crt"] ELSE None
  /\ certCfg' = IF call' = None THEN "self" ELSE certCfg
  /\ UNCHANGED <<certs, mgr, reader, due, made, dirty, alive, certFaults, certCrashes>>

\* A pair that is missing, torn or nearly over is signed anew.
RenewSelfSignedIfNeeded ==
  /\ call # None /\ call.pc = "renew" /\ Races
  /\ call' = IF NeedsRenewal THEN [call EXCEPT !.pc = "crt"] ELSE None
  /\ certCfg' = IF call' = None THEN "self" ELSE certCfg
  /\ UNCHANGED <<certs, mgr, reader, due, made, dirty, alive, certFaults, certCrashes>>

\* GenerateEncryptedCert with Force: RegenerateSelfSigned.
RegenerateSelfSigned ==
  /\ Free /\ Races
  /\ call' = [op |-> "force", pc |-> "crt", slot |-> "self"]
  /\ UNCHANGED <<certs, mgr, certCfg, reader, due, made, dirty, alive, certFaults, certCrashes>>

\* ... and without: the files are kept when both are there and the current
\* source is the self-signed one.
OwnedBySelfSigned == mgr.src = "self"
EnsureSelfSigned ==
  /\ Free /\ Races
  /\ IF certs["self"].crt # 0 /\ certs["self"].key # 0 /\ OwnedBySelfSigned
     THEN mgr' = Configured("self") /\ certCfg' = "self" /\ UNCHANGED call
     ELSE call' = [op |-> "ensure", pc |-> "crt", slot |-> "self"] /\ UNCHANGED <<mgr, certCfg>>
  /\ UNCHANGED <<certs, reader, due, made, dirty, alive, certFaults, certCrashes>>

\* ImportPEM, ImportPKCS12: a pair that does not match is refused before
\* anything is written.
ImportPEM ==
  /\ Free /\ Races
  /\ call' = [op |-> "import", pc |-> "crt", slot |-> "file"]
  /\ UNCHANGED <<certs, mgr, certCfg, reader, due, made, dirty, alive, certFaults, certCrashes>>

(* --- the writes ---                                                      *)

Put(file, n) == certs' = [certs EXCEPT ![call.slot][file] = n]

\* The certificate's file is truncated, then written.
Truncate ==
  /\ call # None /\ Races
  /\ \/ call.pc = "crt" /\ made < MaxPairs /\ CallStep("crtData") /\ Put("crt", Torn)
        /\ made' = made + 1
     \/ call.pc = "key" /\ CallStep("keyData") /\ Put("key", Torn) /\ UNCHANGED made
  /\ UNCHANGED <<mgr, certCfg, reader, due, dirty, alive, certFaults, certCrashes>>

WriteFilePrivate ==
  /\ call # None /\ Races
  /\ \/ call.pc = "crtData" /\ CallStep("key") /\ Put("crt", made) /\ UNCHANGED dirty
     \/ call.pc = "keyData" /\ CallStep("reload") /\ Put("key", made) /\ dirty' = FALSE
  /\ UNCHANGED <<mgr, certCfg, reader, due, made, alive, certFaults, certCrashes>>

\* An I/O error, before or after the truncation; the handler gives up.
WriteFails ==
  /\ call # None /\ Races /\ certFaults < MaxCertFaults
  /\ call.pc \in {"crt", "crtData", "key", "keyData"}
  /\ call' = None /\ dirty' = TRUE /\ certFaults' = certFaults + 1
  /\ certCfg' = IF call.op = "configure" THEN "self" ELSE certCfg
  /\ UNCHANGED <<certs, mgr, reader, due, made, alive, certCrashes>>

MutReload ==
  /\ call # None /\ call.pc = "reload" /\ Races
  /\ mgr' = [mgr EXCEPT !.src = call.slot] /\ certCfg' = call.slot /\ call' = None
  /\ UNCHANGED <<certs, reader, due, made, dirty, alive, certFaults, certCrashes>>

\* Both files are there: the manager is configured with their source and
\* the handler saves that source.
Reload ==
  /\ call # None /\ call.pc = "reload" /\ Races
  /\ mgr' = Configured(call.slot) /\ certCfg' = call.slot /\ call' = None
  /\ UNCHANGED <<certs, reader, due, made, dirty, alive, certFaults, certCrashes>>

(* --- GetEncryptedDNS, which holds no lock ---                            *)

ReaderOnly == UNCHANGED <<certs, certCfg, call, due, made, dirty, alive, certFaults, certCrashes>>
ReadRaces == raced' = (raced \/ call # None)

\* The service's interface starts when the start of the service is over.
Snapshot ==
  /\ alive /\ reader.pc = "idle" /\ (call # None => call.op # "boot")
  /\ reader' = [pc |-> "crt", src |-> mgr.src, crt |-> 0]
  /\ ReadRaces /\ ReaderOnly /\ UNCHANGED mgr

ReadCrt ==
  /\ reader.pc = "crt"
  /\ reader' = [reader EXCEPT !.pc = "key", !.crt = certs[reader.src].crt]
  /\ ReadRaces /\ ReaderOnly /\ UNCHANGED mgr

ReadKey ==
  /\ reader.pc = "key"
  /\ reader' = [reader EXCEPT !.pc = "store", !.crt = Pair(reader.crt, certs[reader.src].key)]
  /\ ReadRaces /\ ReaderOnly /\ UNCHANGED mgr

\* The pair, or that there is none, is stored last.
Store ==
  /\ reader.pc = "store"
  /\ reader' = IdleReader /\ mgr' = [mgr EXCEPT !.loaded = reader.crt]
  /\ ReadRaces /\ ReaderOnly

(* --- time and the process ---                                            *)

Expires ==
  /\ due = {} /\ mgr.loaded # 0 /\ due' = {mgr.loaded}
  /\ UNCHANGED <<certs, mgr, certCfg, call, reader, made, dirty, raced, alive, certFaults, certCrashes>>

CertCrash ==
  /\ alive /\ certCrashes < MaxCertCrashes
  /\ alive' = FALSE /\ certCrashes' = certCrashes + 1
  /\ call' = None /\ reader' = IdleReader
  /\ UNCHANGED <<certs, mgr, certCfg, due, made, dirty, raced, certFaults>>

\* NewCertManager loads the saved source; a self-signed one is then renewed.
CertBoot ==
  /\ ~alive /\ alive' = TRUE
  /\ mgr' = Configured(certCfg)
  /\ call' = IF certCfg = "self" THEN [op |-> "boot", pc |-> "renew", slot |-> "self"] ELSE None
  /\ raced' = FALSE /\ dirty' = FALSE
  /\ UNCHANGED <<certs, certCfg, reader, due, made, certFaults, certCrashes>>

CertNext ==
  \/ \E src \in Sources : ConfigureEncryptedDNS(src)
  \/ RenewSelfSignedIfNeeded \/ RegenerateSelfSigned \/ EnsureSelfSigned \/ ImportPEM
  \/ Truncate \/ WriteFilePrivate \/ WriteFails \/ Reload
  \/ Snapshot \/ ReadCrt \/ ReadKey \/ Store
  \/ Expires \/ CertCrash \/ CertBoot

(* --- properties ---                                                      *)

\* Unless GetEncryptedDNS ran beside a handler or a write failed, the pair the
\* listeners are given is the pair in the files of the configured source: an
\* import, a renewal and a change of the source all end with a Reload
\* (cert_manager.go:59-66, 89-111, 193-331).
ServesItsFiles ==
  alive /\ call = None /\ reader.pc = "idle" /\ ~raced /\ ~dirty =>
    mgr = [src |-> certCfg, loaded |-> LoadCertMaterial(certCfg)]

\* A self-signed pair in use that is intact and not nearly over is replaced
\* only when the administrator asks for a new one: clients trust that very
\* certificate (cert_manager.go:189-192, 255-260; cert_health.go:65-85).
ResignedForCause ==
  [][ LET n == LoadCertMaterial("self")
      IN  n # 0 /\ n \notin due /\ mgr.src = "self" /\ ~raced
            /\ certs'["self"] # certs["self"] => call.op = "force" ]_certVars

\* A start that meets no I/O error leaves a self-signed source with a pair
\* that loads and is not nearly over, whatever a crash left of the files
\* (main.go:201-218, cert_health.go:65-85).
BootHeals ==
  [][ call # None /\ call' = None /\ alive' /\ call.op = "boot" /\ ~dirty' =>
        mgr'.loaded # 0 /\ mgr'.loaded \notin due ]_certVars
=============================================================================
