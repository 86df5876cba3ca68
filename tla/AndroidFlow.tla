---------------------------- MODULE AndroidFlow ----------------------------
(***************************************************************************)
(* The flows of the Android full tunnel: the three handlers (UDP, TCP      *)
(* passed through, TCP that may be decrypted), the outbound they dial, the *)
(* relays, and what interception needs: leaf certificates minted once per  *)
(* host, the blacklist of hosts whose clients pin certificates, request    *)
(* rules held by a native handle.                                          *)
(*                                                                         *)
(* One host and one app.  The app's uid may not be found, and each lookup  *)
(* may answer differently.  DNS flows end here; AndroidDns goes on.        *)
(***************************************************************************)
EXTENDS Naturals

CONSTANTS Flows,
          KindsOf,     \* [Flows -> SUBSET {"udp", "tcp", "mitm"}]
          Threshold,   \* failed handshakes that blacklist a host
          MaxEdits,    \* bound: changes of settings
          MaxMint,     \* bound: rule sets handed to the kernel
          None

Ports == {"dns", "dot", "web"}

VARIABLES gate,        \* closed gates: "blocked", "ungranted", "dot"
          quic,        \* e.quicDrop
          route,       \* outbound: "http" proxy, SOCKS for "apps", "none"
          caRef,       \* cm.ca
          caFreed,     \* the kernel's CA handle was released
          readers,     \* holders of cm.mu.RLock
          releasing,   \* where Release is
          leaf,        \* the host's minted certificate: "none", "fresh", "old"
          mint,        \* flightCache: the flow that mints it
          black,       \* the host is on the MITM blacklist
          fails,       \* its failure streak
          rules,       \* e.requestRules: handle, older ones not yet released
          freed,       \* released rule handles
          emu,         \* the holder of e.mu while it matches a request
          flow,
          edits

cert == <<caRef, caFreed, readers, releasing, leaf, mint>>
filter == <<black, fails>>
req == <<rules, freed, emu>>
env == <<gate, quic, route, edits>>
vars == <<gate, quic, route, caRef, caFreed, readers, releasing, leaf,
          mint, black, fails, rules, freed, emu, flow, edits>>

\* held is history: the gates that were closed to the flow all its life.
NoFlow == [pc |-> "idle", kind |-> "tcp", uid |-> None, port |-> "web",
           open |-> {}, ok |-> FALSE, held |-> {}]
Over == [NoFlow EXCEPT !.pc = "end"]

Init ==
  /\ gate \in {{}, {"dot", "ungranted"}} /\ quic = FALSE
  /\ route \in {"http", "apps"}
  /\ caRef = TRUE /\ caFreed = FALSE /\ readers = {} /\ releasing = "no"
  /\ leaf = "none" /\ mint = None
  /\ black = FALSE /\ fails = 0
  /\ rules = [cur |-> 1, old |-> {}] /\ freed = {} /\ emu = None
  /\ flow = [f \in Flows |-> NoFlow] /\ edits = 0

TypeOK ==
  /\ mint # None => flow[mint].pc \in {"mint", "issue", "minted"}
  /\ readers = {f \in Flows : flow[f].pc = "issue"}
  /\ emu # None => flow[emu].pc = "match"
  /\ rules.cur \notin rules.old \cup freed

At(f, pc) == flow[f].pc = pc
Goto(f, pc) == flow' = [flow EXCEPT ![f].pc = pc]
EndFlow(f) == flow' = [flow EXCEPT ![f] = Over]
\* The gates let the flow through; its port and owner are not asked again.
Pass(f, pc) == flow' = [flow EXCEPT ![f].pc = pc, ![f].uid = None,
                                    ![f].port = "web"]

(* --- settings, between any two steps of a flow ---                       *)

Edit == edits < MaxEdits /\ edits' = edits + 1

\* SetBlockedUIDs, SetBlockEncryptedDns, a grant given or expired.
SetGate(g) ==
  /\ Edit
  /\ gate' = IF g \in gate THEN gate \ {g} ELSE gate \cup {g}
  /\ flow' = [f \in Flows |-> [flow[f] EXCEPT !.held = @ \cap gate']]
  /\ UNCHANGED <<quic, route, cert, filter, req>>

SetFilterHttp3 ==
  /\ Edit /\ quic' = ~quic
  /\ UNCHANGED <<gate, route, cert, filter, req, flow>>

\* The session ends: later dials find no route.
StopSession ==
  /\ Edit /\ route # "none" /\ route' = "none"
  /\ UNCHANGED <<gate, quic, cert, filter, req, flow>>

\* SetRequestRules swaps the handle under e.mu ...
SetRequestRules ==
  /\ rules.cur < MaxMint /\ emu = None
  /\ rules' = [cur |-> rules.cur + 1, old |-> rules.old \cup {rules.cur}]
  /\ UNCHANGED <<env, cert, filter, freed, emu, flow>>

\* ... and releases the previous one after it.
ReleaseRules(h) ==
  /\ rules' = [rules EXCEPT !.old = @ \ {h}] /\ freed' = freed \cup {h}
  /\ UNCHANGED <<env, cert, filter, emu, flow>>

ClearBlacklist ==
  /\ Edit /\ black' = FALSE /\ fails' = 0
  /\ UNCHANGED <<gate, quic, route, cert, req, flow>>

\* The streak's window passes.
WindowPasses ==
  /\ fails > 0 /\ ~black /\ fails' = 0
  /\ UNCHANGED <<env, cert, black, req, flow>>

CertAges ==
  /\ leaf = "fresh" /\ leaf' = "old"
  /\ UNCHANGED <<env, caRef, caFreed, readers, releasing, mint, filter, req,
                 flow>>

\* The handle is taken and freed without the lock the issuer holds.
MutReleaseSwap ==
  /\ releasing = "reset" /\ releasing' = "swapped" /\ caRef' = FALSE
  /\ UNCHANGED <<env, caFreed, readers, leaf, mint, filter, req, flow>>

\* StopStackMitm: Release empties the certificate cache, takes the handle
\* under cm.mu, and frees it.
ReleaseReset ==
  /\ Edit /\ releasing = "no" /\ releasing' = "reset" /\ leaf' = "none"
  /\ UNCHANGED <<gate, quic, route, caRef, caFreed, readers, mint,
                 filter, req, flow>>
ReleaseSwap ==
  /\ releasing = "reset" /\ readers = {}
  /\ releasing' = "swapped" /\ caRef' = FALSE
  /\ UNCHANGED <<env, caFreed, readers, leaf, mint, filter, req, flow>>
ReleaseFree ==
  /\ releasing = "swapped" /\ releasing' = "done" /\ caFreed' = TRUE
  /\ UNCHANGED <<env, caRef, readers, leaf, mint, filter, req, flow>>

(* --- the three handlers ---                                              *)

ClosedTo(uid, port) ==
  gate \cap ((IF uid = None THEN {} ELSE {"blocked", "ungranted"})
             \cup (IF port = "dot" THEN {"dot"} ELSE {}))

Open(f, kind, uid, port) ==
  /\ At(f, "idle")
  /\ flow' = [flow EXCEPT ![f] = [NoFlow EXCEPT !.pc = "gate", !.kind = kind,
                  !.uid = uid, !.port = port, !.held = ClosedTo(uid, port)]]
  /\ UNCHANGED <<env, cert, filter, req>>

Blocked(f) == flow[f].uid # None /\ "blocked" \in gate
Ungranted(f) == flow[f].uid # None /\ "ungranted" \in gate
Dot(f) == flow[f].port = "dot" /\ "dot" \in gate

\* UDP: DNS is served before the allowlist is asked; QUIC of an intercepted
\* app is dropped so that it falls back to TCP.
UdpHandler(f) ==
  /\ At(f, "gate") /\ flow[f].kind = "udp"
  /\ IF \/ Blocked(f) \/ flow[f].port = "dns" \/ Dot(f) \/ Ungranted(f)
        \/ quic /\ flow[f].port = "web" /\ flow[f].uid # None
     THEN EndFlow(f) ELSE Pass(f, "dial")
  /\ UNCHANGED <<env, cert, filter, req>>

\* TCP: the allowlist comes first, also for DNS.
PassthroughHandler(f) ==
  /\ At(f, "gate") /\ flow[f].kind = "tcp"
  /\ IF Blocked(f) \/ Ungranted(f) \/ flow[f].port = "dns" \/ Dot(f)
     THEN EndFlow(f) ELSE Pass(f, "dial")
  /\ UNCHANGED <<env, cert, filter, req>>

\* Port 853 goes where every other port goes.
MutMitmHandler(f) ==
  /\ At(f, "gate") /\ flow[f].kind = "mitm"
  /\ IF Blocked(f) \/ Ungranted(f) \/ flow[f].port = "dns"
     THEN EndFlow(f)
     ELSE Pass(f, IF flow[f].port = "web" /\ flow[f].uid # None
                  THEN "peek" ELSE "dial")
  /\ UNCHANGED <<env, cert, filter, req>>

\* TCP with interception: only web ports of a known app are looked into.
MitmHandler(f) ==
  /\ At(f, "gate") /\ flow[f].kind = "mitm"
  /\ IF Blocked(f) \/ Ungranted(f) \/ flow[f].port = "dns" \/ Dot(f)
     THEN EndFlow(f)
     ELSE Pass(f, IF flow[f].port = "web" /\ flow[f].uid # None
                  THEN "peek" ELSE "dial")
  /\ UNCHANGED <<env, cert, filter, req>>

\* The first bytes: nothing, something unknown, plain HTTP, a rewritten or
\* blocked host, or TLS to a host that may be intercepted.
Peek(f) ==
  /\ At(f, "peek")
  /\ \/ EndFlow(f)
     \/ Goto(f, "dial")
     \/ flow' = [flow EXCEPT ![f].pc = "upstream"]
     \/ ~black /\ Goto(f, "cert")
     \/ black /\ Goto(f, "dial")
  /\ UNCHANGED <<env, cert, filter, req>>

(* --- leaf certificates ---                                               *)

\* getCertificateWithDedup: the cache, else the host's one minting.
GetCertificate(f) ==
  /\ At(f, "cert")
  /\ \/ leaf = "fresh" /\ Goto(f, "handshake") /\ UNCHANGED <<leaf, mint>>
     \/ /\ leaf # "fresh" /\ leaf' = "none"
        /\ IF mint = None THEN mint' = f /\ Goto(f, "mint")
           ELSE Goto(f, "await") /\ UNCHANGED mint
  /\ UNCHANGED <<env, caRef, caFreed, readers, releasing, filter, req>>

\* getCertForHost takes cm.mu to read; a released manager has no CA.
Mint(f) ==
  /\ At(f, "mint")
  /\ IF caRef THEN Goto(f, "issue") /\ readers' = readers \cup {f}
     ELSE Goto(f, "minted") /\ UNCHANGED readers
  /\ UNCHANGED <<env, caRef, caFreed, releasing, leaf, mint, filter, req>>

Issue(f) ==
  /\ At(f, "issue") /\ readers' = readers \ {f}
  /\ \E ok \in BOOLEAN :
       /\ leaf' = IF ok THEN "fresh" ELSE leaf
       /\ flow' = [flow EXCEPT ![f].pc = "minted", ![f].ok = ok]
  /\ UNCHANGED <<env, caRef, caFreed, releasing, mint, filter, req>>

\* A failed minting leaves its waiters waiting.
MutMintDone(f) ==
  /\ At(f, "minted") /\ mint' = None
  /\ flow' = [g \in Flows |->
       CASE g = f -> [flow[g] EXCEPT !.pc = IF flow[f].ok THEN "handshake"
                                            ELSE "failed", !.ok = FALSE]
         [] g # f /\ At(g, "await") /\ flow[f].ok ->
              [flow[g] EXCEPT !.pc = "reload"]
         [] OTHER -> flow[g]]
  /\ UNCHANGED <<env, caRef, caFreed, readers, releasing, leaf, filter, req>>

\* The deferred delete and Done, on every path.
MintDone(f) ==
  /\ At(f, "minted") /\ mint' = None
  /\ flow' = [g \in Flows |->
       CASE g = f -> [flow[g] EXCEPT !.pc = IF flow[f].ok THEN "handshake"
                                            ELSE "failed", !.ok = FALSE]
         [] g # f /\ At(g, "await") -> [flow[g] EXCEPT !.pc = "reload"]
         [] OTHER -> flow[g]]
  /\ UNCHANGED <<env, caRef, caFreed, readers, releasing, leaf, filter, req>>

\* A waiter reads the cache once: a miss counts as a failure there.
Reload(f) ==
  /\ At(f, "reload") /\ Goto(f, IF leaf # "none" THEN "handshake" ELSE "failed")
  /\ UNCHANGED <<env, cert, filter, req>>

\* The client's handshake, with our certificate.
Handshake(f) ==
  /\ At(f, "handshake")
  /\ Goto(f, "failed") \/ Goto(f, "upstream")
  /\ UNCHANGED <<env, cert, filter, req>>

\* RecordFailure: the streak that reaches the threshold blacklists the host.
RecordFailure(f) ==
  /\ At(f, "failed") /\ fails' = fails + 1
  /\ black' = (black \/ fails + 1 >= Threshold)
  /\ EndFlow(f)
  /\ UNCHANGED <<env, cert, req>>

\* The server's side: it may fail, ask for a client certificate or show an EV
\* certificate (then the host is blacklisted at once).
Upstream(f) ==
  /\ At(f, "upstream")
  /\ \/ EndFlow(f) /\ UNCHANGED filter
     \/ EndFlow(f) /\ black' = TRUE /\ UNCHANGED fails
     \/ Goto(f, "request") /\ UNCHANGED filter
  /\ UNCHANGED <<env, cert, req>>

(* --- decrypted requests ---                                              *)

\* relayHTTPFlow: the next request, or the end of the connection.
ReadRequest(f) ==
  /\ At(f, "request")
  /\ \/ EndFlow(f) /\ UNCHANGED emu
     \/ emu = None /\ emu' = f /\ Goto(f, "match")
  /\ UNCHANGED <<env, cert, filter, rules, freed>>

\* requestFilterDecision holds e.mu for the whole match; then the request is
\* refused, answered, or ends the flow.
Match(f) ==
  /\ At(f, "match") /\ emu' = None
  /\ Goto(f, "request") \/ EndFlow(f)
  /\ UNCHANGED <<env, cert, filter, rules, freed>>

(* --- dialing and relaying ---                                            *)

\* outboundForFlow: whether the flow is proxied.  Only "apps" asks for the
\* owner, in a lookup of its own that may answer differently; after Stop, and
\* for an unknown owner, the flow goes direct.
Outbound(uid) == route = "http" \/ (route = "apps" /\ uid # None)

\* A dial may fail, and an HTTP proxy carries no UDP.
Dial(f) ==
  /\ At(f, "dial")
  /\ \/ EndFlow(f)
     \/ \E uid \in {"app", None} :
          /\ ~(Outbound(uid) /\ route = "http" /\ flow[f].kind = "udp")
          /\ flow' = [flow EXCEPT ![f].pc = "relay",
                                  ![f].open = {"up", "down"}]
  /\ UNCHANGED <<env, cert, filter, req>>

\* One direction reaches its end, or idles out.
DirectionEnds(f, d) ==
  /\ At(f, "relay") /\ d \in flow[f].open
  /\ flow' = [flow EXCEPT ![f].open = @ \ {d}]
  /\ UNCHANGED <<env, cert, filter, req>>

\* Both pipes are waited for, none is closed.
MutCloseOther(f) ==
  /\ At(f, "relay") /\ flow[f].open = {} /\ EndFlow(f)
  /\ UNCHANGED <<env, cert, filter, req>>

\* relayUDPFlow closes both sockets when one pipe ends; a TCP relay lets each
\* direction finish (half-close).
CloseOther(f) ==
  /\ At(f, "relay")
  /\ flow[f].open = {} \/ (flow[f].kind = "udp" /\ flow[f].open # {"up", "down"})
  /\ EndFlow(f)
  /\ UNCHANGED <<env, cert, filter, req>>

Step(f) ==
  \/ UdpHandler(f) \/ PassthroughHandler(f) \/ MitmHandler(f) \/ Peek(f)
  \/ GetCertificate(f) \/ Mint(f) \/ Issue(f) \/ MintDone(f) \/ Reload(f)
  \/ Handshake(f) \/ RecordFailure(f) \/ Upstream(f) \/ Match(f) \/ Dial(f)
  \/ CloseOther(f)

Next ==
  \/ \E f \in Flows : Step(f) \/ ReadRequest(f)
  \/ \E f \in Flows, d \in {"up", "down"} : DirectionEnds(f, d)
  \/ \E f \in Flows, u \in {"app", None}, p \in Ports :
       \E k \in KindsOf[f] : Open(f, k, u, p)
  \/ \E g \in {"blocked", "ungranted", "dot"} : SetGate(g)
  \/ \E h \in rules.old : ReleaseRules(h)
  \/ SetFilterHttp3 \/ StopSession \/ SetRequestRules \/ ClearBlacklist
  \/ WindowPasses \/ CertAges \/ ReleaseReset \/ ReleaseSwap \/ ReleaseFree

\* A handler's goroutine runs on; dials, handshakes and peeks have timeouts.
\* Nothing is assumed of the peers whose bytes are relayed.
Fairness == \A f \in Flows : WF_vars(Step(f))

Spec == Init /\ [][Next]_vars /\ Fairness

(* --- properties ---                                                      *)

\* Use after free: no certificate is being issued by a CA handle that Release
\* has freed, no request matched by a rule set that was released.
HandlesAlive ==
  /\ \A f \in Flows : At(f, "issue") => ~caFreed
  /\ emu # None => rules.cur \notin freed

\* The three handlers agree: a flow that is passed on never met, during its
\* whole life, a gate that was closed to it (app blocked, address not granted,
\* port 853 while encrypted DNS is refused).
GatesHold ==
  \A f \in Flows : flow[f].pc \notin {"idle", "gate", "end"}
                     => flow[f].held = {}

\* Handshakes that wait for another flow's certificate, and UDP relays one of
\* whose directions has ended, come to an end.
FlowsEnd ==
  \A f \in Flows :
    []<>(/\ ~At(f, "await")
         /\ At(f, "relay") /\ flow[f].kind = "udp" => flow[f].open = {"up", "down"})
=============================================================================
