----------------------------- MODULE MCConsole -----------------------------
(***************************************************************************)
(* The console for TLC.                                                    *)
(***************************************************************************)
EXTENDS Console

C(on, max, file, days) == [enabled |-> on, max |-> max, file |-> file, days |-> days]
MCConfigs == {C(TRUE, 1, TRUE, 1), C(TRUE, 1, TRUE, 2), C(TRUE, 2, FALSE, 1),
              C(FALSE, 1, FALSE, 1)}

MCAddresses == {[lan |-> FALSE, port |-> 1]}

MCInit ==
  /\ shown \in {"log", "hub"}
  /\ ConsoleInit /\ logCfg.days = 1 /\ (shown # "log" => ~logCfg.enabled)

\* The fairness of the two parts, LogFairness and WebFairness.
MCSpec ==
  /\ MCInit /\ [][ConsoleNext]_<<shown, logVars, hubVars>>
  /\ \A r \in Log!Records : WF_logVars(shown = "log" /\ Log!RecordStep(r))
  /\ \A i \in Log!Writers : /\ WF_logVars(shown = "log" /\ Log!WriterStep(i))
                            /\ WF_logVars(shown = "log" /\ Log!Drained(i))
  /\ \A a \in Admins : WF_logVars(shown = "log" /\ Log!AdminStep(a))
  /\ WF_hubVars(shown = "hub" /\ Hub!HubStop)
  /\ \A c \in Pages :
       /\ WF_hubVars(shown = "hub" /\ Hub!ReadPump(c))
       /\ WF_hubVars(shown = "hub" /\ Hub!ReadEnds(c))
       /\ WF_hubVars(shown = "hub" /\ Hub!WritePump(c))
       /\ WF_hubVars(shown = "hub" /\ Hub!RefuseLate(c))
       /\ WF_hubVars(shown = "hub" /\ Hub!SlowEnds(c))
       /\ WF_hubVars(shown = "hub" /\ Hub!HubUnregister(c))
       /\ WF_hubVars(shown = "hub" /\ Hub!HubRegister(c))

-----------------------------------------------------------------------------
\* Every call on the log returns, although writers are stopped under it, and the
\* pumps of every page end once the server is shut down.
ConsoleProgress == Log!LogCallsReturn /\ Hub!PumpsEnd
=============================================================================
