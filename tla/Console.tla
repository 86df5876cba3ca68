------------------------------ MODULE Console ------------------------------
(***************************************************************************)
(* What the console shows: the query log, and the hub that sends events to *)
(* the pages that are open.  The two share no variable; shown names the    *)
(* one whose steps a behaviour makes, and the other keeps its initial      *)
(* value.  The listener of the console is in ServiceParts.                 *)
(***************************************************************************)
EXTENDS Integers

CONSTANTS
  MaxRecords, FileRecords, MaxHour, MaxWriters, DayHours, Window, QueueSize, \* QueryLog
  FlushLines, Blocked, LogConfigs, Admins, NoCall,
  Pages, SendCap, EventCap, MaxEvents, Addresses                           \* WebServer

VARIABLES
  shown,
  logHour, logCfg, logMu, logRing, logBuckets, logWriter, logFileOK,      \* QueryLog
  logWriters, logFiles, logRec, logAdm, logRecent, logCounted, logOwed, logGone,
  hubStop, hubRuns, hubPages, hubQueue, hubEvents, hubSub, hubPanicked,   \* WebServer
  webCfg, webServers, ipcServer, webTask, webOverlap, bindFaults

logVars == <<logHour, logCfg, logMu, logRing, logBuckets, logWriter, logFileOK, logWriters,
             logFiles, logRec, logAdm, logRecent, logCounted, logOwed, logGone>>
hubVars == <<hubStop, hubRuns, hubPages, hubQueue, hubEvents, hubSub, hubPanicked,
             webCfg, webServers, ipcServer, webTask, webOverlap, bindFaults>>

Log == INSTANCE QueryLog WITH
  Configs <- LogConfigs, None <- NoCall,
  hour <- logHour, cfg <- logCfg, mu <- logMu, ring <- logRing,
  buckets <- logBuckets, writer <- logWriter, fileOK <- logFileOK, w <- logWriters,
  files <- logFiles, rec <- logRec, adm <- logAdm, recent <- logRecent,
  counted <- logCounted, owed <- logOwed, gone <- logGone

\* The hub alone: no call moves the listener.
Hub == INSTANCE WebServer WITH
  Subs <- Pages, Tasks <- {}, MaxBindFaults <- 0,
  stopCh <- hubStop, hub <- hubRuns, clients <- hubPages, queue <- hubQueue,
  events <- hubEvents, sub <- hubSub, panicked <- hubPanicked,
  servers <- webServers, task <- webTask, overlap <- webOverlap

ASSUME ConsoleAssumption == Log!LogAssumption

-----------------------------------------------------------------------------
ConsoleInit == Log!LogInit /\ Hub!WebInit

ConsoleNext ==
  /\ UNCHANGED shown
  /\ IF shown = "log" THEN Log!LogNext ELSE UNCHANGED logVars
  /\ IF shown = "hub" THEN Hub!HubNext ELSE UNCHANGED hubVars

ConsoleSpec == ConsoleInit /\ [][ConsoleNext]_<<shown, logVars, hubVars>>

-----------------------------------------------------------------------------
\* The log shows exactly what happened: its pages are the newest records in
\* order, its summary counts each record of the window once, and a writer that
\* ended has written what it had accepted (querylog/ring.go, stats.go, writer.go);
\* and the hub never sends on or closes a closed channel (ipc/server_ws.go).
LogIsExact ==
  /\ Log!LogTypeOK /\ Log!PagesAreTheHistory /\ Log!SummaryIsExact
  /\ Log!StoppedWriterHasWritten
  /\ Hub!HubNeverPanics
=============================================================================
