-------------------------- MODULE AndroidTelemetry --------------------------
(***************************************************************************)
(* Four helpers of the Android engine that share no state with each other: *)
(*   "log"     the aggregator that batches query logs for Kotlin;          *)
(*   "traffic" the per-app byte counters and their periodic report;        *)
(*   "tun"     the asynchronous writer between the stack and the TUN;      *)
(*   "policy"  the handles of the native rule snapshots.                   *)
(* Every behaviour follows one of them (focus).                            *)
(***************************************************************************)
EXTENDS Naturals, FiniteSets, Sequences

CONSTANTS LogDepth, HighWater, BatchSize,   \* log_aggregator.go:34-37
          MaxLogs,      \* bound: logs pushed, bytes recorded, packets sent
          MaxStarts,    \* bound: starts of the aggregator, interface flaps
          TunDepth, Attempts,               \* engine_full_tunnel.go:48,55
          Handles,      \* native snapshots that may be built
          Queries,      \* policy queries
          None

VARIABLES focus, log, traffic, tun, policy

vars == <<focus, log, traffic, tun, policy>>

Agents == 1..MaxStarts
Tickers == {"goroutine", "stop"}

(* --- log aggregator ---                                                  *)

NoAgent == [pc |-> "none", batch |-> 0, armed |-> FALSE]
NewLog == [q |-> <<>>, running |-> FALSE, starts |-> 0, pushed |-> 0,
           dropped |-> 0, agent |-> [a \in Agents |-> NoAgent]]

\* push: connection logs are shed above the high-water mark, anything is
\* shed when the channel is full.
Push(kind) ==
  /\ log.pushed < MaxLogs
  /\ LET shed == \/ kind = "connection" /\ Len(log.q) >= HighWater
                 \/ Len(log.q) = LogDepth
     IN  log' = [log EXCEPT !.pushed = @ + 1,
                   !.dropped = IF shed THEN @ + 1 ELSE @,
                   !.q = IF shed THEN @ ELSE Append(@, kind)]

\* start: each run is a goroutine of its own with its own batch.
StartLog ==
  /\ ~log.running /\ log.starts < MaxStarts
  /\ log' = [log EXCEPT !.running = TRUE, !.starts = @ + 1,
               !.agent[log.starts + 1].pc = "run"]

StopLog == log.running /\ log' = [log EXCEPT !.running = FALSE]

\* The latest goroutine runs until stopped; older ones have been stopped.
Stopped(a) == a < log.starts \/ ~log.running

\* The timer is armed only by an empty batch that stays partial.
MutReceive(a) ==
  /\ log.agent[a].pc = "run" /\ log.q # <<>>
  /\ LET n == log.agent[a].batch + 1
     IN  log' = [log EXCEPT !.q = Tail(@),
                   !.agent[a].batch = IF n >= BatchSize THEN 0 ELSE n,
                   !.agent[a].armed = @ \/ n >= BatchSize]

\* One log moves into the batch; a full batch is flushed, a partial one
\* arms the timer.
Receive(a) ==
  /\ log.agent[a].pc = "run" /\ log.q # <<>>
  /\ LET n == log.agent[a].batch + 1
     IN  log' = [log EXCEPT !.q = Tail(@),
                   !.agent[a].batch = IF n >= BatchSize THEN 0 ELSE n,
                   !.agent[a].armed = @ \/ n < BatchSize]

Flush(a) ==
  /\ log.agent[a].pc = "run" /\ log.agent[a].armed
  /\ log' = [log EXCEPT !.agent[a].batch = 0, !.agent[a].armed = FALSE]

\* On stop the channel is drained and the rest is flushed.
Drain(a) ==
  /\ log.agent[a].pc = "run" /\ Stopped(a)
  /\ log' = [log EXCEPT !.agent[a].pc = "drain"]

DrainStep(a) ==
  /\ log.agent[a].pc = "drain"
  /\ LET n == log.agent[a].batch + 1
     IN  log' = IF log.q # <<>>
                THEN [log EXCEPT !.q = Tail(@),
                        !.agent[a].batch = IF n >= BatchSize THEN 0 ELSE n]
                ELSE [log EXCEPT !.agent[a] = NoAgent]

LogStep(a) == Receive(a) \/ Flush(a) \/ Drain(a) \/ DrainStep(a)
LogNext == \/ \E kind \in {"dns", "connection"} : Push(kind)
           \/ StartLog \/ StopLog \/ \E a \in Agents : LogStep(a)

(* --- traffic tracker ---                                                 *)

NewTraffic == [seen |-> 0, delta |-> 0, reported |-> 0, cb |-> FALSE,
               pend |-> [t \in Tickers |-> 0]]

\* countingConn.Read and Write, RecordTx, RecordRx: an atomic add.
Record ==
  /\ traffic.seen < MaxLogs
  /\ traffic' = [traffic EXCEPT !.seen = @ + 1, !.delta = @ + 1]

SetCallback == traffic' = [traffic EXCEPT !.cb = ~@]

\* The counter is read but not swapped to zero.
MutTick(t) ==
  /\ traffic.cb /\ traffic.delta > 0 /\ traffic.pend[t] = 0
  /\ traffic' = [traffic EXCEPT !.pend[t] = traffic.delta]

\* tick, under the read lock: with no callback nothing is touched.
Tick(t) ==
  /\ traffic.cb /\ traffic.delta > 0 /\ traffic.pend[t] = 0
  /\ traffic' = [traffic EXCEPT !.pend[t] = traffic.delta, !.delta = 0]

\* The report goes out after the lock is dropped.
Report(t) ==
  /\ traffic.pend[t] > 0
  /\ traffic' = [traffic EXCEPT !.pend[t] = 0,
                   !.reported = @ + traffic.pend[t]]

TrafficNext == Record \/ SetCallback \/ \E t \in Tickers : Tick(t) \/ Report(t)

(* --- buffered TUN writer ---                                             *)

NewTun == [out |-> 0, sent |-> 0, pc |-> "select", healthy |-> TRUE,
           attempt |-> 0, budget |-> 0, up |-> TRUE, flaps |-> 0,
           halted |-> FALSE]

\* enqueue never blocks: a full queue drops the packet.
Queued(out) == IF out < TunDepth THEN out + 1 ELSE out

\* The network stack hands over a packet (WritePackets, Write).
Enqueue ==
  /\ tun.sent < MaxLogs
  /\ tun' = [tun EXCEPT !.sent = @ + 1, !.out = Queued(@)]

\* drain takes a packet; an unhealthy interface is probed once.
Take ==
  /\ tun.pc = "select" /\ tun.out > 0
  /\ tun' = [tun EXCEPT !.out = @ - 1, !.pc = "write", !.attempt = 1,
               !.budget = IF tun.healthy THEN Attempts ELSE 1]

\* The old bug: a write that fails for good ends the writer.
MutWriteTun ==
  /\ tun.pc = "write"
  /\ tun' = IF tun.up THEN [tun EXCEPT !.pc = "select", !.healthy = TRUE]
            ELSE IF tun.attempt >= tun.budget
            THEN [tun EXCEPT !.pc = "gone", !.healthy = FALSE]
            ELSE [tun EXCEPT !.pc = "wait"]

\* writeWithRetry: written, retried after a wait, or dropped with the
\* writer kept alive.
WriteTun ==
  /\ tun.pc = "write"
  /\ tun' = IF tun.up THEN [tun EXCEPT !.pc = "select", !.healthy = TRUE]
            ELSE IF tun.attempt >= tun.budget
            THEN [tun EXCEPT !.pc = "select", !.healthy = FALSE]
            ELSE [tun EXCEPT !.pc = "wait"]

Retry == /\ tun.pc = "wait"
         /\ tun' = [tun EXCEPT !.pc = "write", !.attempt = @ + 1]

HaltTun == ~tun.halted /\ tun' = [tun EXCEPT !.halted = TRUE]
WriterEnds == /\ tun.halted /\ tun.pc \in {"select", "wait"}
              /\ tun' = [tun EXCEPT !.pc = "gone"]

Flap == /\ tun.flaps < MaxStarts
        /\ tun' = [tun EXCEPT !.up = ~@,
                     !.flaps = IF tun.up THEN @ + 1 ELSE @]

TunStep == Take \/ WriteTun \/ Retry \/ WriterEnds
TunNext == Enqueue \/ TunStep \/ HaltTun \/ Flap

(* --- native policy snapshots ---                                         *)

NoQuery == [pc |-> "idle", h |-> None]
NewPolicy == [cur |-> None, built |-> {}, freed |-> {}, released |-> {},
              warm |-> {}, timer |-> {}, wait |-> {},
              query |-> [q \in Queries |-> NoQuery]]

\* The release timer of the new handle is set instead of the old one's.
MutApplySnapshot(h) ==
  /\ h \notin policy.built
  /\ policy' = [policy EXCEPT !.built = @ \cup {h}, !.cur = h,
       !.warm = IF policy.cur = None THEN @
                ELSE @ \cup {{h, policy.cur}},
       !.timer = IF policy.cur = None THEN @ ELSE @ \cup {h}]

\* applySnapshot: built outside the lock, swapped in under it with both
\* handles pinned for the prewarm; the old one is released later.
ApplySnapshot(h) ==
  /\ h \notin policy.built
  /\ policy' = [policy EXCEPT !.built = @ \cup {h}, !.cur = h,
       !.warm = IF policy.cur = None THEN @
                ELSE @ \cup {{h, policy.cur}},
       !.timer = IF policy.cur = None THEN @ ELSE @ \cup {policy.cur}]

Prewarmed(w) ==
  w \in policy.warm /\ policy' = [policy EXCEPT !.warm = @ \ {w}]

\* close: an empty snapshot is published, then the old one is released.
ClosePolicy ==
  /\ policy.cur # None
  /\ policy' = [policy EXCEPT !.cur = None, !.freed = @ \cup {policy.cur},
                  !.wait = @ \cup {policy.cur}]

\* release, two seconds after the swap: freed.Swap(true).
ReleaseTimer(h) ==
  /\ h \in policy.timer
  /\ policy' = [policy EXCEPT !.timer = @ \ {h}, !.freed = @ \cup {h},
                  !.wait = @ \cup {h}]

\* release frees the handle when no call is in flight or when its second of
\* waiting is over, so it may happen at any moment.
Free(h) ==
  /\ h \in policy.wait
  /\ policy' = [policy EXCEPT !.wait = @ \ {h}, !.released = @ \cup {h}]

\* evaluate: the snapshot is loaded, freed is read, the handle is pinned and
\* the library is entered, in that order.
Evaluate(q) ==
  LET h == policy.query[q].h
      pc == policy.query[q].pc
  IN  \/ /\ pc = "idle" /\ policy.cur # None
         /\ policy' = [policy EXCEPT !.query[q] =
                         [pc |-> "loaded", h |-> policy.cur]]
      \/ /\ pc = "loaded"
         /\ policy' = [policy EXCEPT !.query[q] =
              IF h \in policy.freed THEN NoQuery
              ELSE [pc |-> "checked", h |-> h]]
      \/ /\ pc = "checked"
         /\ policy' = [policy EXCEPT !.query[q].pc = "inside"]
      \/ /\ pc = "inside" /\ policy' = [policy EXCEPT !.query[q] = NoQuery]

PolicyNext ==
  \/ ClosePolicy
  \/ \E h \in Handles : ApplySnapshot(h) \/ ReleaseTimer(h) \/ Free(h)
  \/ \E w \in policy.warm : Prewarmed(w)
  \/ \E q \in Queries : Evaluate(q)

(* --- the specification ---                                               *)

Init ==
  /\ focus \in {"log", "traffic", "tun", "policy"}
  /\ log = NewLog /\ traffic = NewTraffic /\ tun = NewTun
  /\ policy = NewPolicy

Next ==
  \/ focus = "log" /\ LogNext /\ UNCHANGED <<focus, traffic, tun, policy>>
  \/ focus = "traffic" /\ TrafficNext /\ UNCHANGED <<focus, log, tun, policy>>
  \/ focus = "tun" /\ TunNext /\ UNCHANGED <<focus, log, traffic, policy>>
  \/ focus = "policy" /\ PolicyNext /\ UNCHANGED <<focus, log, traffic, tun>>

\* The goroutines of the aggregator and of the writer keep running.
Fairness ==
  /\ \A a \in Agents :
       WF_log(focus = "log" /\ LogStep(a)
                /\ UNCHANGED <<focus, traffic, tun, policy>>)
  /\ WF_tun(focus = "tun" /\ TunStep
              /\ UNCHANGED <<focus, log, traffic, policy>>)

Spec == Init /\ [][Next]_vars /\ Fairness

TypeOK ==
  /\ Len(log.q) <= LogDepth /\ log.dropped <= log.pushed
  /\ \A a \in Agents : log.agent[a].batch \in 0..(BatchSize - 1)
  /\ tun.out \in 0..TunDepth /\ tun.budget \in 0..Attempts
  /\ policy.released \subseteq policy.freed

(* --- properties ---                                                      *)

\* Every query log that was accepted reaches the callback: the flush timer
\* is armed exactly while a partial batch is pending, and a stopped
\* goroutine drains what is left (log_aggregator.go:108-147, 148-163).
LogsFlushed ==
  []<>(\/ ~log.running
       \/ log.q = <<>> /\ \A a \in Agents : log.agent[a].batch = 0)

\* No byte is reported twice or lost, although the periodic tick and the
\* one Stop makes overlap each other and the connections that count.
BytesOnce ==
  traffic.reported + traffic.delta + traffic.pend["goroutine"]
    + traffic.pend["stop"] = traffic.seen

\* The writer outlives write errors: once the interface is up, the queue
\* drains (engine_full_tunnel.go:110-116).
TunRecovers == []<>(tun.halted \/ ~tun.up \/ tun.out = 0)

\* The published snapshot is never one that was released.
PublishedIsLive == policy.cur \notin policy.freed
============================================================================
