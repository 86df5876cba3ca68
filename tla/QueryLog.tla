------------------------------ MODULE QueryLog ------------------------------
(***************************************************************************)
(* The query history of the desktop service (internal/querylog): a ring of *)
(* recent records in memory, hourly statistics, and a writer goroutine     *)
(* that appends records to one file per day.  Record runs on the DNS hot   *)
(* path and takes references under a read lock; UpdateConfig, Clear and    *)
(* Close come from the administration interface at any time.               *)
(*                                                                         *)
(* A record is the number of the query: its timestamp is its number, its   *)
(* hour the hour in which the query ended.                                 *)
(***************************************************************************)
EXTENDS Integers, FiniteSets, Sequences, SequencesExt

CONSTANTS MaxRecords,   \* bound: queries that are recorded
          FileRecords,  \* bound: queries that are recorded while there are writers
          MaxHour,      \* bound: hours that pass
          MaxWriters,   \* bound: writers that are created
          DayHours,     \* hours of a day
          Window,       \* statsWindowHours
          QueueSize,    \* writerQueueSize
          FlushLines,   \* writerFlushLines
          Blocked,      \* the records whose status is "blocked"
          Configs,      \* normalised configurations: [enabled, max, file, days]
          Admins,       \* calls of the administration interface
          None

Records == 1..MaxRecords
Writers == 1..MaxWriters
Hours == 0..MaxHour

\* What the parameters are; the module that composes the log assumes it.
LogAssumption ==
  /\ {MaxRecords, MaxWriters, DayHours, Window, QueueSize, FlushLines} \subseteq Nat \ {0}
  /\ MaxHour \in Nat
  /\ Blocked \subseteq Records
  /\ \A c \in Configs : c.enabled \in BOOLEAN /\ c.file \in BOOLEAN /\ {c.max, c.days} \subseteq Nat \ {0}

VARIABLES
  hour,      \* the clock
  cfg,       \* q.cfg
  mu,        \* the UpdateConfig call that holds q.mu, or None
  ring,      \* buf, start, size, max
  buckets,   \* hour -> the records counted in it, by status
  writer,    \* q.writer: a writer or 0
  fileOK,
  w,         \* the writers
  files,     \* day -> what is flushed to the file of that day
  rec,       \* one call of Record per record
  adm,       \* the calls of the administration interface
  recent,    \* history: what a bounded list of the newest records would hold
  counted,   \* history: records counted since the statistics were cleared
  owed,      \* history: writer -> records accepted before it was stopped
  gone       \* history: records deleted or lost to an I/O error

logVars == <<hour, cfg, mu, ring, buckets, writer, fileOK, w, files,
             rec, adm, recent, counted, owed, gone>>

Day == hour \div DayHours

NoWriter == [mode |-> "none", ch |-> <<>>, req |-> <<>>, stop |-> FALSE,
             buf |-> <<>>, day |-> -1]
NewWriter == [NoWriter EXCEPT !.mode = "start"]
EmptyRing(max) == [buf |-> [i \in 0..max-1 |-> 0], start |-> 0, size |-> 0, max |-> max]
EmptyBucket == [queries |-> 0, blocked |-> 0]

LogInit ==
  /\ hour = 0 /\ mu = None
  /\ cfg \in Configs
  /\ ring = EmptyRing(cfg.max)
  /\ buckets = << >>
  /\ fileOK = cfg.file
  /\ writer = IF cfg.file THEN 1 ELSE 0
  /\ w = [i \in Writers |-> IF i = 1 /\ cfg.file THEN NewWriter ELSE NoWriter]
  /\ files = [d \in 0..(MaxHour \div DayHours) |-> <<>>]
  /\ rec = [r \in Records |-> [pc |-> "idle", hour |-> 0, w |-> 0]]
  /\ adm = [a \in Admins |-> [pc |-> "idle", w |-> 0]]
  /\ recent = <<>> /\ counted = {} /\ owed = [i \in Writers |-> {}] /\ gone = {}

Used == Cardinality({i \in Writers : w[i].mode # "none"})

(* --- the ring ---                                                        *)

At(rg, i) == rg.buf[(rg.start + i) % rg.max]
Contents(rg) == [i \in 1..rg.size |-> At(rg, i - 1)]

MutAdd(rg, r) ==
  IF rg.size < rg.max
  THEN [rg EXCEPT !.buf[(rg.start + rg.size) % rg.max] = r, !.size = @ + 1]
  ELSE [rg EXCEPT !.buf[rg.start] = r]

Add(rg, r) ==
  IF rg.size < rg.max
  THEN [rg EXCEPT !.buf[(rg.start + rg.size) % rg.max] = r, !.size = @ + 1]
  ELSE [rg EXCEPT !.buf[rg.start] = r, !.start = (@ + 1) % rg.max]

Resize(rg, max) ==
  LET keep == IF rg.size > max THEN max ELSE rg.size
  IN  IF max = rg.max THEN rg
      ELSE [buf |-> [i \in 0..max-1 |-> IF i < keep THEN At(rg, rg.size - keep + i) ELSE 0],
            start |-> 0, size |-> keep, max |-> max]

Newest(s, n) == IF Len(s) <= n THEN s ELSE SubSeq(s, Len(s) - n + 1, Len(s))

(* --- the search ---                                                      *)

Matches(q, r) == q.blocked => r \in Blocked

\* searchAll walks from the newest record to the oldest.
Matching(q, s) == Reverse(SelectSeq(s, LAMBDA r : Matches(q, r)))
SearchAll(q) == Matching(q, Contents(ring))

\* Search over memory: one page of what the ring holds.
Page(all, offset, limit) ==
  SubSeq(all, offset + 1, IF offset + limit > Len(all) THEN Len(all) ELSE offset + limit)

MemorySearch(q) ==
  [total |-> Len(SearchAll(q)), entries |-> Page(SearchAll(q), q.offset, q.limit)]

(* --- the statistics ---                                                  *)

WindowStart == hour - (Window - 1)

MutEvict(b) ==
  IF Cardinality(DOMAIN b) <= Window + 1 THEN b
  ELSE [h \in {h \in DOMAIN b : h > WindowStart} |-> b[h]]

\* evictLocked: only a map with more buckets than the window needs is cleaned.
Evict(b) ==
  IF Cardinality(DOMAIN b) <= Window + 1 THEN b
  ELSE [h \in {h \in DOMAIN b : h >= hour - (Window + 1)} |-> b[h]]

\* The bucket of a new hour is put in before the old ones are evicted.
Count(r) ==
  LET h == rec[r].hour
      b == IF h \in DOMAIN buckets THEN buckets
           ELSE Evict([k \in DOMAIN buckets \cup {h} |->
                         IF k = h THEN EmptyBucket ELSE buckets[k]])
  IN  IF h \notin DOMAIN b THEN b
      ELSE [b EXCEPT ![h].queries = @ + 1,
                     ![h].blocked = IF r \in Blocked THEN @ + 1 ELSE @]

Total(field) ==
  LET hs == {h \in DOMAIN buckets : h >= WindowStart}
  IN  SumFunctionOnSet([h \in hs |-> buckets[h][field]], hs)

Summary == [queries |-> Total("queries"), blocked |-> Total("blocked")]

(* --- Record ---                                                          *)

RStep(r, pc) == rec' = [rec EXCEPT ![r].pc = pc]

\* The metrics callback stamps the query and Record takes its references;
\* while UpdateConfig holds q.mu it waits.
Snapshot(r) ==
  /\ rec[r].pc = "idle" /\ mu = None
  /\ r > 1 => rec[r - 1].pc # "idle"
  /\ Used = 0 \/ r <= FileRecords
  /\ rec' = [rec EXCEPT ![r] =
       IF cfg.enabled THEN [pc |-> "ring", hour |-> hour, w |-> IF fileOK THEN writer ELSE 0]
       ELSE [pc |-> "done", hour |-> 0, w |-> 0]]
  /\ UNCHANGED <<hour, cfg, mu, ring, buckets, writer, fileOK, w, files,
                 adm, recent, counted, owed, gone>>

AppendRing(r) ==
  /\ rec[r].pc = "ring" /\ RStep(r, "stat")
  /\ ring' = Add(ring, r)
  /\ recent' = Newest(Append(recent, r), ring.max)
  /\ UNCHANGED <<hour, cfg, mu, buckets, writer, fileOK, w, files, adm,
                 counted, owed, gone>>

RecordStats(r) ==
  /\ rec[r].pc = "stat"
  /\ RStep(r, IF rec[r].w = 0 THEN "done" ELSE "enqueue")
  /\ buckets' = Count(r) /\ counted' = counted \cup {r}
  /\ UNCHANGED <<hour, cfg, mu, ring, writer, fileOK, w, files, adm,
                 recent, owed, gone>>

\* enqueue never blocks: a full queue drops the record.
Enqueue(r) ==
  LET i == rec[r].w
      taken == Len(w[i].ch) < QueueSize
  IN  /\ rec[r].pc = "enqueue" /\ RStep(r, "done")
      /\ w' = IF taken THEN [w EXCEPT ![i].ch = Append(@, r)] ELSE w
      /\ owed' = IF taken /\ ~w[i].stop THEN [owed EXCEPT ![i] = @ \cup {r}] ELSE owed
      /\ UNCHANGED <<hour, cfg, mu, ring, buckets, writer, fileOK, files,
                     adm, recent, counted, gone>>

(* --- the writer goroutine ---                                            *)

WriterOnly == UNCHANGED <<hour, cfg, mu, ring, buckets, writer, fileOK,
                          rec, adm, recent, counted, owed>>

\* flush, closeFile: the buffer goes to the file it was opened for.
Flushed(i) == IF w[i].day < 0 THEN files
              ELSE [files EXCEPT ![w[i].day] = @ \o w[i].buf]

\* cleanup runs once, when the goroutine starts.
Cleanup(i) ==
  LET old == {d \in DOMAIN files : d * DayHours < hour - cfg.days * DayHours}
  IN  /\ w[i].mode = "start"
      /\ w' = [w EXCEPT ![i].mode = "run"]
      /\ files' = [d \in DOMAIN files |-> IF d \in old THEN <<>> ELSE files[d]]
      /\ gone' = gone \cup UNION {ToSet(files[d]) : d \in old}
      /\ WriterOnly

\* writeRecord: a new day closes the old file; a file that cannot be opened
\* loses the record; a full buffer is flushed.
WriteRecord(i) ==
  LET r == Head(w[i].ch)
      sameDay == w[i].day = Day
      buf == Append(IF sameDay THEN w[i].buf ELSE <<>>, r)
      before == IF sameDay THEN files ELSE Flushed(i)
      full == Len(buf) >= FlushLines
  IN  /\ w[i].mode = "run" /\ w[i].ch # <<>>
      /\ \/ /\ files' = IF full THEN [before EXCEPT ![Day] = @ \o buf] ELSE before
            /\ w' = [w EXCEPT ![i].ch = Tail(@), ![i].day = Day,
                              ![i].buf = IF full THEN <<>> ELSE buf]
            /\ UNCHANGED gone
         \/ /\ ~sameDay
            /\ files' = before /\ gone' = gone \cup {r}
            /\ w' = [w EXCEPT ![i].ch = Tail(@), ![i].day = -1, ![i].buf = <<>>]
      /\ WriterOnly

\* removeFilesLocked: the file is closed, then every file is deleted; a file
\* that cannot be deleted is reported.  The reply channel is buffered.
RemoveFilesLocked(i) ==
  LET all == Flushed(i)
      a == Head(w[i].req)
  IN  /\ w[i].mode = "run" /\ w[i].req # <<>>
      /\ w' = [w EXCEPT ![i].req = Tail(@), ![i].day = -1, ![i].buf = <<>>]
      /\ \/ /\ files' = [d \in DOMAIN files |-> <<>>]
            /\ gone' = gone \cup UNION {ToSet(all[d]) : d \in DOMAIN all}
         \/ /\ files' = all /\ UNCHANGED gone
      /\ adm' = [adm EXCEPT ![a].pc = "replied"]
      /\ UNCHANGED <<hour, cfg, mu, ring, buckets, writer, fileOK, rec,
                     recent, counted, owed>>

\* The ticker: a file of another day is closed, the buffer is flushed.
FlushTick(i) ==
  /\ w[i].mode = "run" /\ w[i].day >= 0
  /\ w[i].buf # <<>> \/ w[i].day # Day
  /\ files' = Flushed(i)
  /\ w' = [w EXCEPT ![i].buf = <<>>, ![i].day = IF @ = Day THEN @ ELSE -1]
  /\ WriterOnly /\ UNCHANGED gone

MutDrained(i) ==
  /\ w[i].mode = "run" /\ w[i].stop
  /\ files' = Flushed(i)
  /\ w' = [w EXCEPT ![i].mode = "done", ![i].buf = <<>>, ![i].day = -1]
  /\ WriterOnly /\ UNCHANGED gone

\* The stopped writer drains the queue, flushes and closes done: it ends with
\* an empty queue and without a look at the requests that are left.
Drained(i) ==
  /\ w[i].mode = "run" /\ w[i].stop /\ w[i].ch = <<>>
  /\ files' = Flushed(i)
  /\ w' = [w EXCEPT ![i].mode = "done", ![i].buf = <<>>, ![i].day = -1]
  /\ WriterOnly /\ UNCHANGED gone

(* --- UpdateConfig, Clear, Close ---                                      *)

\* initWriterLocked: the directory may not be writable.
InitWriter(c, used) ==
  \/ /\ c.file /\ used < MaxWriters
     /\ writer' = used + 1 /\ fileOK' = TRUE
     /\ w' = [w EXCEPT ![used + 1] = NewWriter]
  \/ writer' = 0 /\ fileOK' = FALSE /\ UNCHANGED w

\* UpdateConfig up to the close of the old writer.  The lock is kept while
\* that writer drains its queue.
UpdateConfig(a, c) ==
  LET reinit == (writer = 0) # ~c.file \/ (writer # 0 /\ cfg.days # c.days)
  IN  /\ adm[a].pc = "idle" /\ mu = None
      /\ cfg' = c
      /\ ring' = Resize(ring, c.max) /\ recent' = Newest(recent, c.max)
      /\ \/ /\ ~reinit
            /\ adm' = [adm EXCEPT ![a].pc = "done"]
            /\ UNCHANGED <<mu, writer, fileOK, w>>
         \/ /\ reinit /\ writer = 0
            /\ InitWriter(c, Used)
            /\ adm' = [adm EXCEPT ![a].pc = "done"]
            /\ UNCHANGED mu
         \/ /\ reinit /\ writer # 0
            /\ mu' = a
            /\ w' = [w EXCEPT ![writer].stop = TRUE]
            /\ adm' = [adm EXCEPT ![a].pc = "reinit", ![a].w = writer]
            /\ UNCHANGED <<writer, fileOK>>
      /\ UNCHANGED <<hour, buckets, files, rec, counted, owed, gone>>

Reinit(a) ==
  /\ adm[a].pc = "reinit" /\ w[adm[a].w].mode = "done"
  /\ InitWriter(cfg, Used)
  /\ mu' = None
  /\ adm' = [adm EXCEPT ![a].pc = "done", ![a].w = 0]
  /\ UNCHANGED <<hour, cfg, ring, buckets, files, rec, recent, counted,
                 owed, gone>>

\* Clear takes its references, empties the ring, then the statistics.
Clear(a) ==
  /\ adm[a].pc = "idle" /\ mu = None
  /\ adm' = [adm EXCEPT ![a].pc = "clearStats", ![a].w = IF fileOK THEN writer ELSE 0]
  /\ ring' = EmptyRing(ring.max) /\ recent' = <<>>
  /\ UNCHANGED <<hour, cfg, mu, buckets, writer, fileOK, w, files, rec,
                 counted, owed, gone>>

ClearStats(a) ==
  /\ adm[a].pc = "clearStats"
  /\ adm' = [adm EXCEPT ![a].pc = IF adm[a].w = 0 THEN "done" ELSE "request"]
  /\ buckets' = << >> /\ counted' = {}
  /\ UNCHANGED <<hour, cfg, mu, ring, writer, fileOK, w, files, rec,
                 recent, owed, gone>>

\* removeFiles: the request channel holds one request.
Request(a) ==
  LET i == adm[a].w
  IN  /\ adm[a].pc = "request"
      /\ \/ /\ w[i].req = <<>>
            /\ w' = [w EXCEPT ![i].req = <<a>>]
            /\ adm' = [adm EXCEPT ![a].pc = "reply"]
         \/ /\ w[i].mode = "done"
            /\ adm' = [adm EXCEPT ![a].pc = "done"] /\ UNCHANGED w
      /\ UNCHANGED <<hour, cfg, mu, ring, buckets, writer, fileOK, files,
                     rec, recent, counted, owed, gone>>

MutReply(a) ==
  /\ adm[a].pc = "replied"
  /\ adm' = [adm EXCEPT ![a].pc = "done"]
  /\ UNCHANGED <<hour, cfg, mu, ring, buckets, writer, fileOK, w, files,
                 rec, recent, counted, owed, gone>>

\* The caller waits for the reply or for the end of the writer.
Reply(a) ==
  /\ \/ adm[a].pc = "replied"
     \/ adm[a].pc = "reply" /\ w[adm[a].w].mode = "done"
  /\ adm' = [adm EXCEPT ![a].pc = "done"]
  /\ UNCHANGED <<hour, cfg, mu, ring, buckets, writer, fileOK, w, files,
                 rec, recent, counted, owed, gone>>

\* Close takes the writer away and stops it without the lock.
Close(a) ==
  /\ adm[a].pc = "idle" /\ mu = None
  /\ writer' = 0
  /\ w' = IF writer = 0 THEN w ELSE [w EXCEPT ![writer].stop = TRUE]
  /\ adm' = [adm EXCEPT ![a].pc = IF writer = 0 THEN "done" ELSE "closing", ![a].w = writer]
  /\ UNCHANGED <<hour, cfg, mu, ring, buckets, fileOK, files, rec,
                 recent, counted, owed, gone>>

Closed(a) ==
  /\ adm[a].pc = "closing" /\ w[adm[a].w].mode = "done"
  /\ adm' = [adm EXCEPT ![a].pc = "done"]
  /\ UNCHANGED <<hour, cfg, mu, ring, buckets, writer, fileOK, w, files,
                 rec, recent, counted, owed, gone>>

\* Bound: where there are writers the clock crosses one midnight, after the
\* first record and before the last.
HourPasses ==
  /\ hour < MaxHour
  /\ Used > 0 => hour < DayHours /\ rec[1].pc = "done" /\ rec[FileRecords].pc = "idle"
  /\ hour' = hour + 1
  /\ UNCHANGED <<cfg, mu, ring, buckets, writer, fileOK, w, files, rec,
                 adm, recent, counted, owed, gone>>

RecordStep(r) == AppendRing(r) \/ RecordStats(r) \/ Enqueue(r)
WriterStep(i) == Cleanup(i) \/ WriteRecord(i) \/ RemoveFilesLocked(i) \/ FlushTick(i)
\* Bound: a log that starts without files stays without them and sees one
\* call; where there are writers to race for, every call may come.
Begins(a) ==
  /\ Used > 0 \/ \A b \in Admins : adm[b].pc = "idle"
  /\ \/ Clear(a) \/ Close(a)
     \/ \E c \in Configs : (c.file => Used > 0) /\ UpdateConfig(a, c)
AdminStep(a) == Reinit(a) \/ ClearStats(a) \/ Request(a) \/ Reply(a) \/ Closed(a)

LogNext ==
  \/ \E r \in Records : Snapshot(r) \/ RecordStep(r)
  \/ \E i \in Writers : WriterStep(i) \/ Drained(i)
  \/ \E a \in Admins : Begins(a) \/ AdminStep(a)
  \/ HourPasses

LogSpec == LogInit /\ [][LogNext]_logVars

\* Goroutines that can move do; a select with several ready cases picks each
\* of them sooner or later.  No query and no administrator need ever come.
LogFairness ==
  /\ \A r \in Records : WF_logVars(RecordStep(r))
  /\ \A i \in Writers : WF_logVars(WriterStep(i)) /\ WF_logVars(Drained(i))
  /\ \A a \in Admins : WF_logVars(AdminStep(a))

(* --- properties ---                                                      *)

LogTypeOK ==
  /\ hour \in Hours /\ cfg \in Configs
  /\ ring.start \in 0..ring.max-1 /\ ring.size \in 0..ring.max
  /\ ring.max = cfg.max
  /\ DOMAIN buckets \subseteq Hours
  /\ writer \in Writers \cup {0}
  /\ \A i \in Writers : Len(w[i].ch) <= QueueSize /\ Len(w[i].req) <= 1

\* Pages of any size over memory, put together, are exactly the newest
\* records in the order in which they came, newest first, whatever wrapped,
\* shrank, grew or cleared the ring (ring.go:29-84, querylog.go:88-132).
PagesAreTheHistory ==
  \A b \in BOOLEAN : \A limit \in 1..2 : \A offset \in 0..ring.size :
    LET q == [blocked |-> b, offset |-> offset, limit |-> limit]
        newestFirst == Matching(q, recent)
    IN  MemorySearch(q) = [total |-> Len(newestFirst),
                           entries |-> Page(newestFirst, offset, limit)]

\* The summary counts every record of the last Window hours once and no
\* other: eviction never takes a bucket the window still needs, and a late
\* record lands in its own hour (stats.go:75-174).
SummaryIsExact ==
  LET inWindow == {r \in counted : rec[r].hour >= WindowStart}
  IN  Summary = [queries |-> Cardinality(inWindow),
                 blocked |-> Cardinality(inWindow \cap Blocked)]

\* A writer that has ended left on disk all it had accepted before it was
\* stopped, except what was deleted or could not be written
\* (writer.go:124-137).
StoppedWriterHasWritten ==
  \A i \in Writers : w[i].mode = "done" =>
    owed[i] \subseteq gone \cup UNION {ToSet(files[d]) : d \in DOMAIN files}

\* Every call returns: nobody waits for ever for a reply of a writer that was
\* stopped in between, nor for q.mu (writer.go:254-297).
LogCallsReturn ==
  /\ \A a \in Admins : []<>(adm[a].pc \in {"idle", "done"})
  /\ \A r \in Records : []<>(rec[r].pc \in {"idle", "done"})
=============================================================================
