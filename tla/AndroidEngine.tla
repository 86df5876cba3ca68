--------------------------- MODULE AndroidEngine ---------------------------
(***************************************************************************)
(* The session life cycle of the Android engine: StartFull, which blocks   *)
(* for the whole VPN session; Stop and ReleaseTun, which other threads     *)
(* call at any moment; the standalone DNS listener; and the start and stop *)
(* of the two telemetry goroutines (log aggregator, traffic tracker).      *)
(*                                                                         *)
(* e.mu protects the engine's fields; every critical section is one step   *)
(* and everything a call does between two of them is a step of its own, so *)
(* the calls interleave exactly where the code lets go of the lock.  An    *)
(* engine is driven either as a VPN or as a DNS server (mode): the Android *)
(* services build a new engine for each.                                   *)
(***************************************************************************)
EXTENDS Naturals, FiniteSets, SequencesExt

CONSTANTS Calls,      \* StartFull or StartStandalone calls
          Stops,      \* Stop or StopStandalone calls
          StartOrder, \* the telemetry goroutines as StartFull starts them
          None

VARIABLES mode,       \* "full" or "standalone"
          eng,        \* the fields under e.mu
          call,       \* the progress of each start call and what it owns
          stop,       \* the progress of each stop call and what it took
          tele,       \* the aggregator and the tracker: running, stopChan
          dead        \* the process panicked

vars == <<mode, eng, call, stop, tele, dead>>

\* Both the log aggregator and the traffic tracker start and stop the same
\* way; they are stopped in the opposite order.
Telemetry == Range(StartOrder)
StopOrder == Reverse(StartOrder)

TypeOK ==
  /\ mode \in {"full", "standalone"}
  /\ eng \in [running: BOOLEAN, gen: 0..Cardinality(Stops),
              stack: Calls \cup {None}, tun: Calls \cup {None},
              done: Calls \cup {None}, res: Calls \cup {None},
              srv: Calls \cup {None}]
  /\ \A c \in Calls :
       /\ call[c].stack \in {"none", "new", "on", "off"}
       /\ call[c].fd \in {"none", "open", "closed"}
       /\ call[c].writer \in {"none", "on", "halted"}
       /\ call[c].done \in {"none", "open", "closed"}
       /\ call[c].res \in {"none", "live", "down"}
       /\ call[c].srv \in {"none", "bound", "serving", "closed"}
  /\ \A x \in Telemetry : tele[x].chan \in {"nil", "open", "closed"}
  /\ dead \in BOOLEAN

NoCall == [pc |-> "idle", gen |-> 0, fd |-> "none", writer |-> "none",
           stack |-> "none", done |-> "none", res |-> "none",
           srv |-> "none", old |-> None, oldRes |-> None, i |-> 1]
NoStop == [pc |-> "idle", stack |-> None, done |-> None, res |-> None,
           srv |-> None, i |-> 1]

\* NewEngine: nothing runs, no channel has been made.
NewEngine == [running |-> FALSE, gen |-> 0, stack |-> None, tun |-> None,
              done |-> None, res |-> None, srv |-> None]

Init ==
  /\ mode \in {"full", "standalone"}
  /\ eng = NewEngine
  /\ call = [c \in Calls |-> NoCall]
  /\ stop = [s \in Stops |-> NoStop]
  /\ tele = [x \in Telemetry |-> [running |-> FALSE, chan |-> "nil"]]
  /\ dead = FALSE

At(c, pc) == ~dead /\ call[c].pc = pc
StopAt(s, pc) == ~dead /\ stop[s].pc = pc
Goto(c, pc) == call' = [call EXCEPT ![c].pc = pc]
StopGoto(s, pc) == stop' = [stop EXCEPT ![s].pc = pc]

(* --- telemetry: start and stop are guarded by running.Swap only ---      *)

\* start, first half: running.Swap(true).
SwapOn(x) == tele' = [tele EXCEPT ![x].running = TRUE]
\* start, second half: the stop channel is made after the swap.
MakeChan(x) == tele' = [tele EXCEPT ![x].chan = "open"]
\* stop, first half: running.Swap(false).
SwapOff(x) == tele' = [tele EXCEPT ![x].running = FALSE]
\* stop, second half: close of a nil or of a closed channel panics.
CloseChan(x) ==
  IF tele[x].chan = "open"
  THEN tele' = [tele EXCEPT ![x].chan = "closed"] /\ UNCHANGED dead
  ELSE dead' = TRUE /\ UNCHANGED tele

(* --- StartFull ---                                                       *)

\* Under e.mu: a second call returns at once; otherwise the session's
\* resolver, outbound and done channel are installed and the generation is
\* pinned.
StartFull(c) ==
  /\ mode = "full" /\ At(c, "idle")
  /\ IF eng.running
     THEN Goto(c, "ended") /\ UNCHANGED eng
     ELSE /\ eng' = [eng EXCEPT !.running = TRUE, !.done = c, !.res = c]
          /\ call' = [call EXCEPT ![c].pc = "build", ![c].gen = eng.gen,
                        ![c].done = "open", ![c].res = "live"]
  /\ UNCHANGED <<mode, stop, tele, dead>>

\* The generation check dropped: any running session counts as this one.
MutStillCurrent(c) == eng.running

StillCurrent(c) == eng.running /\ eng.gen = call[c].gen

\* fail: the engine is marked stopped only by the session that owns it.
Fail(c) ==
  /\ At(c, "failed")
  /\ eng' = IF StillCurrent(c)
            THEN [eng EXCEPT !.running = FALSE, !.done = None] ELSE eng
  /\ Goto(c, "ended")
  /\ UNCHANGED <<mode, stop, tele, dead>>

\* dup of the descriptor fails, or the stack and the TUN writer are built.
Build(c) ==
  /\ At(c, "build")
  /\ \/ Goto(c, "failed")
     \/ call' = [call EXCEPT ![c].pc = "publish", ![c].fd = "open",
                   ![c].stack = "new", ![c].writer = "on"]
  /\ UNCHANGED <<mode, eng, stop, tele, dead>>

\* Under e.mu: the slots are claimed only by the current session.
Publish(c) ==
  /\ At(c, "publish")
  /\ IF StillCurrent(c)
     THEN /\ eng' = [eng EXCEPT !.tun = c, !.stack = c]
          /\ Goto(c, "start")
     ELSE /\ call' = [call EXCEPT ![c].pc = "ended", ![c].writer = "halted",
                        ![c].fd = "closed"]
          /\ UNCHANGED eng
  /\ UNCHANGED <<mode, stop, tele, dead>>

ClearSlots(c) ==
  [eng EXCEPT !.stack = IF @ = c THEN None ELSE @,
              !.tun = IF @ = c THEN None ELSE @]

\* StartWithEndpoint, outside the engine's lock.
StartStack(c) ==
  /\ At(c, "start")
  /\ \/ call' = [call EXCEPT ![c].pc = "swapOn", ![c].stack = "on"]
        /\ UNCHANGED eng
     \/ /\ call' = [call EXCEPT ![c].pc = "failed", ![c].writer = "halted",
                      ![c].fd = "closed"]
        /\ eng' = ClearSlots(c)
  /\ UNCHANGED <<mode, stop, tele, dead>>

\* trafficTracker.Start, then logAggregator.start: a running one is left
\* alone, otherwise the swap and the channel are two steps.
StartTele(c) ==
  LET x == StartOrder[call[c].i]
      next == IF call[c].i < Len(StartOrder)
              THEN [call[c] EXCEPT !.pc = "swapOn", !.i = @ + 1]
              ELSE [call[c] EXCEPT !.pc = "wait", !.i = 1]
  IN  /\ \/ /\ At(c, "swapOn") /\ tele[x].running
            /\ call' = [call EXCEPT ![c] = next] /\ UNCHANGED tele
         \/ /\ At(c, "swapOn") /\ ~tele[x].running
            /\ SwapOn(x) /\ Goto(c, "make")
         \/ /\ At(c, "make")
            /\ MakeChan(x) /\ call' = [call EXCEPT ![c] = next]
      /\ UNCHANGED <<mode, eng, stop, dead>>

\* <-done: the session blocks until somebody closes its channel.
Wait(c) ==
  /\ At(c, "wait") /\ call[c].done = "closed"
  /\ Goto(c, "swapOff")
  /\ UNCHANGED <<mode, eng, stop, tele, dead>>

\* After <-done: logAggregator.stop, then trafficTracker.Stop.
TailTele(c) ==
  LET x == StopOrder[call[c].i]
      next == IF call[c].i < Len(StartOrder)
              THEN [call[c] EXCEPT !.pc = "swapOff", !.i = @ + 1]
              ELSE [call[c] EXCEPT !.pc = "halt", !.i = 1]
  IN  /\ \/ /\ At(c, "swapOff") /\ ~tele[x].running
            /\ call' = [call EXCEPT ![c] = next] /\ UNCHANGED <<tele, dead>>
         \/ /\ At(c, "swapOff") /\ tele[x].running
            /\ SwapOff(x) /\ Goto(c, "chan") /\ UNCHANGED dead
         \/ /\ At(c, "chan")
            /\ CloseChan(x) /\ call' = [call EXCEPT ![c] = next]
      /\ UNCHANGED <<mode, eng, stop>>

StackStop(s) == IF s = "on" THEN "off" ELSE s

\* The stack left to whoever took it from the slot.
MutHalt(c) ==
  /\ At(c, "halt")
  /\ call' = [call EXCEPT ![c].pc = "clear", ![c].writer = "halted"]
  /\ UNCHANGED <<mode, eng, stop, tele, dead>>

\* btun.halt and stack.Stop of the session's own stack.
Halt(c) ==
  /\ At(c, "halt")
  /\ call' = [call EXCEPT ![c].pc = "clear", ![c].writer = "halted",
                ![c].stack = StackStop(@)]
  /\ UNCHANGED <<mode, eng, stop, tele, dead>>

\* Under e.mu: the slots are emptied if they still hold this session.
Clear(c) ==
  /\ At(c, "clear")
  /\ eng' = ClearSlots(c)
  /\ Goto(c, "ended")
  /\ UNCHANGED <<mode, stop, tele, dead>>

(* --- Stop ---                                                            *)

CloseFd(cs, c) ==
  IF c = None THEN cs ELSE [cs EXCEPT ![c].fd = "closed"]

\* Stop, under e.mu: the generation moves on, the slots are taken over and
\* the TUN descriptor is closed.
Stop(s) ==
  /\ StopAt(s, "idle")
  /\ eng' = [NewEngine EXCEPT !.gen = eng.gen + 1]
  /\ stop' = [stop EXCEPT ![s] = [pc |-> "shut", stack |-> eng.stack,
                done |-> eng.done, res |-> eng.res, srv |-> eng.srv, i |-> 1]]
  /\ call' = CloseFd(call, eng.tun)
  /\ UNCHANGED <<mode, tele, dead>>

\* miekg's Shutdown refuses a server that is not serving yet.
Shutdown(cs, srv, res) ==
  [c \in Calls |->
    [cs[c] EXCEPT
      !.srv = IF c = srv /\ @ = "serving" THEN "closed" ELSE @,
      !.res = IF c = res THEN "down" ELSE @]]

\* The listeners are shut down, then the resolver; StopStandalone (i = 0)
\* ends here.
StopShutdown(s) ==
  /\ StopAt(s, "shut")
  /\ call' = Shutdown(call, stop[s].srv, stop[s].res)
  /\ stop' = [stop EXCEPT ![s] =
       IF stop[s].i = 0 THEN [NoStop EXCEPT !.pc = "done"]
       ELSE [@ EXCEPT !.pc = "close", !.srv = None, !.res = None]]
  /\ UNCHANGED <<mode, eng, tele, dead>>

\* The done channel is never closed.
MutStopClose(s) ==
  /\ StopAt(s, "close") /\ StopGoto(s, "stack")
  /\ UNCHANGED <<mode, eng, call, tele, dead>>

\* close(fullDone); closing it twice panics.
StopClose(s) ==
  /\ StopAt(s, "close")
  /\ LET c == stop[s].done
     IN  IF c = None THEN UNCHANGED <<call, dead>>
         ELSE IF call[c].done = "closed" THEN dead' = TRUE /\ UNCHANGED call
         ELSE call' = [call EXCEPT ![c].done = "closed"] /\ UNCHANGED dead
  /\ stop' = [stop EXCEPT ![s].pc = "stack", ![s].done = None]
  /\ UNCHANGED <<mode, eng, tele>>

StopStack(s) ==
  /\ StopAt(s, "stack")
  /\ call' = IF stop[s].stack = None THEN call
             ELSE [call EXCEPT ![stop[s].stack].stack = StackStop(@)]
  /\ stop' = [stop EXCEPT ![s].pc = "swapOff", ![s].stack = None]
  /\ UNCHANGED <<mode, eng, tele, dead>>

\* logAggregator.stop, trafficTracker.Stop; the policy engine is closed
\* last (AndroidTelemetry has its handles).
StopTele(s) ==
  LET x == StopOrder[stop[s].i]
      next == IF stop[s].i < Len(StartOrder)
              THEN [stop[s] EXCEPT !.pc = "swapOff", !.i = @ + 1]
              ELSE [NoStop EXCEPT !.pc = "done"]
  IN  /\ \/ /\ StopAt(s, "swapOff") /\ ~tele[x].running
            /\ stop' = [stop EXCEPT ![s] = next] /\ UNCHANGED <<tele, dead>>
         \/ /\ StopAt(s, "swapOff") /\ tele[x].running
            /\ SwapOff(x) /\ StopGoto(s, "chan") /\ UNCHANGED dead
         \/ /\ StopAt(s, "chan")
            /\ CloseChan(x) /\ stop' = [stop EXCEPT ![s] = next]
      /\ UNCHANGED <<mode, eng, call>>

\* ReleaseTun closes the descriptor early.
ReleaseTun ==
  /\ ~dead /\ eng.tun # None
  /\ call' = CloseFd(call, eng.tun)
  /\ eng' = [eng EXCEPT !.tun = None]
  /\ UNCHANGED <<mode, stop, tele, dead>>

(* --- the standalone DNS listener ---                                     *)

\* The previous session's resolver is dropped without a shutdown.
MutStartStandalone(c) ==
  /\ mode = "standalone" /\ At(c, "idle")
  /\ eng' = [eng EXCEPT !.running = TRUE, !.res = c,
               !.srv = IF eng.running THEN None ELSE @]
  /\ call' = [call EXCEPT ![c].pc = "olds", ![c].res = "live",
                ![c].old = IF eng.running THEN eng.srv ELSE None]
  /\ UNCHANGED <<mode, stop, tele, dead>>

\* Under e.mu: a running engine hands over its listeners and its resolver,
\* and a new resolver is installed.
StartStandalone(c) ==
  /\ mode = "standalone" /\ At(c, "idle")
  /\ eng' = [eng EXCEPT !.running = TRUE, !.res = c,
               !.srv = IF eng.running THEN None ELSE @]
  /\ call' = [call EXCEPT ![c].pc = "olds", ![c].res = "live",
                ![c].old = IF eng.running THEN eng.srv ELSE None,
                ![c].oldRes = IF eng.running THEN eng.res ELSE None]
  /\ UNCHANGED <<mode, stop, tele, dead>>

ShutdownOlds(c) ==
  /\ At(c, "olds")
  /\ LET after == Shutdown(call, call[c].old, call[c].oldRes)
     IN  call' = [after EXCEPT ![c].pc = "bind", ![c].old = None,
                    ![c].oldRes = None]
  /\ UNCHANGED <<mode, eng, stop, tele, dead>>

PortTaken(c) == \E d \in Calls \ {c} : call[d].srv \in {"bound", "serving"}

\* The IPv4 sockets are bound, or the call fails with running still set; a
\* port held by an earlier listener of this engine always fails.
Bind(c) ==
  /\ At(c, "bind")
  /\ \/ ~PortTaken(c) /\ call' = [call EXCEPT ![c].pc = "install",
                                      ![c].srv = "bound"]
     \/ Goto(c, "ended")
  /\ UNCHANGED <<mode, eng, stop, tele, dead>>

\* Under e.mu, with no check of the session.
Install(c) ==
  /\ At(c, "install")
  /\ eng' = [eng EXCEPT !.srv = c]
  /\ Goto(c, "activate")
  /\ UNCHANGED <<mode, stop, tele, dead>>

\* ActivateAndServe runs in goroutines started after the unlock.
Activate(c) ==
  /\ At(c, "activate")
  /\ call' = [call EXCEPT ![c].pc = "ended", ![c].srv = "serving"]
  /\ UNCHANGED <<mode, eng, stop, tele, dead>>

\* StopStandalone: like Stop, but the generation does not move, and only
\* the listeners and the resolver are taken.
StopStandalone(s) ==
  /\ mode = "standalone" /\ StopAt(s, "idle")
  /\ eng' = [eng EXCEPT !.running = FALSE, !.srv = None, !.res = None]
  /\ stop' = [stop EXCEPT ![s] = [NoStop EXCEPT !.pc = "shut",
                !.res = eng.res, !.srv = eng.srv, !.i = 0]]
  /\ UNCHANGED <<mode, call, tele, dead>>

CallStep(c) ==
  \/ Fail(c) \/ Build(c) \/ Publish(c) \/ StartStack(c) \/ StartTele(c)
  \/ Wait(c) \/ TailTele(c) \/ Halt(c) \/ Clear(c)
  \/ ShutdownOlds(c) \/ Bind(c) \/ Install(c) \/ Activate(c)

StopStep(s) ==
  StopShutdown(s) \/ StopClose(s) \/ StopStack(s) \/ StopTele(s)

Next ==
  \/ \E c \in Calls : StartFull(c) \/ StartStandalone(c) \/ CallStep(c)
  \/ \E s \in Stops : Stop(s) \/ StopStandalone(s) \/ StopStep(s)
  \/ ReleaseTun

\* A thread inside a call keeps running; nobody has to make a call.
Fairness ==
  /\ \A c \in Calls : WF_vars(CallStep(c))
  /\ \A s \in Stops : WF_vars(StopStep(s))

Spec == Init /\ [][Next]_vars /\ Fairness

(* --- properties ---                                                      *)

Quiet(pc) == pc \in {"idle", "ended", "done"}

\* A StartFull that returned owns nothing any more: no running stack, no
\* live TUN writer, no open descriptor, however Stop, ReleaseTun and a
\* second session interleaved with its setup; and when every call is over
\* and the engine is stopped, no telemetry goroutine runs.  The claim of
\* engine_full_tunnel.go:273-278 and 319-321.
NothingLeftBehind ==
  /\ \A c \in Calls : call[c].pc = "ended" =>
       /\ call[c].stack # "on" /\ call[c].writer # "on"
       /\ call[c].fd # "open"
  /\ (~dead /\ ~eng.running /\ \A c \in Calls : Quiet(call[c].pc)
        /\ \A s \in Stops : Quiet(stop[s].pc))
     => \A x \in Telemetry : ~tele[x].running

\* In a DNS server engine every live resolver is the published one or is in
\* the hands of the call that will shut it down; none is forgotten.
NoOrphanResolver ==
  (mode = "standalone") =>
    \A c \in Calls : call[c].res = "live" =>
      \/ eng.res = c
      \/ \E d \in Calls : call[d].oldRes = c
      \/ \E s \in Stops : stop[s].res = c /\ stop[s].pc = "shut"

\* Stop reaches every session it ended: a StartFull that a Stop overtook at
\* any point returns (unless the process died).
StopEndsSession ==
  \A c \in Calls :
    []<>(\/ dead \/ Quiet(call[c].pc)
         \/ mode = "full" /\ eng.gen = call[c].gen)
============================================================================
