---------------------------- MODULE ServiceProofs ----------------------------
(***************************************************************************)
(* Proofs about the service beside the query path.                         *)
(*                                                                         *)
(* First the service controller, for any number of goroutines, queries and *)
(* adapters: the two mutexes belong to who is inside their sections, an    *)
(* open listener has the LAN setting in force or is about to be restarted, *)
(* and no adapter points at a machine that does not listen, but for those  *)
(* with a cause that the code leaves open.                                 *)
(*                                                                         *)
(* Then the Linux manager (LinuxTakeover, here Linux!), for any set of     *)
(* interfaces, stacks and server lists, any backends, faults and bound on  *)
(* them, until the code gives a way back away (see Recoverable).           *)
(*                                                                         *)
(* Last the parts that share nothing with these (ServiceParts): the        *)
(* account, the console's listener, the clients' names, the bootstrap      *)
(* resolver and the rate limit, for any number of clients, calls, lookups, *)
(* dials and prefixes and any limits.                                      *)
(***************************************************************************)
EXTENDS MCTakeover, ServiceParts, FiniteSetTheorems, SequenceTheorems, TLAPS

-----------------------------------------------------------------------------
(* Lists of steps.                                                         *)

(* The steps that a routine may leave for later.                           *)
Waiting == {"start", "enable", "scan", "stop", "lanEnable", "close", "exit"}

(* The steps made under p.mu; a restore is one when StopDNS makes it.      *)
UnderPmu == {"stopActive", "notify", "shutdown", "drain",
             "statusAdapters", "statusActive", "statusDone"}

Inside(q) == q # <<>> /\ \/ q[1] \in UnderPmu
                         \/ q[1] = "restore" /\ Len(q) > 1 /\ q[2] = "notify"

(* A step under p.mu comes first, or is the notify and shutdown that       *)
(* follow the restore of a StopDNS.                                        *)
WellOrdered(q) ==
  /\ \A i \in 2..Len(q) : \/ q[i] \in Waiting
                          \/ i = 2 /\ q[1] = "restore" /\ q[2] = "notify"
                          \/ q[i-1] = "notify" /\ q[i] = "shutdown"
  /\ \A i \in 1..Len(q) : q[i] = "notify" => i < Len(q) /\ q[i+1] = "shutdown"

(* A stop to come, or one under way with the listener still open, and a    *)
(* start after it.                                                         *)
Closing == {"stop", "stopActive", "shutdown"}
Restarts(q) ==
  \E i, j \in 1..Len(q) : i < j /\ q[i] \in Closing /\ q[j] = "start"

(* What Then makes of a list.                                              *)
Push(s, q) == s \o Tail(q)

LEMMA PushFacts ==
  ASSUME NEW q \in Seq(Steps), q # <<>>, NEW s \in Seq(Steps), NEW r, r = Push(s, q)
  PROVE  /\ r \in Seq(Steps) /\ Len(r) = Len(s) + Len(q) - 1
         /\ \A i \in 1..Len(s) : r[i] = s[i]
         /\ \A i \in 2..Len(q) : r[Len(s) + i - 1] = q[i]
         /\ \A i \in (Len(s)+1)..Len(r) : r[i] = q[i - Len(s) + 1] /\ i - Len(s) + 1 \in 2..Len(q)
<1>1. Tail(q) \in Seq(Steps) /\ Len(Tail(q)) = Len(q) - 1
      /\ \A i \in 1..(Len(q)-1) : Tail(q)[i] = q[i+1]
  OBVIOUS
<1>2. Len(q) \in Nat \ {0} /\ Len(s) \in Nat
  OBVIOUS
<1>3. r \in Seq(Steps) /\ Len(r) = Len(s) + Len(q) - 1
  BY <1>1 DEF Push
<1>4. \A i \in 1..Len(s) : r[i] = s[i]
  BY <1>1, <1>2 DEF Push
<1>5. \A i \in (Len(s)+1)..Len(r) : r[i] = Tail(q)[i - Len(s)]
  BY <1>1, <1>2, <1>3 DEF Push
<1>6. \A i \in (Len(s)+1)..Len(r) : r[i] = q[i - Len(s) + 1] /\ i - Len(s) + 1 \in 2..Len(q)
  BY <1>1, <1>2, <1>3, <1>5
<1>7. \A i \in 2..Len(q) : r[Len(s) + i - 1] = q[i]
  <2> SUFFICES ASSUME NEW i \in 2..Len(q) PROVE r[Len(s) + i - 1] = q[i]
    OBVIOUS
  <2>1. Len(s) + i - 1 \in (Len(s)+1)..Len(r) /\ (Len(s) + i - 1) - Len(s) + 1 = i
    BY <1>2, <1>3
  <2> QED BY <1>6, <2>1
<1> QED BY <1>3, <1>4, <1>6, <1>7

(* After a step that is not the restore or the notify of a StopDNS, only   *)
(* Waiting steps are left.                                                 *)
LEMMA RestWaits ==
  ASSUME NEW q \in Seq(Steps), q # <<>>, WellOrdered(q), q[1] \notin {"restore", "notify"}
  PROVE  \A i \in 2..Len(q) : q[i] \in Waiting
<1>1. Len(q) \in Nat /\ Len(q) >= 1
  OBVIOUS
<1> SUFFICES ASSUME NEW i \in 2..Len(q), q[i] \notin Waiting PROVE FALSE
  OBVIOUS
<1>2. i # 2
  BY <1>1 DEF WellOrdered
<1>3. q[i-1] = "notify" /\ i - 1 \in 2..Len(q)
  BY <1>1, <1>2 DEF WellOrdered
<1>4. (i - 1 = 2 /\ q[1] = "restore") \/ q[i-1] = "shutdown"
  BY <1>1, <1>3 DEF WellOrdered, Waiting
<1> QED BY <1>3, <1>4

(* Such a step puts steps in front and keeps the order; whether the        *)
(* goroutine is under p.mu afterwards is a matter of what it put there.    *)
LEMMA PushKeepsOrder ==
  ASSUME NEW q \in Seq(Steps), q # <<>>, WellOrdered(q), q[1] \notin {"restore", "notify"},
         NEW s \in Seq(Steps), WellOrdered(s),
         NEW r, r = Push(s, q)
  PROVE  /\ WellOrdered(r) /\ (Inside(r) <=> Inside(s))
         /\ r # <<>> => r[1] \in Waiting \/ (s # <<>> /\ r[1] = s[1])
<1>1. /\ r \in Seq(Steps) /\ Len(r) = Len(s) + Len(q) - 1
      /\ \A i \in 1..Len(s) : r[i] = s[i]
      /\ \A i \in (Len(s)+1)..Len(r) : r[i] \in Waiting
  BY PushFacts, RestWaits
<1>2. Len(s) \in Nat /\ Len(q) \in Nat \ {0} /\ Len(r) \in Nat
  BY <1>1
<1>3. ASSUME NEW i \in 2..Len(r)
      PROVE  \/ r[i] \in Waiting
             \/ i = 2 /\ r[1] = "restore" /\ r[2] = "notify"
             \/ r[i-1] = "notify" /\ r[i] = "shutdown"
  <2>1. CASE i \in 2..Len(s)
    <3>1. r[i] = s[i] /\ r[i-1] = s[i-1] /\ r[1] = s[1]
      BY <1>1, <1>2, <2>1
    <3>2. \/ s[i] \in Waiting
          \/ i = 2 /\ s[1] = "restore" /\ s[2] = "notify"
          \/ s[i-1] = "notify" /\ s[i] = "shutdown"
      BY <2>1 DEF WellOrdered
    <3> QED BY <3>1, <3>2
  <2>2. i \in 2..Len(s) \/ i \in (Len(s)+1)..Len(r)
    BY <1>2
  <2> QED BY <1>1, <2>1, <2>2
<1>4. ASSUME NEW i \in 1..Len(r), r[i] = "notify"
      PROVE  i < Len(r) /\ r[i+1] = "shutdown"
  <2>0. i \in 1..Len(s) \/ i \in (Len(s)+1)..Len(r)
    BY <1>2 DEF WellOrdered
  <2>1. i \in 1..Len(s)
    BY <1>1, <1>4, <2>0 DEF Waiting
  <2>2. i < Len(s) /\ s[i+1] = "shutdown"
    BY <1>1, <1>4, <2>1 DEF WellOrdered
  <2> QED BY <1>1, <1>2, <2>1, <2>2
<1>5. WellOrdered(r)
  BY <1>3, <1>4 DEF WellOrdered
<1>6. CASE s = <<>>
  <2>1. r # <<>> => r[1] \in Waiting
    BY <1>1, <1>2, <1>6
  <2>2. ~Inside(r)
    BY <2>1 DEF Inside, Waiting, UnderPmu
  <2>3. ~Inside(s)
    BY <1>6 DEF Inside
  <2> QED BY <1>5, <2>1, <2>2, <2>3
<1>7. CASE s # <<>> /\ ~(Len(s) > 1)
  <2>1. 1 \in 1..Len(s) /\ 2 > Len(s)
    BY <1>2, <1>7
  <2>2. r # <<>> /\ r[1] = s[1]
    BY <1>1, <1>2, <2>1
  <2>3. Len(r) > 1 => r[2] \in Waiting
    <3>1. Len(r) > 1 => 2 \in (Len(s)+1)..Len(r)
      BY <1>2, <2>1
    <3> QED BY <1>1, <3>1
  <2> QED BY <1>5, <1>7, <2>2, <2>3 DEF Inside, Waiting
<1>8. CASE s # <<>> /\ Len(s) > 1
  <2>1. r # <<>> /\ r[1] = s[1] /\ r[2] = s[2] /\ Len(r) > 1
    BY <1>1, <1>2, <1>8
  <2> QED BY <1>5, <1>8, <2>1 DEF Inside
<1> QED BY <1>6, <1>7, <1>8

(* The end of a restore and a notify leave the goroutine where it was.     *)
LEMMA PopKeepsOrder ==
  ASSUME NEW q \in Seq(Steps), q # <<>>, WellOrdered(q), q[1] \in {"restore", "notify"},
         NEW r, r = Push(<<>>, q)
  PROVE  /\ WellOrdered(r) /\ (Inside(r) <=> Inside(q))
         /\ r # <<>> => r[1] \in Waiting \cup {"notify", "shutdown"}
<1>1. /\ r \in Seq(Steps) /\ Len(r) = Len(q) - 1
      /\ \A i \in 1..Len(r) : r[i] = q[i+1] /\ i + 1 \in 2..Len(q)
  <2>1. Tail(q) \in Seq(Steps)
    OBVIOUS
  <2>2. r = Tail(q)
    BY <2>1, ConcatEmptySeq DEF Push
  <2> QED BY <2>1, <2>2
<1>2. Len(q) \in Nat \ {0} /\ Len(r) \in Nat
  BY <1>1
<1>3. ASSUME NEW i \in 2..Len(r)
      PROVE  r[i] \in Waiting \/ (r[i-1] = "notify" /\ r[i] = "shutdown")
  <2>1. r[i] = q[i+1] /\ r[i-1] = q[i] /\ i+1 \in 2..Len(q) /\ i+1 # 2 /\ (i+1)-1 = i
    BY <1>1, <1>2
  <2> QED BY <2>1 DEF WellOrdered
<1>4. ASSUME NEW i \in 1..Len(r), r[i] = "notify"
      PROVE  i < Len(r) /\ r[i+1] = "shutdown"
  <2>1. q[i+1] = "notify" /\ i+1 \in 1..Len(q)
    BY <1>1, <1>2, <1>4
  <2>2. i+1 < Len(q) /\ q[i+1+1] = "shutdown"
    BY <2>1 DEF WellOrdered
  <2>3. i < Len(r) /\ i + 1 \in 1..Len(r)
    BY <1>1, <1>2, <2>2
  <2> QED BY <1>1, <2>2, <2>3
<1>5. WellOrdered(r)
  BY <1>3, <1>4 DEF WellOrdered
<1>6. CASE q[1] = "notify"
  <2>1. Len(q) > 1 /\ q[2] = "shutdown"
    BY <1>2, <1>6 DEF WellOrdered
  <2>2. r # <<>> /\ r[1] = "shutdown"
    BY <1>1, <1>2, <2>1
  <2> QED BY <1>5, <1>6, <2>2 DEF Inside, UnderPmu
<1>7. CASE q[1] = "restore"
  <2>1. CASE ~(Len(q) > 1)
    <3>1. r = <<>>
      BY <1>1, <1>2, <2>1
    <3> QED BY <1>5, <1>7, <2>1, <3>1 DEF Inside, UnderPmu
  <2>2. CASE Len(q) > 1
    <3>1. r # <<>> /\ r[1] = q[2]
      BY <1>1, <1>2, <2>2
    <3>2. q[2] \in Waiting \/ q[2] = "notify"
      BY <1>2, <1>7, <2>2 DEF WellOrdered
    <3> QED BY <1>5, <1>7, <2>2, <3>1, <3>2 DEF Inside, UnderPmu, Waiting
  <2> QED BY <2>1, <2>2
<1> QED BY <1>6, <1>7

(* A restart stays to come until its stop is made.                         *)
LEMMA PushKeepsRestart ==
  ASSUME NEW q \in Seq(Steps), q # <<>>, Restarts(q),
         NEW s \in Seq(Steps),
         q[1] \in Closing => \E i \in 1..Len(s) : s[i] \in Closing,
         NEW r, r = Push(s, q)
  PROVE  Restarts(r)
<1>1. PICK i, j \in 1..Len(q) : i < j /\ q[i] \in Closing /\ q[j] = "start"
  BY DEF Restarts
<1>2. Len(s) \in Nat /\ Len(q) \in Nat \ {0} /\ j \in 2..Len(q)
  BY <1>1
<1>3. /\ Len(r) = Len(s) + Len(q) - 1
      /\ \A k \in 1..Len(s) : r[k] = s[k]
      /\ \A k \in 2..Len(q) : r[Len(s) + k - 1] = q[k]
  BY PushFacts
<1>4. r[Len(s) + j - 1] = "start" /\ Len(s) + j - 1 \in 1..Len(r)
  BY <1>1, <1>2, <1>3
<1>5. CASE i = 1
  <2>1. PICK k \in 1..Len(s) : s[k] \in Closing
    BY <1>1, <1>5
  <2>2. k \in 1..Len(r) /\ k < Len(s) + j - 1 /\ r[k] \in Closing
    BY <1>2, <1>3, <2>1
  <2> QED BY <1>4, <2>2 DEF Restarts
<1>6. CASE i # 1
  <2>1. r[Len(s) + i - 1] \in Closing /\ Len(s) + i - 1 \in 1..Len(r)
    BY <1>1, <1>2, <1>3, <1>6
  <2>2. Len(s) + i - 1 < Len(s) + j - 1
    BY <1>1, <1>2
  <2> QED BY <1>4, <2>1, <2>2 DEF Restarts
<1> QED BY <1>5, <1>6

LEMMA PushBringsRestart ==
  ASSUME NEW q \in Seq(Steps), q # <<>>, NEW s \in Seq(Steps), Restarts(s),
         NEW r, r = Push(s, q)
  PROVE  Restarts(r)
<1>1. Len(r) = Len(s) + Len(q) - 1 /\ \A k \in 1..Len(s) : r[k] = s[k]
  BY PushFacts
<1>2. Len(s) \in Nat /\ Len(q) \in Nat \ {0}
  OBVIOUS
<1>3. PICK i, j \in 1..Len(s) : i < j /\ s[i] \in Closing /\ s[j] = "start"
  BY DEF Restarts
<1>4. i \in 1..Len(r) /\ j \in 1..Len(r) /\ r[i] = s[i] /\ r[j] = s[j]
  BY <1>1, <1>2, <1>3
<1> QED BY <1>3, <1>4 DEF Restarts

-----------------------------------------------------------------------------
(* The inductive invariant.                                                *)

First(t, x) == th[t].todo # <<>> /\ th[t].todo[1] = x

Ordered ==
  \A t \in Threads :
    /\ WellOrdered(th[t].todo)
    /\ th[t].call = None => th[t].todo = <<>>
    /\ First(t, "takeoverSingle") => th[t].adapters \subseteq Adapters
    /\ First(t, "lan") => th[t].call = "ConfigureLAN"

QuietWhenDown ==
  ~up => pmu = None /\ mmu = None /\ server = None /\ \A t \in Threads : th[t].todo = <<>>

PLock == \A t \in Threads : pmu = t <=> Inside(th[t].todo)

MLock == \A t \in Threads : mmu = t => \E s \in ManagerSteps : First(t, s)

(* An open listener is a running one, also inside StopDNS.                 *)
OpenRuns ==
  /\ server # None => running
  /\ \A t \in Threads : First(t, "drain") => server = None

(* Somebody who changed the setting still has to close the old listener.   *)
OldIsClosed ==
  server # None /\ server # lan =>
    \E t \in Threads : th[t].call = "ConfigureLAN" /\ Restarts(th[t].todo)

Controlled ==
  TypeOK /\ Ordered /\ QuietWhenDown /\ PLock /\ MLock /\ OpenRuns /\ OldIsClosed

-----------------------------------------------------------------------------
(* One goroutine moves on: the steps s replace the first of its list.      *)
Goroutine == [call : CallKinds \cup {None}, todo : Seq(Steps), on : BOOLEAN,
              adapters : SUBSET (Adapters \cup {None}), ok : BOOLEAN, was : BOOLEAN]

Moves(t, s) ==
  /\ th' \in [Threads -> Goroutine]
  /\ th[t].todo # <<>> /\ th'[t].todo = Push(s, th[t].todo)
  /\ th'[t].call = th[t].call /\ th'[t].adapters = th[t].adapters
  /\ \A u \in Threads \ {t} : th'[u] = th[u]

LEMMA AtIsFirst ==
  ASSUME TypeOK, NEW t \in Threads, NEW x
  PROVE  At(t, x) <=> up /\ First(t, x)
<1>1. th[t].todo \in Seq(Steps)
  BY DEF TypeOK
<1>2. th[t].todo # <<>> => Head(th[t].todo) = th[t].todo[1]
  BY <1>1
<1> QED BY <1>2 DEF At, First

(* The lists the routines put in front.                                    *)
LEMMA SomeSteps ==
  /\ <<>> \in Seq(Steps) /\ WellOrdered(<<>>) /\ ~Inside(<<>>)
  /\ \A x \in Steps \ {"notify"} :
       /\ <<x>> \in Seq(Steps) /\ <<x>> # <<>> /\ <<x>>[1] = x
       /\ WellOrdered(<<x>>) /\ (Inside(<<x>>) <=> x \in UnderPmu)
<1>1. <<>> \in Seq(Steps) /\ WellOrdered(<<>>) /\ ~Inside(<<>>)
  <2>1. <<>> \in Seq(Steps) /\ Len(<<>>) = 0
    BY EmptySeq
  <2>2. 1..0 = {} /\ 2..0 = {}
    OBVIOUS
  <2> QED BY <2>1, <2>2 DEF WellOrdered, Inside
<1>2. ASSUME NEW x \in Steps, x # "notify"
      PROVE  /\ <<x>> \in Seq(Steps) /\ <<x>> # <<>> /\ <<x>>[1] = x
             /\ WellOrdered(<<x>>) /\ (Inside(<<x>>) <=> x \in UnderPmu)
  <2>1. <<x>> \in Seq(Steps) /\ Len(<<x>>) = 1 /\ <<x>>[1] = x /\ <<x>> # <<>>
    OBVIOUS
  <2>2. 1..1 = {1} /\ 2..1 = {} /\ ~(1 > 1)
    OBVIOUS
  <2> QED BY <1>2, <2>1, <2>2 DEF WellOrdered, Inside
<1> QED BY <1>1, <1>2

(* Then and its variants.                                                  *)
LEMMA ThenMoves ==
  ASSUME TypeOK, NEW t \in Threads, NEW x, At(t, x), NEW s \in Seq(Steps),
         \/ Then(t, s)
         \/ \E b \in BOOLEAN : ThenOk(t, s, b)
  PROVE  Moves(t, s)
<1>1. th \in [Threads -> Goroutine] /\ th[t].todo \in Seq(Steps) /\ th[t].todo # <<>>
  BY DEF TypeOK, Goroutine, At
<1>2. Push(s, th[t].todo) \in Seq(Steps)
  BY <1>1, PushFacts
<1>3. CASE Then(t, s)
  <2>1. th' = [th EXCEPT ![t].todo = Push(s, th[t].todo)]
    BY <1>3 DEF Then, Push
  <2> QED BY <1>1, <1>2, <2>1 DEF Moves, Goroutine
<1>4. ASSUME NEW b \in BOOLEAN, ThenOk(t, s, b) PROVE Moves(t, s)
  <2>1. th' = [th EXCEPT ![t].todo = Push(s, th[t].todo), ![t].ok = b]
    BY <1>4 DEF ThenOk, Push
  <2> QED BY <1>1, <1>2, <2>1 DEF Moves, Goroutine
<1> QED BY <1>3, <1>4

(* A move keeps the lists in order.                                        *)
LEMMA MoveKeepsOrder ==
  ASSUME TypeOK, Ordered, NEW t \in Threads, NEW s \in Seq(Steps), WellOrdered(s), Moves(t, s),
         th[t].todo[1] \notin {"restore", "notify"},
         s # <<>> => s[1] # "lan" /\ (s[1] = "takeoverSingle" => th[t].adapters \subseteq Adapters)
  PROVE  /\ Ordered' /\ (Inside(th'[t].todo) <=> Inside(s))
         /\ \A x : First(t, x)' => x \in Waiting \/ (s # <<>> /\ x = s[1])
<1> DEFINE q == th[t].todo
           r == th'[t].todo
<1>1. q \in Seq(Steps) /\ q # <<>> /\ WellOrdered(q) /\ r = Push(s, q)
  BY DEF TypeOK, Ordered, Moves
<1>2. /\ WellOrdered(r) /\ (Inside(r) <=> Inside(s))
      /\ r # <<>> => r[1] \in Waiting \/ (s # <<>> /\ r[1] = s[1])
  <2> HIDE DEF q, r
  <2>1. q[1] \notin {"restore", "notify"}
    BY DEF q
  <2> QED BY <1>1, <2>1, PushKeepsOrder
<1>3. th'[t].call # None
  BY <1>1 DEF Ordered, Moves
<1>4. ~First(t, "lan")' /\ (First(t, "takeoverSingle")' => th'[t].adapters \subseteq Adapters)
  BY <1>2 DEF First, Waiting, Moves
<1>5. ASSUME NEW u \in Threads, u # t
      PROVE  /\ WellOrdered(th'[u].todo) /\ (th'[u].call = None => th'[u].todo = <<>>)
             /\ First(u, "takeoverSingle")' => th'[u].adapters \subseteq Adapters
             /\ First(u, "lan")' => th'[u].call = "ConfigureLAN"
  BY <1>5 DEF Ordered, Moves, First
<1>6. Ordered'
  BY <1>2, <1>3, <1>4, <1>5 DEF Ordered
<1> QED BY <1>2, <1>6 DEF First

(* So does the end of a restore or a notify.                               *)
LEMMA PopKeepsLists ==
  ASSUME TypeOK, Ordered, NEW t \in Threads, Moves(t, <<>>),
         th[t].todo[1] \in {"restore", "notify"}
  PROVE  /\ Ordered' /\ (Inside(th'[t].todo) <=> Inside(th[t].todo))
         /\ \A x : First(t, x)' => x \in Waiting \cup {"notify", "shutdown"}
<1> DEFINE q == th[t].todo
           r == th'[t].todo
<1>1. q \in Seq(Steps) /\ q # <<>> /\ WellOrdered(q) /\ r = Push(<<>>, q)
  BY DEF TypeOK, Ordered, Moves
<1>2. /\ WellOrdered(r) /\ (Inside(r) <=> Inside(q))
      /\ r # <<>> => r[1] \in Waiting \cup {"notify", "shutdown"}
  <2> HIDE DEF q, r
  <2>1. q[1] \in {"restore", "notify"}
    BY DEF q
  <2> QED BY <1>1, <2>1, PopKeepsOrder
<1>3. th'[t].call # None
  BY <1>1 DEF Ordered, Moves
<1>4. ~First(t, "takeoverSingle")' /\ ~First(t, "lan")'
  BY <1>2 DEF First, Waiting
<1>5. ASSUME NEW u \in Threads, u # t
      PROVE  /\ WellOrdered(th'[u].todo) /\ (th'[u].call = None => th'[u].todo = <<>>)
             /\ First(u, "takeoverSingle")' => th'[u].adapters \subseteq Adapters
             /\ First(u, "lan")' => th'[u].call = "ConfigureLAN"
  BY <1>5 DEF Ordered, Moves, First
<1>6. Ordered'
  BY <1>2, <1>3, <1>4, <1>5 DEF Ordered
<1> QED BY <1>2, <1>6 DEF First

(* Whoever is about to restart the listener still is, unless its stop is   *)
(* the step that is made.                                                  *)
LEMMA MoveKeepsRestart ==
  ASSUME TypeOK, OldIsClosed, NEW t \in Threads, NEW s \in Seq(Steps), Moves(t, s),
         server # None /\ th[t].todo[1] \in Closing => \E i \in 1..Len(s) : s[i] \in Closing,
         server' = server, lan' = lan
  PROVE  OldIsClosed'
<1> SUFFICES ASSUME server # None, server # lan
             PROVE  \E u \in Threads : th'[u].call = "ConfigureLAN" /\ Restarts(th'[u].todo)
  BY DEF OldIsClosed
<1>1. PICK u \in Threads : th[u].call = "ConfigureLAN" /\ Restarts(th[u].todo)
  BY DEF OldIsClosed
<1>2. CASE u # t
  BY <1>1, <1>2 DEF Moves
<1>3. CASE u = t
  <2>1. th[t].todo \in Seq(Steps) /\ th[t].todo # <<>> /\ th'[t].todo = Push(s, th[t].todo)
    BY DEF TypeOK, Moves
  <2>2. Restarts(th'[t].todo)
    BY <1>1, <1>3, <2>1, PushKeepsRestart
  <2> QED BY <1>1, <1>3, <2>2 DEF Moves
<1> QED BY <1>2, <1>3

-----------------------------------------------------------------------------
(* The actions.                                                            *)

(* A move that changes neither lock, listener nor setting.                 *)
LEMMA QuietMove ==
  ASSUME Controlled, TypeOK', NEW t \in Threads, up,
         NEW s \in Seq(Steps), WellOrdered(s), Moves(t, s),
         th[t].todo[1] \notin ManagerSteps \cup {"notify"},
         Inside(s) <=> Inside(th[t].todo),
         s # <<>> => s[1] \notin {"drain", "lan"} /\ (s[1] = "takeoverSingle" => th[t].adapters \subseteq Adapters),
         server # None /\ th[t].todo[1] \in Closing => \E i \in 1..Len(s) : s[i] \in Closing,
         UNCHANGED <<up, pmu, mmu, running, server, lan>>
  PROVE  Controlled'
<1> USE DEF Controlled
<1>1. th[t].todo[1] \notin {"restore", "notify"}
  BY DEF ManagerSteps
<1>2. /\ Ordered' /\ (Inside(th'[t].todo) <=> Inside(s))
      /\ \A x : First(t, x)' => x \in Waiting \/ (s # <<>> /\ x = s[1])
  BY <1>1, MoveKeepsOrder
<1>3. PLock'
  BY <1>2 DEF PLock, Moves
<1>4. MLock'
  BY DEF MLock, Moves, First
<1>5. ~First(t, "drain")'
  BY <1>2 DEF Waiting
<1>6. OpenRuns'
  BY <1>5 DEF OpenRuns, Moves, First
<1>7. OldIsClosed'
  BY MoveKeepsRestart
<1>8. QuietWhenDown'
  BY DEF QuietWhenDown
<1> QED BY <1>2, <1>3, <1>4, <1>6, <1>7, <1>8

(* Types of what the quiet moves leave alone.                              *)
LEMMA MoveTypes ==
  ASSUME TypeOK, NEW t \in Threads, NEW s, Moves(t, s),
         UNCHANGED <<up, pmu, mmu, running, server, lan, taken, held, query, stray>>
  PROVE  TypeOK'
BY DEF TypeOK, Moves, Goroutine

LEMMA StartControlled ==
  ASSUME Controlled, NEW t \in Threads, StartDNS(t) PROVE Controlled'
<1> USE DEF Controlled
<1>1. At(t, "start") /\ up /\ First(t, "start") /\ pmu = None
  BY AtIsFirst DEF StartDNS
<1>2. Moves(t, <<>>)
  BY <1>1, SomeSteps, ThenMoves DEF StartDNS
<1>3. ~Inside(th[t].todo) /\ th[t].todo[1] \notin ManagerSteps \cup {"notify"} \cup Closing
  BY <1>1 DEF First, Inside, UnderPmu, ManagerSteps, Closing
<1>4. CASE UNCHANGED <<running, server>>
  <2>1. UNCHANGED <<up, pmu, mmu, running, server, lan, taken, held, query, stray>>
    BY <1>4, ControllerAssumption DEF StartDNS, TypeOK
  <2> QED BY <1>1, <1>2, <1>3, <2>1, SomeSteps, MoveTypes, QuietMove
<1>5. CASE ~running /\ running' = TRUE /\ server' = lan
  <2>1. UNCHANGED <<up, pmu, mmu, lan, taken, held, query>> /\ stray' \subseteq stray
    BY DEF StartDNS
  <2>2. TypeOK'
    BY <1>2, <1>5, <2>1 DEF TypeOK, Moves, Goroutine
  <2>3. /\ Ordered' /\ ~Inside(th'[t].todo)
        /\ \A x : First(t, x)' => x \in Waiting
    BY <1>2, <1>3, SomeSteps, MoveKeepsOrder DEF ManagerSteps
  <2>4. \A u \in Threads : ~Inside(th[u].todo)
    BY <1>1, ControllerAssumption DEF PLock
  <2>5. \A u \in Threads : ~Inside(th'[u].todo)
    BY <1>2, <2>3, <2>4 DEF Moves
  <2>6. PLock'
    BY <1>1, <2>1, <2>5, ControllerAssumption DEF PLock
  <2>7. MLock'
    BY <1>2, <1>3, <2>1 DEF MLock, Moves, First
  <2>8. OpenRuns'
    BY <1>5, <2>5 DEF OpenRuns, First, Inside, UnderPmu
  <2>9. OldIsClosed' /\ QuietWhenDown'
    BY <1>1, <1>5, <2>1 DEF OldIsClosed, QuietWhenDown
  <2> QED BY <2>2, <2>3, <2>6, <2>7, <2>8, <2>9
<1> QED BY <1>4, <1>5 DEF StartDNS

LEMMA StopControlled ==
  ASSUME Controlled, NEW t \in Threads, StopDNS(t) PROVE Controlled'
<1> USE DEF Controlled
<1>1. At(t, "stop") /\ up /\ First(t, "stop") /\ pmu = None
  BY AtIsFirst DEF StopDNS
<1>2. ~Inside(th[t].todo) /\ th[t].todo[1] \notin ManagerSteps \cup {"notify"}
  BY <1>1 DEF First, Inside, UnderPmu, ManagerSteps
<1>3. CASE ~running
  <2>1. UNCHANGED <<up, pmu, mmu, running, server, lan, taken, held, query, stray>>
    BY <1>3 DEF StopDNS
  <2>2. Moves(t, <<>>)
    BY <1>1, <1>3, SomeSteps, ThenMoves DEF StopDNS
  <2>3. server = None
    BY <1>3 DEF OpenRuns
  <2> QED BY <1>1, <1>2, <2>1, <2>2, <2>3, SomeSteps, MoveTypes, QuietMove
<1>4. CASE running
  <2>1. UNCHANGED <<up, mmu, running, server, lan, taken, held, query, stray>> /\ pmu' = t
    BY <1>4 DEF StopDNS
  <2>2. <<"stopActive">> \in Seq(Steps) /\ WellOrdered(<<"stopActive">>) /\ Inside(<<"stopActive">>)
        /\ <<"stopActive">>[1] = "stopActive"
    BY SomeSteps DEF Steps, UnderPmu
  <2>3. Moves(t, <<"stopActive">>)
    BY <1>1, <1>4, <2>2, ThenMoves DEF StopDNS
  <2>4. TypeOK'
    BY <2>1, <2>3 DEF TypeOK, Moves, Goroutine
  <2>5. /\ Ordered' /\ Inside(th'[t].todo)
        /\ \A x : First(t, x)' => x \in Waiting \cup {"stopActive"}
    BY <1>2, <2>2, <2>3, MoveKeepsOrder DEF ManagerSteps
  <2>6. \A u \in Threads \ {t} : ~Inside(th'[u].todo)
    BY <1>1, <2>3, ControllerAssumption DEF PLock, Moves
  <2>7. PLock'
    BY <2>1, <2>5, <2>6 DEF PLock
  <2>8. MLock'
    BY <1>2, <2>1, <2>3 DEF MLock, Moves, First
  <2>9. OpenRuns'
    BY <2>1, <2>3, <2>5 DEF OpenRuns, Moves, First, Waiting
  <2>10. OldIsClosed'
    <3>1. \E i \in 1..Len(<<"stopActive">>) : <<"stopActive">>[i] \in Closing
      BY DEF Closing
    <3> QED BY <2>1, <2>2, <2>3, <3>1, MoveKeepsRestart
  <2>11. QuietWhenDown'
    BY <1>1, <2>1 DEF QuietWhenDown
  <2> QED BY <2>4, <2>5, <2>7, <2>8, <2>9, <2>10, <2>11
<1> QED BY <1>3, <1>4

LEMMA StopActiveControlled ==
  ASSUME Controlled, NEW t \in Threads, StopIsTakeoverActive(t) PROVE Controlled'
<1> USE DEF Controlled
<1>1. At(t, "stopActive") /\ up /\ First(t, "stopActive")
  BY AtIsFirst DEF StopIsTakeoverActive
<1>2. Inside(th[t].todo) /\ th[t].todo[1] \notin ManagerSteps \cup {"notify"}
  BY <1>1 DEF First, Inside, UnderPmu, ManagerSteps
<1>3. UNCHANGED <<up, pmu, mmu, running, server, lan, taken, held, query, stray>>
  BY DEF StopIsTakeoverActive
<1>4. PICK s \in {<<"restore", "notify", "shutdown">>, <<"shutdown">>} : Then(t, s)
  BY DEF StopIsTakeoverActive
<1>5. /\ s \in Seq(Steps) /\ WellOrdered(s) /\ Inside(s)
      /\ s[1] \notin {"takeoverSingle", "drain", "lan"}
      /\ \E i \in 1..Len(s) : s[i] \in Closing
  <2>1. CASE s = <<"shutdown">>
    BY <2>1, SomeSteps DEF Steps, UnderPmu, Closing
  <2>2. CASE s = <<"restore", "notify", "shutdown">>
    <3>1. s \in Seq(Steps) /\ Len(s) = 3 /\ s[1] = "restore" /\ s[2] = "notify" /\ s[3] = "shutdown"
          /\ s # <<>>
      BY <2>2 DEF Steps, ManagerSteps
    <3>2. 1..3 = {1, 2, 3} /\ 2..3 = {2, 3}
      OBVIOUS
    <3>3. WellOrdered(s)
      BY <3>1, <3>2 DEF WellOrdered
    <3> QED BY <3>1, <3>2, <3>3 DEF Inside, Closing
  <2> QED BY <2>1, <2>2
<1>6. Moves(t, s)
  BY <1>1, <1>4, <1>5, ThenMoves
<1> QED BY <1>1, <1>2, <1>3, <1>5, <1>6, MoveTypes, QuietMove

LEMMA NotifyControlled ==
  ASSUME Controlled, NEW t \in Threads, Notify(t) PROVE Controlled'
<1> USE DEF Controlled
<1>1. At(t, "notify") /\ up /\ First(t, "notify")
  BY AtIsFirst DEF Notify
<1>2. UNCHANGED <<up, pmu, mmu, running, server, lan, taken, held, query, stray>>
  BY DEF Notify
<1>3. Moves(t, <<>>) /\ th[t].todo[1] = "notify"
  BY <1>1, SomeSteps, ThenMoves DEF Notify, First
<1>4. TypeOK'
  BY <1>2, <1>3, MoveTypes
<1>5. /\ Ordered' /\ (Inside(th'[t].todo) <=> Inside(th[t].todo))
      /\ \A x : First(t, x)' => x \in Waiting \cup {"notify", "shutdown"}
  BY <1>3, PopKeepsLists
<1>6. PLock'
  BY <1>2, <1>3, <1>5 DEF PLock, Moves
<1>7. MLock'
  BY <1>2, <1>3 DEF MLock, Moves, First, ManagerSteps
<1>8. OpenRuns'
  BY <1>2, <1>3, <1>5 DEF OpenRuns, Moves, First, Waiting
<1>9. OldIsClosed'
  BY <1>2, <1>3, SomeSteps, MoveKeepsRestart DEF Closing
<1>10. QuietWhenDown'
  BY <1>1, <1>2 DEF QuietWhenDown
<1> QED BY <1>4, <1>5, <1>6, <1>7, <1>8, <1>9, <1>10

LEMMA ShutdownControlled ==
  ASSUME Controlled, NEW t \in Threads, Shutdown(t) PROVE Controlled'
<1> USE DEF Controlled
<1>1. At(t, "shutdown") /\ up /\ First(t, "shutdown")
  BY AtIsFirst DEF Shutdown
<1>2. UNCHANGED <<up, pmu, mmu, running, lan, taken, held, query, stray>> /\ server' = None
  BY DEF Shutdown
<1>3. <<"drain">> \in Seq(Steps) /\ WellOrdered(<<"drain">>) /\ Inside(<<"drain">>)
      /\ <<"drain">>[1] = "drain"
  BY SomeSteps DEF Steps, UnderPmu
<1>4. Moves(t, <<"drain">>)
  BY <1>1, <1>3, ThenMoves DEF Shutdown
<1>5. Inside(th[t].todo) /\ th[t].todo[1] \notin ManagerSteps \cup {"notify"}
  BY <1>1 DEF First, Inside, UnderPmu, ManagerSteps
<1>6. TypeOK'
  BY <1>2, <1>4 DEF TypeOK, Moves, Goroutine
<1>7. Ordered' /\ Inside(th'[t].todo)
  BY <1>3, <1>4, <1>5, MoveKeepsOrder DEF ManagerSteps
<1>8. PLock'
  BY <1>2, <1>4, <1>5, <1>7 DEF PLock, Moves
<1>9. MLock'
  BY <1>2, <1>4, <1>5 DEF MLock, Moves, First
<1>10. OpenRuns' /\ OldIsClosed' /\ QuietWhenDown'
  BY <1>1, <1>2 DEF OpenRuns, OldIsClosed, QuietWhenDown
<1> QED BY <1>6, <1>7, <1>8, <1>9, <1>10

LEMMA DrainControlled ==
  ASSUME Controlled, NEW t \in Threads, Drain(t) PROVE Controlled'
<1> USE DEF Controlled
<1>1. At(t, "drain") /\ up /\ First(t, "drain")
  BY AtIsFirst DEF Drain
<1>2. UNCHANGED <<up, mmu, server, lan, taken, held, query, stray>> /\ pmu' = None /\ running' = FALSE
  BY DEF Drain
<1>3. Moves(t, <<>>)
  BY <1>1, SomeSteps, ThenMoves DEF Drain
<1>4. Inside(th[t].todo) /\ th[t].todo[1] \notin ManagerSteps \cup {"notify"}
  BY <1>1 DEF First, Inside, UnderPmu, ManagerSteps
<1>5. server = None /\ pmu = t
  BY <1>1, <1>4 DEF OpenRuns, PLock
<1>6. TypeOK'
  BY <1>2, <1>3 DEF TypeOK, Moves, Goroutine
<1>7. Ordered' /\ ~Inside(th'[t].todo)
  BY <1>3, <1>4, SomeSteps, MoveKeepsOrder DEF ManagerSteps
<1>8. PLock'
  BY <1>2, <1>3, <1>5, <1>7, ControllerAssumption DEF PLock, Moves
<1>9. MLock'
  BY <1>2, <1>3, <1>4 DEF MLock, Moves, First
<1>10. OpenRuns' /\ OldIsClosed' /\ QuietWhenDown'
  BY <1>1, <1>2, <1>5 DEF OpenRuns, OldIsClosed, QuietWhenDown
<1> QED BY <1>6, <1>7, <1>8, <1>9, <1>10

(* EnableTakeover, the scan, the look-up of an adapter and the steps of    *)
(* ConfigureLAN, GetStatus and Stop that only wait for a lock.             *)
LEMMA EnableControlled ==
  ASSUME Controlled, NEW t \in Threads, EnableTakeover(t) PROVE Controlled'
<1> USE DEF Controlled
<1>1. At(t, "enable") /\ up /\ First(t, "enable")
  BY AtIsFirst DEF EnableTakeover
<1>2. UNCHANGED <<up, pmu, mmu, running, server, lan, taken, held, query, stray>>
  BY DEF EnableTakeover
<1>3. PICK s \in {<<"scan">>, <<"start", "scan">>} : ThenOk(t, s, TRUE)
  BY DEF EnableTakeover
<1>4. s \in Seq(Steps) /\ WellOrdered(s) /\ ~Inside(s) /\ s[1] \notin {"takeoverSingle", "drain", "lan"}
  <2>1. CASE s = <<"scan">>
    BY <2>1, SomeSteps DEF Steps, UnderPmu
  <2>2. CASE s = <<"start", "scan">>
    <3>1. s \in Seq(Steps) /\ Len(s) = 2 /\ s[1] = "start" /\ s[2] = "scan" /\ s # <<>>
      BY <2>2 DEF Steps
    <3>2. 1..2 = {1, 2} /\ 2..2 = {2}
      OBVIOUS
    <3> QED BY <3>1, <3>2 DEF WellOrdered, Inside, Waiting, UnderPmu
  <2> QED BY <2>1, <2>2
<1>5. Moves(t, s)
  BY <1>1, <1>3, <1>4, ThenMoves
<1>6. ~Inside(th[t].todo) /\ th[t].todo[1] \notin ManagerSteps \cup {"notify"} \cup Closing
  BY <1>1 DEF First, Inside, UnderPmu, ManagerSteps, Closing
<1> QED BY <1>1, <1>2, <1>4, <1>5, <1>6, MoveTypes, QuietMove

(* A step that is followed by one step or none, both on the same side of   *)
(* p.mu.                                                                   *)
LEMMA OneStep ==
  ASSUME Controlled, NEW t \in Threads, NEW x, At(t, x),
         x \notin ManagerSteps \cup {"notify"} \cup Closing,
         NEW y \in Steps, y \notin {"notify", "drain", "lan"},
         y = "takeoverSingle" => th[t].adapters \subseteq Adapters,
         x \in UnderPmu <=> y \in UnderPmu,
         Then(t, <<y>>),
         UNCHANGED <<up, pmu, mmu, running, server, lan, taken, held, query, stray>>
  PROVE  Controlled'
<1> USE DEF Controlled
<1>1. up /\ First(t, x)
  BY AtIsFirst
<1>2. <<y>> \in Seq(Steps) /\ WellOrdered(<<y>>) /\ <<y>>[1] = y /\ (Inside(<<y>>) <=> y \in UnderPmu)
  BY SomeSteps
<1>3. Moves(t, <<y>>)
  BY <1>2, ThenMoves
<1>4. Inside(th[t].todo) <=> x \in UnderPmu
  BY <1>1 DEF First, Inside, ManagerSteps
<1>5. th[t].todo[1] \notin ManagerSteps \cup {"notify"} \cup Closing
  BY <1>1 DEF First
<1> QED BY <1>1, <1>2, <1>3, <1>4, <1>5, MoveTypes, QuietMove

LEMMA NoStep ==
  ASSUME Controlled, NEW t \in Threads, NEW x, At(t, x),
         x \notin ManagerSteps \cup {"notify"} \cup Closing \cup UnderPmu,
         Moves(t, <<>>), TypeOK',
         UNCHANGED <<up, pmu, mmu, running, server, lan>>
  PROVE  Controlled'
<1> USE DEF Controlled
<1>1. up /\ First(t, x)
  BY AtIsFirst
<1>2. ~Inside(th[t].todo)
  BY <1>1 DEF First, Inside, ManagerSteps
<1>3. th[t].todo[1] \notin ManagerSteps \cup {"notify"} \cup Closing
  BY <1>1 DEF First
<1> QED BY <1>1, <1>2, <1>3, SomeSteps, QuietMove

LEMMA QuietStepsControlled ==
  ASSUME Controlled, NEW t \in Threads,
         \/ ScanAdapters(t) \/ SetAdapterTakeover(t) \/ GetTakenOverAdapters(t)
         \/ StatusIsTakeoverActive(t) \/ LANEnable(t) \/ Quit(t) \/ CloseAPI(t)
  PROVE  Controlled'
<1> USE DEF Controlled
<1>0. UNCHANGED <<up, pmu, mmu, running, server, lan, taken, held, query, stray>>
  BY DEF ScanAdapters, SetAdapterTakeover, GetTakenOverAdapters, StatusIsTakeoverActive,
         LANEnable, Quit, CloseAPI
<1> DEFINE Plain == Steps \ (ManagerSteps \cup {"notify"} \cup Closing \cup UnderPmu)
<1>1. ASSUME NEW x \in Plain, At(t, x), Then(t, <<>>) PROVE Controlled'
  BY <1>0, <1>1, SomeSteps, ThenMoves, MoveTypes, NoStep
<1>2. ASSUME NEW x \in Plain, At(t, x), NEW y \in Steps \ (UnderPmu \cup {"takeoverSingle", "lan"}), Then(t, <<y>>)
      PROVE  Controlled'
  BY <1>0, <1>2, OneStep DEF UnderPmu
<1>3. {"scan", "setAdapter", "lanEnable", "quit", "close"} \subseteq Plain
  BY DEF Steps, ManagerSteps, Closing, UnderPmu
<1>4. {"takeover", "enable", "restore"} \subseteq Steps \ (UnderPmu \cup {"takeoverSingle", "lan"})
  BY DEF Steps, ManagerSteps, UnderPmu
<1> HIDE DEF Plain
<1>5. CASE ScanAdapters(t)
  BY <1>1, <1>2, <1>3, <1>4, <1>5 DEF ScanAdapters
<1>6. CASE SetAdapterTakeover(t)
  <2>1. CASE th[t].adapters \subseteq Adapters
    <3>1. At(t, "setAdapter") /\ Then(t, <<"takeoverSingle">>)
      BY <1>6, <2>1 DEF SetAdapterTakeover
    <3> QED BY <1>0, <2>1, <3>1, OneStep DEF Steps, ManagerSteps, Closing, UnderPmu
  <2>2. CASE ~(th[t].adapters \subseteq Adapters)
    BY <1>1, <1>3, <1>6, <2>2 DEF SetAdapterTakeover
  <2> QED BY <2>1, <2>2
<1>7. CASE GetTakenOverAdapters(t)
  <2>1. At(t, "statusAdapters") /\ Then(t, <<"statusActive">>)
    BY <1>7 DEF GetTakenOverAdapters
  <2> QED BY <1>0, <2>1, OneStep DEF Steps, ManagerSteps, Closing, UnderPmu
<1>8. CASE StatusIsTakeoverActive(t)
  <2>1. At(t, "statusActive") /\ Then(t, <<"statusDone">>)
    BY <1>8 DEF StatusIsTakeoverActive
  <2> QED BY <1>0, <2>1, OneStep DEF Steps, ManagerSteps, Closing, UnderPmu
<1>9. CASE LANEnable(t)
  BY <1>1, <1>2, <1>3, <1>4, <1>9 DEF LANEnable
<1>10. CASE Quit(t)
  BY <1>1, <1>2, <1>3, <1>4, <1>10 DEF Quit
<1>11. CASE CloseAPI(t)
  BY <1>1, <1>3, <1>11 DEF CloseAPI
<1> QED BY <1>5, <1>6, <1>7, <1>8, <1>9, <1>10, <1>11

LEMMA EmergencyControlled ==
  ASSUME Controlled, NEW t \in Threads, EmergencyRestore(t) PROVE Controlled'
<1> USE DEF Controlled
<1>1. UNCHANGED <<up, pmu, mmu, running, server, lan, held, query>> /\ taken' \subseteq taken
      /\ stray' \subseteq stray
  BY DEF EmergencyRestore
<1>2. At(t, "emergency") /\ Moves(t, <<>>)
  BY SomeSteps, ThenMoves DEF EmergencyRestore
<1>3. TypeOK'
  BY <1>1, <1>2 DEF TypeOK, Moves, Goroutine
<1> QED BY <1>1, <1>2, <1>3, NoStep DEF ManagerSteps, Closing, UnderPmu

LEMMA LANActiveControlled ==
  ASSUME Controlled, NEW t \in Threads, LANIsTakeoverActive(t) PROVE Controlled'
<1> USE DEF Controlled
<1>1. UNCHANGED <<up, pmu, mmu, running, server, lan, taken, held, query, stray>>
  BY DEF LANIsTakeoverActive
<1>2. At(t, "lanActive")
  BY DEF LANIsTakeoverActive
<1>3. th \in [Threads -> Goroutine] /\ th[t].todo \in Seq(Steps) /\ th[t].todo # <<>>
  BY <1>2 DEF TypeOK, Goroutine, At
<1>4. Push(<<>>, th[t].todo) \in Seq(Steps)
  BY <1>3, SomeSteps, PushFacts
<1>5. Tail(th[t].todo) = Push(<<>>, th[t].todo)
  <2>1. Tail(th[t].todo) \in Seq(Steps)
    BY <1>3
  <2> QED BY <2>1, ConcatEmptySeq DEF Push
<1>6. th' = [th EXCEPT ![t].todo = Push(<<>>, th[t].todo), ![t].was = active]
  BY <1>5 DEF LANIsTakeoverActive
<1>7. PICK b \in BOOLEAN : b = active
  BY DEF active
<1>8. th' = [th EXCEPT ![t].todo = Push(<<>>, th[t].todo), ![t].was = b]
  BY <1>6, <1>7
<1>9. Moves(t, <<>>)
  BY <1>3, <1>4, <1>8 DEF Moves, Goroutine
<1> QED BY <1>1, <1>2, <1>9, MoveTypes, NoStep DEF ManagerSteps, Closing, UnderPmu

LEMMA LockManagerControlled ==
  ASSUME Controlled, NEW t \in Threads, LockManager(t) PROVE Controlled'
<1> USE DEF Controlled
<1>1. UNCHANGED <<up, pmu, running, server, lan, taken, held, th, query, stray>> /\ mmu' = t
  BY DEF LockManager
<1>2. up /\ \E s \in ManagerSteps : First(t, s)
  BY AtIsFirst DEF LockManager
<1>3. TypeOK'
  BY <1>1 DEF TypeOK
<1>4. MLock'
  BY <1>1, <1>2 DEF MLock, First
<1>5. Ordered' /\ PLock' /\ OpenRuns' /\ OldIsClosed'
  BY <1>1 DEF Ordered, PLock, OpenRuns, OldIsClosed, First
<1>6. QuietWhenDown'
  BY <1>1, <1>2 DEF QuietWhenDown
<1> QED BY <1>3, <1>4, <1>5, <1>6

(* An operation of the manager ends, well or not: m.mu is free, the step   *)
(* is done, and the listener is as it was.                                 *)
LEMMA ManagerControlled ==
  ASSUME Controlled, NEW t \in Threads, ManagerDone(t) \/ ManagerFailed(t) PROVE Controlled'
<1> USE DEF Controlled
<1>1. UNCHANGED <<up, pmu, running, server, lan, query>> /\ mmu = t /\ mmu' = None
  BY DEF ManagerDone, ManagerFailed
<1>2. PICK x \in ManagerSteps : At(t, x)
  BY DEF ManagerDone, ManagerFailed, ManagerSteps
<1>3. Moves(t, <<>>)
  BY <1>2, SomeSteps, ThenMoves DEF ManagerDone, ManagerFailed
<1>4. up /\ First(t, x)
  BY <1>2, AtIsFirst
<1>5. taken' \subseteq Adapters /\ held' \subseteq Adapters /\ stray' \subseteq Adapters
  <2>1. At(t, "takeoverSingle") => th[t].adapters \subseteq Adapters
    BY AtIsFirst DEF Ordered
  <2>2. taken \subseteq Adapters /\ held \subseteq Adapters
    BY DEF TypeOK
  <2>3. CASE ManagerDone(t)
    BY <2>1, <2>2, <2>3 DEF ManagerDone, Strays
  <2>4. CASE ManagerFailed(t)
    <3>1. taken' \subseteq Adapters /\ held' \subseteq Adapters
      BY <2>1, <2>2, <2>4 DEF ManagerFailed, Leftovers
    <3>2. stray' \subseteq taken'
      BY <2>4 DEF ManagerFailed, Strays
    <3> QED BY <3>1, <3>2
  <2> QED BY <2>3, <2>4
<1>6. TypeOK'
  BY <1>1, <1>3, <1>5 DEF TypeOK, Moves, Goroutine
<1>7. /\ Ordered' /\ (Inside(th'[t].todo) <=> Inside(th[t].todo))
      /\ \A y : First(t, y)' => y \in Waiting \cup {"notify", "shutdown"}
  <2>1. CASE x = "restore"
    BY <1>3, <1>4, <2>1, PopKeepsLists DEF First
  <2>2. CASE x # "restore"
    <3>1. ~Inside(th[t].todo) /\ th[t].todo[1] \notin {"restore", "notify"}
      BY <1>4, <2>2 DEF First, Inside, UnderPmu, ManagerSteps
    <3> QED BY <1>3, <3>1, SomeSteps, MoveKeepsOrder
  <2> QED BY <2>1, <2>2
<1>8. PLock'
  BY <1>1, <1>3, <1>7 DEF PLock, Moves
<1>9. MLock'
  BY <1>1, ControllerAssumption DEF MLock
<1>10. OpenRuns'
  BY <1>1, <1>3, <1>7 DEF OpenRuns, Moves, First, Waiting
<1>11. OldIsClosed'
  <2>1. th[t].todo[1] \notin Closing
    BY <1>4 DEF First, ManagerSteps, Closing
  <2> QED BY <1>1, <1>3, <2>1, SomeSteps, MoveKeepsRestart
<1>12. QuietWhenDown'
  BY <1>1, <1>4 DEF QuietWhenDown
<1> QED BY <1>6, <1>7, <1>8, <1>9, <1>10, <1>11, <1>12

LEMMA GetStatusControlled ==
  ASSUME Controlled, NEW t \in Threads, GetStatus(t) PROVE Controlled'
<1> USE DEF Controlled
<1>1. At(t, "status") /\ up /\ First(t, "status") /\ pmu = None
  BY AtIsFirst DEF GetStatus
<1>2. UNCHANGED <<up, mmu, running, server, lan, taken, held, query, stray>> /\ pmu' = t
  BY DEF GetStatus
<1> DEFINE s == <<"statusAdapters">>
<1>3. s \in Seq(Steps) /\ WellOrdered(s) /\ Inside(s) /\ s[1] = "statusAdapters"
  BY SomeSteps DEF Steps, UnderPmu
<1>4. Moves(t, s)
  BY <1>1, <1>3, ThenMoves DEF GetStatus
<1> HIDE DEF s
<1>5. th[t].todo[1] \notin ManagerSteps \cup {"notify"} \cup Closing
  BY <1>1 DEF First, ManagerSteps, Closing
<1>6. TypeOK'
  BY <1>2, <1>4 DEF TypeOK, Moves, Goroutine
<1>7. /\ Ordered' /\ Inside(th'[t].todo)
      /\ \A x : First(t, x)' => x \in Waiting \cup {"statusAdapters"}
  BY <1>3, <1>4, <1>5, MoveKeepsOrder DEF ManagerSteps
<1>8. \A u \in Threads \ {t} : ~Inside(th'[u].todo)
  BY <1>1, <1>4, ControllerAssumption DEF PLock, Moves
<1>9. PLock'
  BY <1>2, <1>7, <1>8 DEF PLock
<1>10. MLock'
  BY <1>2, <1>4, <1>5 DEF MLock, Moves, First
<1>11. OpenRuns'
  BY <1>2, <1>4, <1>7 DEF OpenRuns, Moves, First, Waiting
<1>12. OldIsClosed'
  BY <1>2, <1>3, <1>4, <1>5, MoveKeepsRestart
<1>13. QuietWhenDown'
  BY <1>1, <1>2 DEF QuietWhenDown
<1> QED BY <1>6, <1>7, <1>9, <1>10, <1>11, <1>12, <1>13

LEMMA StatusDoneControlled ==
  ASSUME Controlled, NEW t \in Threads, StatusDone(t) PROVE Controlled'
<1> USE DEF Controlled
<1>1. At(t, "statusDone") /\ up /\ First(t, "statusDone")
  BY AtIsFirst DEF StatusDone
<1>2. UNCHANGED <<up, mmu, running, server, lan, taken, held, query, stray>> /\ pmu' = None
  BY DEF StatusDone
<1>3. Moves(t, <<>>)
  BY <1>1, SomeSteps, ThenMoves DEF StatusDone
<1>4. Inside(th[t].todo) /\ th[t].todo[1] \notin ManagerSteps \cup {"notify"} \cup Closing
  BY <1>1 DEF First, Inside, UnderPmu, ManagerSteps, Closing
<1>5. pmu = t
  BY <1>4 DEF PLock
<1>6. TypeOK'
  BY <1>2, <1>3 DEF TypeOK, Moves, Goroutine
<1>7. Ordered' /\ ~Inside(th'[t].todo) /\ \A x : First(t, x)' => x \in Waiting
  BY <1>3, <1>4, SomeSteps, MoveKeepsOrder DEF ManagerSteps
<1>8. PLock'
  BY <1>2, <1>3, <1>5, <1>7, ControllerAssumption DEF PLock, Moves
<1>9. MLock'
  BY <1>2, <1>3, <1>4 DEF MLock, Moves, First
<1>10. OpenRuns'
  BY <1>2, <1>3, <1>7 DEF OpenRuns, Moves, First, Waiting
<1>11. OldIsClosed'
  BY <1>2, <1>3, <1>4, SomeSteps, MoveKeepsRestart
<1>12. QuietWhenDown'
  BY <1>1, <1>2 DEF QuietWhenDown
<1> QED BY <1>6, <1>7, <1>8, <1>9, <1>10, <1>11, <1>12

LEMMA ConfigureLANControlled ==
  ASSUME Controlled, NEW t \in Threads, ConfigureLAN(t) PROVE Controlled'
<1> USE DEF Controlled
<1>1. At(t, "lan") /\ up /\ First(t, "lan")
  BY AtIsFirst DEF ConfigureLAN
<1>0. th[t].call = "ConfigureLAN"
  BY <1>1 DEF Ordered
<1>2. UNCHANGED <<up, pmu, mmu, running, server, taken, held, query, stray>> /\ lan' = th[t].on
  BY DEF ConfigureLAN
<1>3. PICK s \in {<<>>, <<"lanActive", "stop", "start", "lanEnable">>} :
        Then(t, s) /\ (running => s # <<>>)
  BY DEF ConfigureLAN
<1>4. /\ s \in Seq(Steps) /\ WellOrdered(s) /\ ~Inside(s)
      /\ s # <<>> => Len(s) = 4 /\ s[1] = "lanActive" /\ s[2] = "stop" /\ s[3] = "start"
  <2>1. CASE s = <<>>
    BY <2>1, SomeSteps
  <2>2. CASE s = <<"lanActive", "stop", "start", "lanEnable">>
    <3>1. /\ s \in Seq(Steps) /\ Len(s) = 4 /\ s[1] = "lanActive" /\ s[2] = "stop"
          /\ s[3] = "start" /\ s[4] = "lanEnable" /\ s # <<>>
      BY <2>2 DEF Steps
    <3>2. 1..4 = {1, 2, 3, 4} /\ 2..4 = {2, 3, 4}
      OBVIOUS
    <3> QED BY <3>1, <3>2 DEF WellOrdered, Inside, Waiting, UnderPmu
  <2> QED BY <2>1, <2>2
<1>5. Moves(t, s)
  BY <1>1, <1>3, <1>4, ThenMoves
<1>6. ~Inside(th[t].todo) /\ th[t].todo[1] \notin ManagerSteps \cup {"notify"} \cup Closing
  BY <1>1 DEF First, Inside, UnderPmu, ManagerSteps, Closing
<1>7. TypeOK'
  BY <1>2, <1>5 DEF TypeOK, Moves, Goroutine
<1>8. /\ Ordered' /\ ~Inside(th'[t].todo)
      /\ \A x : First(t, x)' => x \in Waiting \cup {"lanActive"}
  BY <1>4, <1>5, <1>6, MoveKeepsOrder DEF ManagerSteps
<1>9. PLock'
  BY <1>2, <1>5, <1>6, <1>8 DEF PLock, Moves
<1>10. MLock'
  BY <1>2, <1>5, <1>6 DEF MLock, Moves, First
<1>11. OpenRuns'
  BY <1>2, <1>5, <1>8 DEF OpenRuns, Moves, First, Waiting
<1>12. OldIsClosed'
  <2>1. CASE server = None
    BY <1>2, <2>1 DEF OldIsClosed
  <2>2. CASE server # None
    <3>1. s # <<>> /\ Len(s) = 4 /\ s[2] = "stop" /\ s[3] = "start"
      BY <1>3, <1>4, <2>2 DEF OpenRuns
    <3>2. th[t].todo \in Seq(Steps) /\ th[t].todo # <<>> /\ th'[t].todo = Push(s, th[t].todo)
      BY <1>5 DEF TypeOK, Moves
    <3>3. Restarts(s)
      <4>1. 2 \in 1..Len(s) /\ 3 \in 1..Len(s) /\ 2 < 3
        BY <3>1
      <4> QED BY <3>1, <4>1 DEF Restarts, Closing
    <3>4. Restarts(th'[t].todo)
      BY <1>4, <3>2, <3>3, PushBringsRestart
    <3> QED BY <1>0, <1>5, <3>4 DEF OldIsClosed, Moves
  <2> QED BY <2>1, <2>2
<1>13. QuietWhenDown'
  BY <1>1, <1>2 DEF QuietWhenDown
<1> QED BY <1>7, <1>8, <1>9, <1>10, <1>11, <1>12, <1>13

(* A goroutine that has nothing more to do, or has not begun, can be given *)
(* another list: nobody counts on it.                                      *)
LEMMA FreshControlled ==
  ASSUME Controlled, NEW t \in Threads, th[t].todo = <<>>, NEW g \in Goroutine,
         WellOrdered(g.todo), ~Inside(g.todo), g.call = None => g.todo = <<>>,
         g.todo # <<>> => /\ g.todo[1] \notin {"takeoverSingle", "drain"}
                          /\ g.todo[1] = "lan" => g.call = "ConfigureLAN",
         th' = [th EXCEPT ![t] = g], g.todo = <<>> \/ up',
         up' \in {up, TRUE},
         taken' \subseteq taken, stray' \subseteq Adapters,
         UNCHANGED <<pmu, mmu, running, server, lan, held, query>>
  PROVE  Controlled'
<1> USE DEF Controlled
<1>0. th \in [Threads -> Goroutine]
  BY DEF TypeOK, Goroutine
<1>1. th'[t] = g /\ \A u \in Threads \ {t} : th'[u] = th[u]
  BY <1>0
<1>2. TypeOK'
  <2>1. th' \in [Threads -> Goroutine]
    BY <1>0
  <2>2. up' \in BOOLEAN
    BY DEF TypeOK
  <2> QED BY <2>1, <2>2 DEF TypeOK, Goroutine
<1>3. Ordered'
  BY <1>1 DEF Ordered, First
<1>4. ~Inside(th[t].todo)
  BY DEF Inside
<1>5. PLock'
  BY <1>1, <1>4 DEF PLock
<1>6. MLock'
  BY <1>1 DEF MLock, First
<1>7. OpenRuns'
  BY <1>1 DEF OpenRuns, First
<1>8. OldIsClosed'
  <2>1. ~Restarts(th[t].todo)
    <3>1. 1..Len(<<>>) = {}
      OBVIOUS
    <3> QED BY <3>1 DEF Restarts
  <2> QED BY <1>1, <2>1 DEF OldIsClosed
<1>9. QuietWhenDown'
  BY <1>1 DEF QuietWhenDown
<1> QED BY <1>2, <1>3, <1>5, <1>6, <1>7, <1>8, <1>9

LEMMA ReturnControlled ==
  ASSUME Controlled, NEW t \in Threads, Return(t) PROVE Controlled'
<1>1. Idle \in Goroutine /\ Idle.todo = <<>> /\ Idle.call = None
  BY SomeSteps DEF Idle, Goroutine
<1>2. /\ th[t].todo = <<>> /\ th' = [th EXCEPT ![t] = Idle]
      /\ UNCHANGED <<up, pmu, mmu, running, server, lan, taken, held, query, stray>>
  BY DEF Return
<1>3. stray' \subseteq Adapters
  BY <1>2 DEF Controlled, TypeOK
<1> QED BY <1>1, <1>2, <1>3, SomeSteps, FreshControlled

(* The lists of the calls.                                                 *)
LEMMA StepsOfCalls ==
  ASSUME NEW c \in CallKinds \ {"Run"}
  PROVE  /\ StepsOf(c) \in Seq(Steps) /\ StepsOf(c) # <<>>
         /\ WellOrdered(StepsOf(c)) /\ ~Inside(StepsOf(c))
         /\ StepsOf(c)[1] \notin {"takeoverSingle", "drain"}
         /\ StepsOf(c)[1] = "lan" => c = "ConfigureLAN"
<1>1. CASE c # "Stop"
  <2>1. PICK x \in {"start", "stop", "enable", "restore", "setAdapter", "restoreSingle",
                    "emergency", "status", "lan"} :
          StepsOf(c) = <<x>> /\ (x = "lan" => c = "ConfigureLAN")
    BY <1>1 DEF StepsOf, CallKinds
  <2>2. x \in Steps \ UnderPmu
    BY DEF Steps, ManagerSteps, UnderPmu
  <2> QED BY <2>1, <2>2, SomeSteps DEF UnderPmu
<1>2. CASE c = "Stop"
  <2> DEFINE s == <<"quit", "stop", "close", "exit">>
  <2>1. StepsOf(c) = s
    BY <1>2 DEF StepsOf
  <2>2. /\ s \in Seq(Steps) /\ Len(s) = 4 /\ s # <<>>
        /\ s[1] = "quit" /\ s[2] = "stop" /\ s[3] = "close" /\ s[4] = "exit"
    BY DEF Steps
  <2>3. 1..4 = {1, 2, 3, 4} /\ 2..4 = {2, 3, 4}
    OBVIOUS
  <2> HIDE DEF s
  <2> QED BY <2>1, <2>2, <2>3 DEF WellOrdered, Inside, Waiting, UnderPmu
<1> QED BY <1>1, <1>2

LEMMA CallControlled ==
  ASSUME Controlled, NEW t \in Threads, Request(t) PROVE Controlled'
<1>1. PICK c \in Calls, on \in BOOLEAN, S \in SUBSET (Adapters \cup {None}) : Call(t, c, on, S)
  BY DEF Request
<1> DEFINE g == [Idle EXCEPT !.call = c, !.todo = StepsOf(c), !.on = on, !.adapters = S]
<1>2. c \in CallKinds \ {"Run"}
  BY ControllerAssumption
<1>3. g \in Goroutine /\ g.call = c /\ g.todo = StepsOf(c)
  BY <1>2, StepsOfCalls DEF Idle, Goroutine
<1>4. /\ up /\ th[t].todo = <<>> /\ th' = [th EXCEPT ![t] = g]
      /\ UNCHANGED <<up, pmu, mmu, running, server, lan, taken, held, query, stray>>
  BY <1>1 DEF Call, Controlled, Ordered
<1>5. g.call # None /\ stray' \subseteq Adapters
  BY <1>2, <1>3, <1>4, ControllerAssumption DEF Controlled, TypeOK
<1> HIDE DEF g
<1> QED BY <1>2, <1>3, <1>4, <1>5, StepsOfCalls, FreshControlled

LEMMA RunControlled ==
  ASSUME Controlled, NEW t \in Threads, Run(t) PROVE Controlled'
<1>1. PICK s \in {<<"start", "enable">>, <<"start">>} :
        th' = [th EXCEPT ![t] = [Idle EXCEPT !.call = "Run", !.todo = s]]
  BY DEF Run
<1> DEFINE g == [Idle EXCEPT !.call = "Run", !.todo = s]
<1>2. s \in Seq(Steps) /\ WellOrdered(s) /\ ~Inside(s) /\ s[1] = "start" /\ s # <<>>
  <2>1. CASE s = <<"start">>
    BY <2>1, SomeSteps DEF Steps, UnderPmu
  <2>2. CASE s = <<"start", "enable">>
    <3>1. s \in Seq(Steps) /\ Len(s) = 2 /\ s[1] = "start" /\ s[2] = "enable" /\ s # <<>>
      BY <2>2 DEF Steps
    <3>2. 1..2 = {1, 2} /\ 2..2 = {2}
      OBVIOUS
    <3> QED BY <3>1, <3>2 DEF WellOrdered, Inside, Waiting, UnderPmu
  <2> QED BY <2>1, <2>2
<1>3. g \in Goroutine /\ g.call = "Run" /\ g.todo = s
  BY <1>2 DEF Idle, Goroutine, CallKinds
<1>4. th[t].todo = <<>> /\ up' = TRUE /\ taken' \subseteq taken /\ stray' \subseteq Adapters
      /\ UNCHANGED <<pmu, mmu, running, server, lan, held, query>>
  BY DEF Run, Controlled, QuietWhenDown, TypeOK
<1>5. th' = [th EXCEPT ![t] = g]
  BY <1>1
<1> HIDE DEF g
<1>6. g.call = None => g.todo = <<>>
  BY <1>3, ControllerAssumption DEF CallKinds
<1> QED BY <1>2, <1>3, <1>4, <1>5, <1>6, FreshControlled

LEMMA ExitControlled ==
  ASSUME Controlled, NEW t \in Threads, Exit(t) PROVE Controlled'
<1>1. /\ up' = FALSE /\ pmu' = None /\ mmu' = None /\ running' = FALSE /\ server' = None
      /\ held' = {} /\ th' = [u \in Threads |-> Idle] /\ query' = [q \in Queries |-> "idle"]
      /\ UNCHANGED <<lan, taken, stray>>
  BY DEF Exit
<1>2. Idle \in Goroutine /\ Idle.todo = <<>> /\ Idle.call = None
  BY SomeSteps DEF Idle, Goroutine
<1>3. \A u \in Threads : th'[u].todo = <<>> /\ th'[u].call = None
  BY <1>1, <1>2
<1>4. TypeOK'
  BY <1>1, <1>2 DEF TypeOK, Goroutine, Controlled
<1>5. Ordered'
  BY <1>3, SomeSteps DEF Ordered, First
<1>6. PLock' /\ MLock'
  BY <1>1, <1>3, SomeSteps, ControllerAssumption DEF PLock, MLock
<1>7. OpenRuns' /\ OldIsClosed' /\ QuietWhenDown'
  BY <1>1, <1>3 DEF OpenRuns, OldIsClosed, QuietWhenDown
<1> QED BY <1>4, <1>5, <1>6, <1>7 DEF Controlled

LEMMA QueryControlled ==
  ASSUME Controlled, NEW q \in Queries, Arrive(q) \/ Pipeline(q) PROVE Controlled'
<1>1. UNCHANGED <<up, pmu, mmu, running, server, lan, taken, held, th, stray>>
  BY DEF Arrive, Pipeline
<1>2. query' \in [Queries -> {"idle", "before", "upstream", "after"}]
  BY DEF Arrive, Pipeline, Controlled, TypeOK
<1>3. TypeOK'
  BY <1>1, <1>2 DEF TypeOK, Controlled
<1>4. Ordered' /\ QuietWhenDown' /\ PLock' /\ MLock' /\ OpenRuns' /\ OldIsClosed'
  BY <1>1 DEF Controlled, Ordered, QuietWhenDown, PLock, MLock, OpenRuns, OldIsClosed, First
<1> QED BY <1>3, <1>4 DEF Controlled

LEMMA InitControlled ==
  ASSUME Init PROVE Controlled
<1>1. Idle \in Goroutine /\ Idle.todo = <<>> /\ Idle.call = None
  BY SomeSteps DEF Idle, Goroutine
<1>2. \A u \in Threads : th[u].todo = <<>> /\ th[u].call = None
  BY <1>1 DEF Init
<1>3. TypeOK
  BY <1>1 DEF Init, TypeOK, Goroutine
<1>4. Ordered
  BY <1>2, SomeSteps DEF Ordered, First
<1>5. PLock /\ MLock
  BY <1>2, SomeSteps, ControllerAssumption DEF Init, PLock, MLock
<1>6. OpenRuns /\ OldIsClosed /\ QuietWhenDown
  BY <1>2 DEF Init, OpenRuns, OldIsClosed, QuietWhenDown
<1> QED BY <1>3, <1>4, <1>5, <1>6 DEF Controlled

LEMMA NextControlled ==
  ASSUME Controlled, [Next]_vars PROVE Controlled'
<1>1. ASSUME NEW t \in Threads, Step(t) PROVE Controlled'
  BY <1>1, StartControlled, StopControlled, StopActiveControlled, NotifyControlled,
     ShutdownControlled, DrainControlled, EnableControlled, QuietStepsControlled,
     LockManagerControlled, ManagerControlled, EmergencyControlled, GetStatusControlled,
     StatusDoneControlled, ConfigureLANControlled, LANActiveControlled, ExitControlled,
     ReturnControlled DEF Step
<1>2. CASE UNCHANGED vars
  BY <1>2 DEF vars, Controlled, TypeOK, Ordered, QuietWhenDown, PLock, MLock, OpenRuns,
              OldIsClosed, First
<1> QED BY <1>1, <1>2, CallControlled, RunControlled, QueryControlled DEF Next

LEMMA ControlledAlways == Spec => []Controlled
<1>1. Init => Controlled
  BY InitControlled
<1>2. Controlled /\ [Next]_vars => Controlled'
  BY NextControlled
<1> QED BY <1>1, <1>2, PTL DEF Spec

(* p.mu and m.mu: however the calls of the API, the service manager and    *)
(* the queries interleave, a goroutine holds a lock exactly while it is    *)
(* inside a section of it, so every path out of StopDNS, GetStatus and the *)
(* manager's operations unlocks, once.                                     *)
THEOREM LocksAreExact == Spec => []LocksMatchSteps
<1>1. ASSUME Controlled PROVE LocksMatchSteps
  <2>1. TypeOK
    BY <1>1 DEF Controlled
  <2>2. ASSUME NEW t \in Threads PROVE pmu = t <=> InSection(t)
    <3>1. \A x : At(t, x) <=> up /\ First(t, x)
      BY <2>1, AtIsFirst
    <3>2. InSection(t) <=> up /\ Inside(th[t].todo)
      BY <3>1 DEF InSection, StopRestores, Inside, First, UnderPmu
    <3>3. Inside(th[t].todo) => up
      BY <1>1 DEF Controlled, QuietWhenDown, Inside
    <3> QED BY <1>1, <3>2, <3>3 DEF Controlled, PLock
  <2>3. ASSUME NEW t \in Threads, mmu = t PROVE \E s \in ManagerSteps : At(t, s)
    <3>1. \E s \in ManagerSteps : First(t, s)
      BY <1>1, <2>3 DEF Controlled, MLock
    <3>2. up
      BY <1>1, <3>1 DEF Controlled, QuietWhenDown, First
    <3> QED BY <2>1, <3>1, <3>2, AtIsFirst
  <2> QED BY <2>1, <2>2, <2>3 DEF LocksMatchSteps
<1>2. Controlled => LocksMatchSteps
  BY <1>1
<1> QED BY <1>2, ControlledAlways, PTL

(* ConfigureLAN: an open listener is bound as AllowLAN says, or a          *)
(* ConfigureLAN is on its way to restarting it, whoever starts and stops   *)
(* the listener between its steps.                                         *)
THEOREM ListenerIsConfigured == Spec => []ListenerFollowsConfig
<1>1. ASSUME Controlled PROVE ListenerFollowsConfig
  <2> SUFFICES ASSUME server # None, server # lan
               PROVE  \E t \in Threads : /\ th[t].call = "ConfigureLAN"
                                         /\ \E i \in DOMAIN th[t].todo : th[t].todo[i] = "start"
    BY DEF ListenerFollowsConfig
  <2>1. PICK t \in Threads : th[t].call = "ConfigureLAN" /\ Restarts(th[t].todo)
    BY <1>1 DEF Controlled, OldIsClosed
  <2>2. th[t].todo \in Seq(Steps)
    BY <1>1 DEF Controlled, TypeOK
  <2>3. \E i \in DOMAIN th[t].todo : th[t].todo[i] = "start"
    BY <2>1, <2>2 DEF Restarts
  <2> QED BY <2>1, <2>3
<1>2. Controlled => ListenerFollowsConfig
  BY <1>1
<1> QED BY <1>2, ControlledAlways, PTL

-----------------------------------------------------------------------------
(* What StopDNS's comment and EnableTakeover's start are for: adapters     *)
(* point at this machine only while it listens, but for the stray ones.    *)

(* A goroutine about to take over has been told that the listener runs, or *)
(* never asked.                                                            *)
Assured ==
  \A t \in Threads : First(t, "takeover") \/ First(t, "takeoverSingle") \/ First(t, "setAdapter") => th[t].ok

(* Who closes the listener has been told of no other adapter that points   *)
(* here, nor is there one once it is closed; and the manager remembers all *)
(* that are not stray.                                                     *)
Watched ==
  /\ Controlled /\ Assured
  /\ up => taken \ held \subseteq stray
  /\ up /\ server = None => taken \subseteq stray
  /\ \A t \in Threads : First(t, "notify") \/ First(t, "shutdown") => taken \subseteq stray

(* The step that comes first after a move.                                 *)
LEMMA NextFirst ==
  ASSUME TypeOK, Ordered, NEW t \in Threads, NEW s \in Seq(Steps), Moves(t, s), NEW x, First(t, x)'
  PROVE  \/ s # <<>> /\ x = s[1]
         \/ x \in Waiting
         \/ x = "notify" /\ th[t].todo[1] = "restore" /\ Len(th[t].todo) > 1 /\ th[t].todo[2] = "notify"
         \/ x = "shutdown" /\ th[t].todo[1] = "notify"
<1> DEFINE q == th[t].todo
           r == th'[t].todo
<1>1. q \in Seq(Steps) /\ q # <<>> /\ WellOrdered(q) /\ r = Push(s, q)
  BY DEF TypeOK, Ordered, Moves
<1> HIDE DEF q, r
<1>2. /\ r \in Seq(Steps) /\ Len(r) = Len(s) + Len(q) - 1
      /\ \A i \in 1..Len(s) : r[i] = s[i]
      /\ \A i \in 2..Len(q) : r[Len(s) + i - 1] = q[i]
  <2> SUFFICES ASSUME NEW w, w = Push(s, q)
               PROVE  /\ w \in Seq(Steps) /\ Len(w) = Len(s) + Len(q) - 1
                      /\ \A i \in 1..Len(s) : w[i] = s[i]
                      /\ \A i \in 2..Len(q) : w[Len(s) + i - 1] = q[i]
    BY <1>1, Zenon
  <2> QED BY <1>1, PushFacts
<1> USE DEF q, r
<1>3. r # <<>> /\ r[1] = x
  BY DEF First
<1>4. CASE s # <<>>
  <2>1. 1 \in 1..Len(s)
    BY <1>4
  <2> QED BY <1>2, <1>3, <1>4, <2>1
<1>5. CASE s = <<>>
  <2>1. Len(s) = 0 /\ Len(r) > 0 /\ Len(q) \in Nat
    BY <1>1, <1>2, <1>3, <1>5
  <2>2. Len(q) > 1 /\ 2 \in 2..Len(q)
    BY <1>2, <2>1
  <2>3. r[1] = q[2]
    BY <1>2, <2>1, <2>2
  <2>4. \/ q[2] \in Waiting
        \/ q[1] = "restore" /\ q[2] = "notify"
        \/ q[1] = "notify" /\ q[2] = "shutdown"
    BY <1>1, <2>2 DEF WellOrdered
  <2> QED BY <1>3, <2>2, <2>3, <2>4
<1> QED BY <1>4, <1>5

(* A move after which nobody new is assured of the listener or closes it.  *)
LEMMA QuietWatched ==
  ASSUME Watched, Controlled', NEW t \in Threads, NEW s \in Seq(Steps), Moves(t, s),
         UNCHANGED <<up, taken, held, stray>>,
         up /\ server' = None => taken \subseteq stray,
         s # <<>> /\ s[1] \in {"takeover", "takeoverSingle", "setAdapter"} => th'[t].ok,
         First(t, "notify")' \/ First(t, "shutdown")' => taken \subseteq stray
  PROVE  Watched'
<1>1. TypeOK /\ Ordered /\ Assured
  BY DEF Watched, Controlled
<1>2. \A x : First(t, x)' => (s # <<>> /\ x = s[1]) \/ x \in Waiting \cup {"notify", "shutdown"}
  BY <1>1, NextFirst
<1>3. \A u \in Threads \ {t} : th'[u] = th[u]
  BY DEF Moves
<1>4. Assured'
  <2>1. \A x \in {"takeover", "takeoverSingle", "setAdapter"} : First(t, x)' => th'[t].ok
    BY <1>2 DEF Waiting
  <2>2. \A u \in Threads \ {t} : \A x : First(u, x)' <=> First(u, x)
    BY <1>3 DEF First
  <2> QED BY <1>1, <1>3, <2>1, <2>2 DEF Assured
<1>5. \A u \in Threads \ {t} : First(u, "notify")' \/ First(u, "shutdown")' => taken \subseteq stray
  BY <1>3 DEF First, Watched
<1> QED BY <1>4, <1>5 DEF Watched

(* The steps that leave the adapters, the manager and the listener alone.  *)
LEMMA PlainWatched ==
  ASSUME Watched, Controlled', NEW t \in Threads, NEW x, At(t, x), x \notin {"restore", "notify"},
         NEW s \in Seq(Steps), Then(t, s) \/ \E b \in BOOLEAN : ThenOk(t, s, b),
         UNCHANGED <<up, server, taken, held, stray>>,
         s # <<>> => /\ s[1] \notin {"notify", "shutdown"}
                     /\ s[1] \in {"takeover", "takeoverSingle", "setAdapter"} => th'[t].ok
  PROVE  Watched'
<1>1. TypeOK /\ Ordered
  BY DEF Watched, Controlled
<1>2. Moves(t, s)
  BY <1>1, ThenMoves
<1>3. First(t, x)
  BY <1>1, AtIsFirst
<1>4. ~First(t, "notify")' /\ ~First(t, "shutdown")'
  BY <1>1, <1>2, <1>3, NextFirst DEF First, Waiting
<1>5. up /\ server' = None => taken \subseteq stray
  BY DEF Watched
<1> QED BY <1>2, <1>4, <1>5, QuietWatched

LEMMA ThenKeepsOk ==
  ASSUME TypeOK, NEW t \in Threads, NEW s, Then(t, s) PROVE th'[t].ok = th[t].ok
BY DEF TypeOK, Then

(* Who is inside StopDNS holds p.mu.                                       *)
LEMMA ClosersHold ==
  ASSUME Controlled, NEW t \in Threads, First(t, "notify") \/ First(t, "shutdown") PROVE pmu = t
BY DEF Controlled, PLock, Inside, First, UnderPmu

LEMMA StartWatched ==
  ASSUME Watched, Controlled', NEW t \in Threads, StartDNS(t) PROVE Watched'
<1>0. Controlled /\ TypeOK /\ Ordered
  BY DEF Watched, Controlled
<1>1. At(t, "start") /\ pmu = None /\ UNCHANGED <<up, taken, held>> /\ up
  BY DEF StartDNS, At
<1>2. \E b \in BOOLEAN : ThenOk(t, <<>>, b)
  BY DEF StartDNS
<1>3. CASE UNCHANGED <<server, stray>>
  BY <1>1, <1>2, <1>3, SomeSteps, PlainWatched
<1>4. CASE server' = lan /\ stray' = stray \ held
  <2>1. Moves(t, <<>>) /\ First(t, "start")
    BY <1>0, <1>1, <1>2, SomeSteps, ThenMoves, AtIsFirst
  <2>2. server' # None
    BY <1>0, <1>4, ControllerAssumption DEF TypeOK
  <2>3. \A u \in Threads : ~First(u, "notify") /\ ~First(u, "shutdown")
    BY <1>0, <1>1, ClosersHold, ControllerAssumption
  <2>4. \A x : First(t, x)' => x \in Waiting
    BY <1>0, <2>1, SomeSteps, NextFirst DEF First
  <2>5. \A u \in Threads \ {t} : th'[u] = th[u]
    BY <2>1 DEF Moves
  <2>6. \A u \in Threads : ~First(u, "notify")' /\ ~First(u, "shutdown")'
    BY <2>3, <2>4, <2>5 DEF First, Waiting
  <2>7. Assured'
    <3>1. \A x \in {"takeover", "takeoverSingle", "setAdapter"} : ~First(t, x)'
      BY <2>4 DEF Waiting
    <3> QED BY <2>5, <3>1 DEF Assured, Watched, First
  <2>8. taken' \ held' \subseteq stray'
    BY <1>1, <1>4 DEF Watched
  <2> QED BY <2>2, <2>6, <2>7, <2>8 DEF Watched
<1> QED BY <1>3, <1>4 DEF StartDNS

LEMMA StopWatched ==
  ASSUME Watched, Controlled', NEW t \in Threads,
         StopDNS(t) \/ StopIsTakeoverActive(t) \/ Notify(t) \/ Shutdown(t) \/ Drain(t)
  PROVE  Watched'
<1>0. Controlled /\ TypeOK /\ Ordered
  BY DEF Watched, Controlled
<1>1. CASE StopDNS(t)
  <2>1. PICK s \in {<<>>, <<"stopActive">>} : Then(t, s)
    BY <1>1 DEF StopDNS
  <2>2. s \in Seq(Steps) /\ (s # <<>> => s[1] = "stopActive")
    BY SomeSteps DEF Steps
  <2>3. At(t, "stop") /\ UNCHANGED <<up, server, taken, held, stray>>
    BY <1>1 DEF StopDNS
  <2> QED BY <2>1, <2>2, <2>3, PlainWatched
<1>2. CASE StopIsTakeoverActive(t)
  <2>1. At(t, "stopActive") /\ UNCHANGED <<up, server, taken, held, stray>> /\ up
    BY <1>2 DEF StopIsTakeoverActive, At
  <2>2. CASE active
    <3> DEFINE s == <<"restore", "notify", "shutdown">>
    <3>1. s \in Seq(Steps) /\ s # <<>> /\ s[1] = "restore"
      BY DEF Steps, ManagerSteps
    <3>2. Then(t, s)
      BY <1>2, <2>2 DEF StopIsTakeoverActive
    <3> HIDE DEF s
    <3> QED BY <2>1, <3>1, <3>2, PlainWatched
  <2>3. CASE ~active
    <3>1. <<"shutdown">> \in Seq(Steps) /\ <<"shutdown">>[1] = "shutdown"
      BY SomeSteps DEF Steps
    <3>2. Moves(t, <<"shutdown">>)
      BY <1>0, <1>2, <2>1, <2>3, <3>1, ThenMoves DEF StopIsTakeoverActive
    <3>3. taken \subseteq stray
      BY <2>1, <2>3 DEF Watched, active
    <3> QED BY <2>1, <3>1, <3>2, <3>3, QuietWatched
  <2> QED BY <2>2, <2>3
<1>3. CASE Notify(t)
  <2>1. At(t, "notify") /\ UNCHANGED <<up, server, taken, held, stray>>
    BY <1>3 DEF Notify
  <2>2. Moves(t, <<>>)
    BY <1>0, <1>3, <2>1, SomeSteps, ThenMoves DEF Notify
  <2>3. taken \subseteq stray
    BY <1>0, <2>1, AtIsFirst DEF Watched
  <2> QED BY <2>1, <2>2, <2>3, SomeSteps, QuietWatched
<1>4. CASE Shutdown(t)
  <2>1. At(t, "shutdown") /\ UNCHANGED <<up, taken, held, stray>>
    BY <1>4 DEF Shutdown
  <2>2. <<"drain">> \in Seq(Steps) /\ <<"drain">>[1] = "drain"
    BY SomeSteps DEF Steps
  <2>3. Moves(t, <<"drain">>)
    BY <1>0, <1>4, <2>1, <2>2, ThenMoves DEF Shutdown
  <2>4. taken \subseteq stray
    BY <1>0, <2>1, AtIsFirst DEF Watched
  <2> QED BY <2>1, <2>2, <2>3, <2>4, QuietWatched
<1>5. CASE Drain(t)
  <2>1. At(t, "drain") /\ Then(t, <<>>) /\ UNCHANGED <<up, server, taken, held, stray>>
    BY <1>5 DEF Drain
  <2> QED BY <2>1, SomeSteps, PlainWatched
<1> QED BY <1>1, <1>2, <1>3, <1>4, <1>5

LEMMA RoutineWatched ==
  ASSUME Watched, Controlled', NEW t \in Threads,
         \/ EnableTakeover(t) \/ ScanAdapters(t) \/ SetAdapterTakeover(t)
         \/ GetStatus(t) \/ GetTakenOverAdapters(t) \/ StatusIsTakeoverActive(t) \/ StatusDone(t)
         \/ ConfigureLAN(t) \/ LANEnable(t) \/ Quit(t) \/ CloseAPI(t)
  PROVE  Watched'
<1>0. TypeOK
  BY DEF Watched, Controlled
<1>1. UNCHANGED <<up, server, taken, held, stray>>
  BY DEF EnableTakeover, ScanAdapters, SetAdapterTakeover, GetStatus, GetTakenOverAdapters,
         StatusIsTakeoverActive, StatusDone, ConfigureLAN, LANEnable, Quit, CloseAPI
<1> DEFINE From == {"enable", "scan", "setAdapter", "status", "statusAdapters", "statusActive",
                    "statusDone", "lan", "lanEnable", "quit", "close"}
           To   == {<<x>> : x \in {"scan", "statusAdapters", "statusActive", "statusDone", "enable", "restore"}}
                     \cup {<<>>, <<"start", "scan">>, <<"lanActive", "stop", "start", "lanEnable">>}
<1>2. ASSUME NEW s \in To
      PROVE  s \in Seq(Steps)
             /\ (s # <<>> => s[1] \notin {"notify", "shutdown", "takeover", "takeoverSingle", "setAdapter"})
  <2>1. CASE \E x \in {"scan", "statusAdapters", "statusActive", "statusDone", "enable", "restore"} : s = <<x>>
    BY <2>1, SomeSteps DEF Steps, ManagerSteps
  <2>2. CASE s = <<>>
    BY <2>2, SomeSteps
  <2>3. CASE s = <<"start", "scan">>
    BY <2>3 DEF Steps
  <2>4. CASE s = <<"lanActive", "stop", "start", "lanEnable">>
    BY <2>4 DEF Steps
  <2> QED BY <2>1, <2>2, <2>3, <2>4
<1>3. ASSUME NEW x \in From, At(t, x), NEW s \in To, Then(t, s) \/ \E b \in BOOLEAN : ThenOk(t, s, b)
      PROVE  Watched'
  BY <1>1, <1>2, <1>3, PlainWatched
<1>4. CASE ScanAdapters(t) /\ th[t].ok /\ Then(t, <<"takeover">>)
  <2>1. <<"takeover">> \in Seq(Steps) /\ <<"takeover">>[1] = "takeover" /\ At(t, "scan")
    BY <1>4 DEF Steps, ManagerSteps, ScanAdapters
  <2>2. th'[t].ok
    BY <1>0, <1>4, ThenKeepsOk
  <2> QED BY <1>1, <1>4, <2>1, <2>2, PlainWatched
<1>5. CASE SetAdapterTakeover(t) /\ Then(t, <<"takeoverSingle">>)
  <2>1. <<"takeoverSingle">> \in Seq(Steps) /\ <<"takeoverSingle">>[1] = "takeoverSingle" /\ At(t, "setAdapter")
    BY <1>5 DEF Steps, ManagerSteps, SetAdapterTakeover
  <2>2. th[t].ok
    BY <1>0, <2>1, AtIsFirst DEF Watched, Assured
  <2>3. th'[t].ok
    BY <1>0, <1>5, <2>2, ThenKeepsOk
  <2> QED BY <1>1, <1>5, <2>1, <2>3, PlainWatched
<1>6. CASE ScanAdapters(t) /\ Then(t, <<>>)
  BY <1>3, <1>6 DEF ScanAdapters
<1>7. CASE SetAdapterTakeover(t) /\ Then(t, <<>>)
  BY <1>3, <1>7 DEF SetAdapterTakeover
<1>8. CASE EnableTakeover(t)
  BY <1>3, <1>8 DEF EnableTakeover
<1>9. CASE ConfigureLAN(t)
  BY <1>3, <1>9 DEF ConfigureLAN
<1>10. CASE GetStatus(t) \/ GetTakenOverAdapters(t) \/ StatusIsTakeoverActive(t) \/ StatusDone(t)
  BY <1>3, <1>10 DEF GetStatus, GetTakenOverAdapters, StatusIsTakeoverActive, StatusDone
<1>11. CASE LANEnable(t) \/ Quit(t) \/ CloseAPI(t)
  BY <1>3, <1>11 DEF LANEnable, Quit, CloseAPI
<1> QED BY <1>4, <1>5, <1>6, <1>7, <1>8, <1>9, <1>10, <1>11 DEF ScanAdapters, SetAdapterTakeover

(* The operations of the manager.                                          *)
LEMMA ManagerWatched ==
  ASSUME Watched, Controlled', NEW t \in Threads, ManagerDone(t) \/ ManagerFailed(t) PROVE Watched'
<1>0. Controlled /\ TypeOK /\ Ordered /\ Assured
  BY DEF Watched, Controlled
<1>1. PICK x \in ManagerSteps : At(t, x)
  BY DEF ManagerDone, ManagerFailed, ManagerSteps
<1>2. Moves(t, <<>>) /\ First(t, x) /\ up
  BY <1>0, <1>1, SomeSteps, ThenMoves, AtIsFirst DEF ManagerDone, ManagerFailed
<1>3. UNCHANGED <<up, server>>
  BY DEF ManagerDone, ManagerFailed
<1>4. \A u \in Threads \ {t} : th'[u] = th[u]
  BY <1>2 DEF Moves
<1>5. \A y : First(t, y)' => y \in Waiting \/ (y = "notify" /\ StopRestores(t))
  <2>1. \A y : First(t, y)' =>
          \/ y \in Waiting
          \/ y = "notify" /\ th[t].todo[1] = "restore" /\ Len(th[t].todo) > 1 /\ th[t].todo[2] = "notify"
          \/ y = "shutdown" /\ th[t].todo[1] = "notify"
    BY <1>0, <1>2, SomeSteps, NextFirst
  <2>2. th[t].todo[1] = x /\ x # "notify"
    BY <1>2 DEF First, ManagerSteps
  <2> QED BY <1>1, <2>1, <2>2 DEF StopRestores
<1>6. Assured'
  <2>1. \A y \in {"takeover", "takeoverSingle", "setAdapter"} : ~First(t, y)'
    BY <1>5 DEF Waiting
  <2> QED BY <1>0, <1>4, <2>1 DEF Assured, First
<1>7. (At(t, "takeover") \/ At(t, "takeoverSingle")) => th[t].ok
  BY <1>0, AtIsFirst DEF Assured
<1>8. taken' \subseteq taken \/ th[t].ok
  BY <1>7 DEF ManagerDone, ManagerFailed
<1>9. stray \cap taken' \subseteq stray' /\ (Unlistened /\ th[t].ok => taken' \ taken \subseteq stray')
  BY DEF ManagerDone, ManagerFailed, Strays
<1>10. Unlistened /\ taken \subseteq stray => taken' \subseteq stray'
  BY <1>8, <1>9
<1>11. server = None => taken' \subseteq stray'
  BY <1>2, <1>10 DEF Unlistened, Watched
<1>12. ASSUME NEW u \in Threads \ {t}, First(u, "notify")' \/ First(u, "shutdown")'
       PROVE  taken' \subseteq stray'
  <2>1. First(u, "notify") \/ First(u, "shutdown")
    BY <1>4, <1>12 DEF First
  <2>2. Unlistened
    BY <1>0, <1>2, <2>1, AtIsFirst DEF Unlistened
  <2> QED BY <1>10, <2>1, <2>2 DEF Watched
<1>13. ASSUME First(t, "notify")' \/ First(t, "shutdown")' PROVE taken' \subseteq stray'
  <2>1. StopRestores(t)
    BY <1>5, <1>13 DEF Waiting
  <2>2. \A y : At(t, y) => y = "restore"
    BY <2>1 DEF StopRestores, At
  <2>3. CASE ManagerDone(t)
    BY <2>2, <2>3 DEF ManagerDone
  <2>4. CASE ManagerFailed(t)
    BY <2>1, <2>4 DEF ManagerFailed, Strays
  <2> QED BY <2>3, <2>4
<1>14. taken' \ held' \subseteq stray'
  <2>1. taken \ held \subseteq stray
    BY <1>2 DEF Watched
  <2>2. CASE ManagerFailed(t)
    BY <2>2 DEF ManagerFailed, Strays
  <2>3. CASE ManagerDone(t)
    <3>1. taken' \ held' \subseteq taken \ held
      BY <2>3 DEF ManagerDone
    <3> QED BY <1>9, <2>1, <3>1
  <2> QED BY <2>2, <2>3
<1> QED BY <1>3, <1>6, <1>11, <1>12, <1>13, <1>14 DEF Watched

LEMMA StepWatched ==
  ASSUME Watched, Controlled', NEW t \in Threads, Step(t) PROVE Watched'
<1>0. TypeOK /\ Ordered /\ th \in [Threads -> Goroutine]
  BY DEF Watched, Controlled, TypeOK, Goroutine
<1>1. CASE LockManager(t)
  BY <1>1 DEF LockManager, Watched, Assured, First
<1>2. CASE EmergencyRestore(t)
  <2>1. At(t, "emergency") /\ UNCHANGED <<up, server, held>> /\ taken' \subseteq taken /\ stray' = stray \cap taken'
    BY <1>2 DEF EmergencyRestore
  <2>2. Moves(t, <<>>) /\ First(t, "emergency")
    BY <1>0, <1>2, <2>1, SomeSteps, ThenMoves, AtIsFirst DEF EmergencyRestore
  <2>3. \A y : First(t, y)' => y \in Waiting
    BY <1>0, <2>2, SomeSteps, NextFirst DEF First
  <2>4. \A u \in Threads \ {t} : th'[u] = th[u]
    BY <2>2 DEF Moves
  <2>5. Assured'
    <3>1. \A y \in {"takeover", "takeoverSingle", "setAdapter"} : ~First(t, y)'
      BY <2>3 DEF Waiting
    <3> QED BY <2>4, <3>1 DEF Assured, First, Watched
  <2>6. \A u \in Threads : First(u, "notify")' \/ First(u, "shutdown")' => taken \subseteq stray
    <3>1. ~First(t, "notify")' /\ ~First(t, "shutdown")'
      BY <2>3 DEF Waiting
    <3> QED BY <2>4, <3>1 DEF First, Watched
  <2> QED BY <2>1, <2>5, <2>6 DEF Watched
<1>3. CASE LANIsTakeoverActive(t)
  <2>1. At(t, "lanActive") /\ UNCHANGED <<up, server, taken, held, stray>>
    BY <1>3 DEF LANIsTakeoverActive
  <2>2. th[t].todo \in Seq(Steps) /\ th[t].todo # <<>> /\ First(t, "lanActive")
    BY <1>0, <2>1, AtIsFirst DEF Goroutine, At
  <2>3. Push(<<>>, th[t].todo) \in Seq(Steps) /\ Tail(th[t].todo) = Push(<<>>, th[t].todo)
    <3>1. Tail(th[t].todo) \in Seq(Steps)
      BY <2>2
    <3> QED BY <3>1, ConcatEmptySeq DEF Push
  <2>4. th' = [th EXCEPT ![t].todo = Push(<<>>, th[t].todo), ![t].was = active]
    BY <1>3, <2>3 DEF LANIsTakeoverActive
  <2>5. Moves(t, <<>>)
    <3>1. PICK b \in BOOLEAN : b = active
      BY DEF active
    <3>2. th' = [th EXCEPT ![t].todo = Push(<<>>, th[t].todo), ![t].was = b]
      BY <2>4, <3>1
    <3> QED BY <1>0, <2>2, <2>3, <3>2 DEF Moves, Goroutine
  <2>6. ~First(t, "notify")' /\ ~First(t, "shutdown")'
    BY <1>0, <2>2, <2>5, SomeSteps, NextFirst DEF First, Waiting
  <2>7. up /\ server' = None => taken \subseteq stray
    BY <2>1 DEF Watched
  <2> QED BY <2>1, <2>5, <2>6, <2>7, SomeSteps, QuietWatched
<1>4. CASE Exit(t)
  <2>1. ~up' /\ th' = [u \in Threads |-> Idle]
    BY <1>4 DEF Exit
  <2>2. \A u \in Threads : th'[u].todo = <<>>
    BY <2>1 DEF Idle
  <2> QED BY <2>1, <2>2 DEF Watched, Assured, First
<1>5. CASE Return(t)
  <2>1. th' = [th EXCEPT ![t] = Idle] /\ UNCHANGED <<up, server, taken, held, stray>>
    BY <1>5 DEF Return
  <2>2. th'[t].todo = <<>> /\ \A u \in Threads \ {t} : th'[u] = th[u]
    BY <1>0, <2>1 DEF Idle
  <2> QED BY <2>1, <2>2 DEF Watched, Assured, First
<1> QED BY <1>1, <1>2, <1>3, <1>4, <1>5, StartWatched, StopWatched, RoutineWatched, ManagerWatched DEF Step

LEMMA NextWatched ==
  ASSUME Watched, [Next]_vars PROVE Watched'
<1>0. Controlled' /\ th \in [Threads -> Goroutine]
  BY NextControlled DEF Watched, Controlled, TypeOK, Goroutine
<1>1. ASSUME NEW t \in Threads, Request(t) PROVE Watched'
  <2>1. PICK c \in Calls, on \in BOOLEAN, S \in SUBSET (Adapters \cup {None}) : Call(t, c, on, S)
    BY <1>1 DEF Request
  <2>2. th'[t].todo = StepsOf(c) /\ th'[t].ok /\ \A u \in Threads \ {t} : th'[u] = th[u]
    BY <1>0, <2>1 DEF Call, Idle
  <2>3. UNCHANGED <<up, server, taken, held, stray>>
    BY <2>1 DEF Call
  <2>4. StepsOf(c)[1] \notin {"notify", "shutdown"}
    BY ControllerAssumption DEF CallKinds, StepsOf
  <2> QED BY <1>0, <2>2, <2>3, <2>4 DEF Watched, Assured, First
<1>2. ASSUME NEW t \in Threads, Run(t) PROVE Watched'
  <2>1. PICK s \in {<<"start", "enable">>, <<"start">>} :
          th' = [th EXCEPT ![t] = [Idle EXCEPT !.call = "Run", !.todo = s]]
    BY <1>2 DEF Run
  <2>2. th'[t].todo[1] = "start" /\ \A u \in Threads \ {t} : th'[u] = th[u]
    BY <1>0, <2>1 DEF Idle
  <2>3. stray' = taken' /\ ~up
    BY <1>2 DEF Run
  <2> QED BY <1>0, <2>2, <2>3 DEF Watched, Assured, First
<1>3. ASSUME NEW q \in Queries, Arrive(q) \/ Pipeline(q) PROVE Watched'
  <2>1. UNCHANGED <<up, server, taken, held, th, stray>>
    BY <1>3 DEF Arrive, Pipeline
  <2> QED BY <1>0, <2>1 DEF Watched, Assured, First
<1>4. CASE UNCHANGED vars
  BY <1>0, <1>4 DEF vars, Watched, Assured, First
<1> QED BY <1>0, <1>1, <1>2, <1>3, <1>4, StepWatched DEF Next

LEMMA InitWatched ==
  ASSUME Init PROVE Watched
<1>1. Idle \in Goroutine /\ Idle.todo = <<>> /\ Idle.call = None
  BY SomeSteps DEF Idle, Goroutine
<1>2. \A u \in Threads : th[u].todo = <<>> /\ th[u].call = None
  BY <1>1 DEF Init
<1>3. Controlled /\ ~up /\ taken = {}
  BY InitControlled DEF Init
<1> QED BY <1>2, <1>3 DEF Watched, Assured, First

(* No adapter points at this machine while nothing listens, over all calls *)
(* and faults in every order, unless it was taken over after the listener  *)
(* had been looked for or without looking, in the gap that EnableTakeover, *)
(* SetAdapterTakeover and StopDNS leave open, or a failing restore,        *)
(* rollback or self-heal left it there.                                    *)
THEOREM NobodyIsCutOff == Spec => []NeverCutOff
<1>1. Init => Watched
  BY InitWatched
<1>2. Watched /\ [Next]_vars => Watched'
  BY NextWatched
<1>3. Watched => NeverCutOff
  BY DEF Watched, NeverCutOff
<1> QED BY <1>1, <1>2, <1>3, PTL DEF Spec

-----------------------------------------------------------------------------
(* The Linux manager.                                                      *)

(* A snapshot list holds only configurations that may be written back.     *)
Faithful(l) ==
  /\ \A a \in LinuxAdapters : l[a] # None => Linux!Good(a, l[a])
  /\ backend = "nm" => Linux!Listed(l) = {} \/ (Linux!Listed(l) = LinuxAdapters /\ named)

Takeovers == {"Takeover", "TakeoverSingle"}

(* Which calls a process makes, and where it can be in them.               *)
InTurn(p, j) ==
  /\ j.pc = "idle" => j = Linux!Idle
  /\ p = "heal" /\ j.pc # "idle" => /\ j.pc \in {"restore", "clear", "residual"}
                                    /\ j.call \in {"Heal", "Emergency"}
  /\ p = "mgr" =>
       /\ j.pc # "idle" => j.call \in Takeovers \cup {"Restore", "RestoreSingle"}
       /\ j.pc \in {"save", "backup", "apply", "undo"} => j.call \in Takeovers
       /\ j.pc = "resave" => j.call \in {"TakeoverSingle", "RestoreSingle"}
       /\ j.pc = "residual" => j.call = "Restore"

(* What holds whatever has been given away.                                *)
Turns ==
  /\ \A p \in Linux!Procs : InTurn(p, job[p])
  /\ ~started => mem = Linux!Empty /\ \A p \in Linux!Procs : job[p].pc = "idle"
  /\ ~file.present => file.snap = Linux!Empty
  /\ backend = "resolvconf" => \A a, b \in LinuxAdapters : orig[a] = orig[b]

(* The rest holds until a way back is given away.  One job at a time.      *)
Alone == job["mgr"].pc = "idle" \/ job["heal"].pc = "idle"

(* resolv.conf is one file: every interface reads the same, and so do its  *)
(* backups.                                                                *)
OneFile ==
  backend = "resolvconf" =>
    /\ \A a, b \in LinuxAdapters : sys[a] = sys[b] /\ orig[a] = orig[b]
    /\ \A a \in LinuxAdapters : (backup # None => Linux!Good(a, backup)) /\ (dorig # None => Linux!Good(a, dorig))

(* Everything remembered may be written back.                              *)
Remembered ==
  /\ Faithful(mem) /\ Faithful(file.snap)
  /\ \A p \in Linux!Procs : Faithful(job[p].snap) /\ Faithful(job[p].old)

(* What is out of place is remembered: in the state file and, when it      *)
(* could be written, in the offline script.                                *)
Kept ==
  /\ Linux!Off # {} => file.present /\ file.active
  /\ Linux!Off \subseteq Linux!Reach(file.snap) /\ (~stale => Linux!Off \subseteq Linux!Reach(script))
  /\ mem # Linux!Empty /\ job["mgr"].call # "TakeoverSingle" => takeover

(* The script is that of the takeover still in memory or in the file.      *)
ScriptIsCurrent ==
  ~stale /\ (file.present \/ (IF job["mgr"].pc = "save" THEN job["mgr"].old ELSE mem) # Linux!Empty)
    => Faithful(script)

(* A takeover between its call and the end of its writes.                  *)
TakingOver(j) ==
  /\ j.pc = "save" => /\ Linux!Off \subseteq Linux!Reach(j.snap)
                      /\ mem = IF j.call = "Takeover" THEN Linux!Empty ELSE j.snap
  /\ j.pc \in {"backup", "apply", "undo"} =>
       file = Linux!StateFile(TRUE, j.snap) /\ (~stale => script = j.snap)
  /\ j.pc \in {"save", "backup"} => j.done = {}
  /\ j.pc \in {"save", "backup", "apply", "undo"} =>
       /\ Linux!Listed(j.snap) # {} /\ Linux!Listed(j.old) \subseteq Linux!Listed(j.snap)
       /\ j.ask = IF j.call = "Takeover" THEN Linux!Listed(j.snap)
                  ELSE Linux!Listed(j.snap) \ Linux!Listed(j.old)
       /\ j.ask # {} /\ ~j.bad
       /\ backend = "resolved" => j.todo \cup j.done \subseteq Linux!Listed(j.snap)
       /\ backend = "nm" => j.call = "Takeover"
       /\ backend = "resolvconf" => /\ j.todo = {Linux!Whole} /\ j.done = {}
                                    /\ j.pc # "undo" => Linux!Off = {}

(* A takeover that is being rolled back, too, knows what was there before. *)
Before(j) ==
  /\ j.call \in Takeovers /\ (j.call = "Takeover" \/ backend # "resolved") => j.old = Linux!Empty
  /\ j.call = "TakeoverSingle" /\ j.old # Linux!Empty => j.was /\ takeover
  /\ j.call = "TakeoverSingle" /\ j.pc \in {"restore", "resave"} => file.present
  /\ j.call \in {"TakeoverSingle", "RestoreSingle"} => backend # "nm"
  /\ j.call = "RestoreSingle" => mem # Linux!Empty

(* What a restore leaves to the snapshots that stay.                       *)
Left(j) == IF j.call \in {"TakeoverSingle", "RestoreSingle"} THEN Linux!Reach(Linux!Remaining(j)) ELSE {}

(* ... and what it has still to write.                                     *)
InHand(j) == UNION {Linux!Span(a) : a \in j.todo}

(* As long as none of its writes has failed, what is out of place is in    *)
(* one of the two.                                                         *)
Restoring(j) ==
  /\ j.pc = "restore" =>
       /\ ~j.bad => Linux!Off \subseteq InHand(j) \cup Left(j)
       /\ backend = "resolved" => j.todo \subseteq Linux!Listed(j.snap)
       /\ backend = "nm" => Linux!Listed(j.snap) = LinuxAdapters
       /\ backend = "resolvconf" => j.todo = {Linux!Whole}
  /\ j.pc = "resave" => /\ ~j.bad => Linux!Off \subseteq Linux!Reach(Linux!Remaining(j))
                        /\ Linux!Remaining(j) # Linux!Empty
  /\ j.pc = "clear" /\ ~j.bad => Linux!Off = {}
  /\ j.pc = "clear" /\ j.call = "TakeoverSingle" => j.old = Linux!Empty
  /\ j.pc = "residual" /\ j.call = "Restore" => Linux!Off = {}

WayBack ==
  /\ Alone /\ OneFile /\ Remembered /\ Kept /\ ScriptIsCurrent
  /\ TakingOver(job["mgr"]) /\ Before(job["mgr"])
  /\ \A p \in Linux!Procs : Restoring(job[p])

(* The invariant while nothing has been given away, and altogether.        *)
Inductive == Linux!TypeOK /\ Turns /\ WayBack
LinuxInv == Linux!TypeOK /\ Turns /\ (~spoilt => WayBack)

(* What the constants are.                                                 *)
LEMMA LinuxFacts ==
  /\ Backends \subseteq {"resolved", "nm", "resolvconf"} /\ Public \in Statics
  /\ MaxFaults \in Nat /\ LinuxAdapters # {} /\ Stacks # {}
  /\ DHCP \notin Statics /\ Loop \notin Statics \cup {DHCP}
  /\ None \notin Linux!Configs
BY LinuxConstants DEF Linux!LinuxAssumption, Linux!FaultKinds, Linux!Configs

LEMMA CleanType ==
  ASSUME NEW c \in Linux!Configs
  PROVE  Linux!CleanAdapterState(c) \in Linux!Clean
BY DEF Linux!CleanAdapterState, Linux!Clean, Linux!Configs

LEMMA CleanOfClean ==
  ASSUME NEW c \in Linux!Clean
  PROVE  Linux!CleanAdapterState(c) = c /\ c \in Linux!Configs /\ c # None /\ ~Linux!HasResidualLoopback(c)
BY LinuxFacts DEF Linux!CleanAdapterState, Linux!Clean, Linux!Configs, Linux!HasResidualLoopback

LEMMA LoopIsResidual ==
  Linux!AllLoop \in Linux!Configs /\ Linux!AllDHCP \in Linux!Clean /\ Linux!AllDHCP \in Linux!Configs
BY LinuxFacts DEF Linux!AllLoop, Linux!AllDHCP, Linux!Configs, Linux!Clean

LEMMA PublicIsClean == Linux!PublicServers \in Linux!Clean
BY LinuxFacts DEF Linux!PublicServers, Linux!Clean

LEMMA WholeType == Linux!Whole \in LinuxAdapters
BY LinuxFacts DEF Linux!Whole

LEMMA EmptyType ==
  /\ Linux!Empty \in Linux!Snapshots /\ Linux!Listed(Linux!Empty) = {} /\ Linux!NoFile \in Linux!StateFiles /\ Linux!Idle \in Linux!Jobs
  /\ \A l \in Linux!Snapshots : Linux!Listed(l) = {} <=> l = Linux!Empty
  /\ \A l \in Linux!Snapshots, a \in LinuxAdapters : l[a] # None => l[a] \in Linux!Clean
BY DEF Linux!Empty, Linux!Snapshots, Linux!Listed, Linux!NoFile, Linux!StateFiles, Linux!Idle, Linux!Jobs

LEMMA OnlyType ==
  ASSUME NEW l \in Linux!Snapshots, NEW S
  PROVE  Linux!Only(l, S) \in Linux!Snapshots /\ Linux!Listed(Linux!Only(l, S)) = Linux!Listed(l) \cap S
BY DEF Linux!Only, Linux!Snapshots, Linux!Listed

LEMMA RestoreValueType ==
  ASSUME Linux!TypeOK, NEW l \in Linux!Snapshots, NEW a \in LinuxAdapters
  PROVE  Linux!RestoreValue(l, a) \in Linux!Configs
<1>1. CASE backend = "resolved"
  BY <1>1, EmptyType, CleanOfClean DEF Linux!RestoreValue, Linux!ResolvedRestore, Linux!TypeOK
<1>2. CASE backend = "nm"
  BY <1>2, EmptyType, CleanOfClean, LoopIsResidual DEF Linux!RestoreValue, Linux!NmRestore, Linux!TypeOK
<1>3. CASE backend = "resolvconf"
  BY <1>3, PublicIsClean, CleanOfClean DEF Linux!RestoreValue, Linux!ResolvConfRestore, Linux!TypeOK
<1> QED BY <1>1, <1>2, <1>3, LinuxFacts DEF Linux!TypeOK

LEMMA UnitsType ==
  ASSUME Linux!TypeOK, NEW S \in SUBSET LinuxAdapters
  PROVE  Linux!Units(S) \in SUBSET LinuxAdapters
BY LinuxFacts, WholeType DEF Linux!TypeOK, Linux!Units

LEMMA SnapType ==
  ASSUME Linux!TypeOK, NEW S \in SUBSET LinuxAdapters
  PROVE  Linux!Only([a \in LinuxAdapters |-> Linux!CleanAdapterState(sys[a])], S) \in Linux!Snapshots
BY CleanType DEF Linux!TypeOK, Linux!Only, Linux!Snapshots

(***************************************************************************)
(* Type correctness.                                                       *)
(***************************************************************************)
LEMMA JobType ==
  ASSUME Linux!TypeOK, NEW p \in Linux!Procs
  PROVE  /\ job[p] \in Linux!Jobs /\ job[p].snap \in Linux!Snapshots /\ job[p].old \in Linux!Snapshots
         /\ job[p].todo \in SUBSET LinuxAdapters /\ job[p].done \in SUBSET LinuxAdapters
         /\ job[p].ask \in SUBSET LinuxAdapters
         /\ job[p].call \in Linux!CallKinds \cup {"none", "Heal"} /\ job[p].bad \in BOOLEAN
         /\ job[p].was \in BOOLEAN
BY DEF Linux!TypeOK, Linux!Jobs

LEMMA BeginType ==
  ASSUME Linux!TypeOK, NEW p \in Linux!Procs, NEW c \in Linux!CallKinds \cup {"Heal"},
         NEW pc \in {"save", "restore", "clear", "residual"},
         NEW S \in SUBSET LinuxAdapters, NEW l \in Linux!Snapshots, Linux!Begin(p, c, pc, S, l)
  PROVE  job' \in [Linux!Procs -> Linux!Jobs]
<1> DEFINE U == IF S = {} THEN {} ELSE Linux!Units(S)
<1>1. U \in SUBSET LinuxAdapters
  BY UnitsType
<1>2. job' = [job EXCEPT ![p] = [call |-> c, pc |-> pc, ask |-> S, todo |-> U, done |-> {}, bad |-> FALSE,
                                 snap |-> l, old |-> mem, was |-> takeover]]
  BY DEF Linux!Begin
<1> HIDE DEF U
<1>3. [call |-> c, pc |-> pc, ask |-> S, todo |-> U, done |-> {}, bad |-> FALSE,
       snap |-> l, old |-> mem, was |-> takeover] \in Linux!Jobs
  BY <1>1 DEF Linux!TypeOK, Linux!Jobs
<1> QED BY <1>2, <1>3 DEF Linux!TypeOK

LEMMA ReturnType ==
  ASSUME Linux!TypeOK, NEW p \in Linux!Procs, Linux!Return(p)
  PROVE  job' \in [Linux!Procs -> Linux!Jobs]
BY EmptyType DEF Linux!Return, Linux!TypeOK

LEMMA FaultType ==
  ASSUME Linux!TypeOK, Linux!Ok \/ \E k \in Linux!FaultKinds : Linux!Fault(k)
  PROVE  budget' \in 0..MaxFaults
BY LinuxFacts DEF Linux!TypeOK, Linux!Ok, Linux!Fault

LEMMA PutType ==
  ASSUME Linux!TypeOK, NEW a, NEW c \in Linux!Configs, Linux!Put(a, c)
  PROVE  sys' \in [LinuxAdapters -> Linux!Configs]
BY DEF Linux!TypeOK, Linux!Put

LEMMA RewriteType ==
  ASSUME Linux!TypeOK, NEW W, NEW l \in Linux!Snapshots, Linux!Rewrite(W, l)
  PROVE  sys' \in [LinuxAdapters -> Linux!Configs] /\ dorig' \in Linux!Configs \cup {None}
BY RestoreValueType DEF Linux!TypeOK, Linux!Rewrite

LEMMA CallTypes ==
  ASSUME Linux!TypeOK,
         \/ \E S \in SUBSET LinuxAdapters : Linux!Takeover(S)
         \/ \E a \in LinuxAdapters : Linux!TakeoverSingle(a) \/ Linux!RestoreSingle(a)
         \/ Linux!Restore \/ Linux!EmergencyRestore \/ Linux!Start
  PROVE  Linux!TypeOK'
<1>0. "mgr" \in Linux!Procs /\ "heal" \in Linux!Procs
  BY DEF Linux!Procs
<1>h. ASSUME NEW c, NEW S, NEW l, Linux!Spoils(c, S, l)
      PROVE  {named, stale', spoilt'} \subseteq BOOLEAN
  BY <1>h DEF Linux!TypeOK, Linux!Spoils
<1>1. ASSUME NEW S \in SUBSET LinuxAdapters, Linux!Takeover(S) PROVE Linux!TypeOK'
  <2>1. job' \in [Linux!Procs -> Linux!Jobs]
    BY <1>0, <1>1, BeginType, SnapType DEF Linux!Takeover, Linux!CallKinds
  <2>2. {named, stale', spoilt'} \subseteq BOOLEAN
    BY <1>1, <1>h DEF Linux!Takeover
  <2> QED BY <1>1, <2>1, <2>2 DEF Linux!TypeOK, Linux!Takeover, Linux!system
<1>2. ASSUME NEW a \in LinuxAdapters, Linux!TakeoverSingle(a) PROVE Linux!TypeOK'
  <2>1. mem' \in Linux!Snapshots
    BY <1>2, CleanType DEF Linux!TypeOK, Linux!TakeoverSingle, Linux!Snapshots
  <2>2. job' \in [Linux!Procs -> Linux!Jobs]
    BY <1>0, <1>2, <2>1, BeginType DEF Linux!TakeoverSingle, Linux!CallKinds
  <2>3. {named, stale', spoilt'} \subseteq BOOLEAN
    BY <1>2, <1>h DEF Linux!TakeoverSingle
  <2> QED BY <1>2, <2>1, <2>2, <2>3 DEF Linux!TypeOK, Linux!TakeoverSingle, Linux!system
<1>3. ASSUME NEW a \in LinuxAdapters, Linux!RestoreSingle(a) PROVE Linux!TypeOK'
  <2>1. Linux!Only(mem, {a}) \in Linux!Snapshots
    BY OnlyType DEF Linux!TypeOK
  <2>2. job' \in [Linux!Procs -> Linux!Jobs]
    BY <1>0, <1>3, <2>1, BeginType DEF Linux!RestoreSingle, Linux!CallKinds
  <2>3. {named, stale', spoilt'} \subseteq BOOLEAN
    BY <1>3, <1>h DEF Linux!RestoreSingle
  <2> QED BY <1>3, <2>2, <2>3 DEF Linux!TypeOK, Linux!RestoreSingle, Linux!system
<1>4. CASE Linux!Restore
  <2>1. PICK states \in {mem, file.snap} :
           /\ \/ Linux!Ok \/ Linux!Fault("load")
           /\ Linux!Begin("mgr", "Restore", IF Linux!Listed(states) = {} THEN "clear" ELSE "restore",
                          Linux!Listed(states), states)
           /\ Linux!Spoils("Restore", {}, states)
    BY <1>4 DEF Linux!Restore
  <2>2. states \in Linux!Snapshots /\ Linux!Listed(states) \in SUBSET LinuxAdapters
    BY DEF Linux!TypeOK, Linux!StateFiles, Linux!Listed
  <2>3. job' \in [Linux!Procs -> Linux!Jobs]
    BY <1>0, <2>1, <2>2, BeginType DEF Linux!CallKinds
  <2>4. {named, stale', spoilt'} \subseteq BOOLEAN
    BY <2>1, <1>h
  <2>5. budget' \in 0..MaxFaults
    BY <2>1, FaultType DEF Linux!FaultKinds
  <2> QED BY <1>4, <2>3, <2>4, <2>5 DEF Linux!TypeOK, Linux!Restore, Linux!system
<1>5. ASSUME NEW c \in {"Heal", "Emergency"}, NEW e \in {"idle", "residual"},
             (Linux!Ok /\ Linux!SelfHeal(c, e)) \/ Linux!Unread(c, e)
      PROVE  job' \in [Linux!Procs -> Linux!Jobs] /\ budget' \in 0..MaxFaults
  <2>0. ASSUME UNCHANGED job \/ (e = "residual" /\ Linux!Begin("heal", c, e, {}, Linux!Empty))
                             \/ Linux!Begin("heal", c, "restore", Linux!Healable(file), file.snap)
        PROVE  job' \in [Linux!Procs -> Linux!Jobs]
    <3>1. file.snap \in Linux!Snapshots /\ Linux!Healable(file) \in SUBSET LinuxAdapters /\ Linux!Empty \in Linux!Snapshots
      BY EmptyType DEF Linux!TypeOK, Linux!StateFiles, Linux!Listed, Linux!Healable
    <3>2. c \in Linux!CallKinds \cup {"Heal"}
      BY DEF Linux!CallKinds
    <3>3. CASE UNCHANGED job BY <3>3 DEF Linux!TypeOK
    <3>4. CASE e = "residual" /\ Linux!Begin("heal", c, e, {}, Linux!Empty)
      BY <1>0, <3>1, <3>2, <3>4, BeginType
    <3>5. CASE Linux!Begin("heal", c, "restore", Linux!Healable(file), file.snap)
      BY <1>0, <3>1, <3>2, <3>5, BeginType
    <3> QED BY <2>0, <3>3, <3>4, <3>5
  <2>1. \/ UNCHANGED job
        \/ e = "residual" /\ Linux!Begin("heal", c, e, {}, Linux!Empty)
        \/ Linux!Begin("heal", c, "restore", Linux!Healable(file), file.snap)
    <3>1. CASE Linux!Unread(c, e) BY <3>1 DEF Linux!Unread
    <3>2. CASE Linux!SelfHeal(c, e) BY <3>2 DEF Linux!SelfHeal
    <3> QED BY <1>5, <3>1, <3>2
  <2>2. budget' \in 0..MaxFaults
    BY <1>5, FaultType DEF Linux!FaultKinds, Linux!Unread
  <2> QED BY <2>0, <2>1, <2>2
<1>6. CASE Linux!EmergencyRestore
  <2>1. job' \in [Linux!Procs -> Linux!Jobs] /\ budget' \in 0..MaxFaults
    BY <1>5, <1>6 DEF Linux!EmergencyRestore
  <2>2. {named, stale', spoilt'} \subseteq BOOLEAN
    BY <1>6 DEF Linux!EmergencyRestore, Linux!TypeOK
  <2> QED BY <1>6, <2>1, <2>2 DEF Linux!TypeOK, Linux!EmergencyRestore, Linux!system
<1>7. CASE Linux!Start
  <2>1. job' \in [Linux!Procs -> Linux!Jobs] /\ budget' \in 0..MaxFaults
    BY <1>5, <1>7 DEF Linux!Start
  <2>2. {named, stale', spoilt'} \subseteq BOOLEAN
    BY <1>7 DEF Linux!Start, Linux!TypeOK
  <2> QED BY <1>7, <2>1, <2>2 DEF Linux!TypeOK, Linux!Start, Linux!system
<1> QED BY <1>1, <1>2, <1>3, <1>4, <1>6, <1>7

LEMMA StepTypes ==
  ASSUME Linux!TypeOK, Turns, Linux!Step
  PROVE  Linux!TypeOK'
<1> DEFINE j == job["mgr"]
<1>0. "mgr" \in Linux!Procs /\ "heal" \in Linux!Procs /\ j \in Linux!Jobs /\ j.snap \in Linux!Snapshots /\ j.old \in Linux!Snapshots
  BY JobType DEF Linux!Procs
<1>1. CASE Linux!SaveBeforeTakeover
  <2>1. budget' \in 0..MaxFaults
    BY <1>1, FaultType DEF Linux!SaveBeforeTakeover, Linux!FaultKinds
  <2>2. job' \in [Linux!Procs -> Linux!Jobs]
    <3>1. CASE Linux!Return("mgr") BY <1>0, <3>1, ReturnType
    <3>2. CASE job' = [job EXCEPT !["mgr"].pc = IF backend = "resolvconf" THEN "backup" ELSE "apply"]
      BY <1>0, <3>2 DEF Linux!TypeOK, Linux!Jobs
    <3> QED BY <1>1, <3>1, <3>2 DEF Linux!SaveBeforeTakeover
  <2>3. mem' \in Linux!Snapshots /\ file' \in Linux!StateFiles /\ script' \in Linux!Snapshots
    <3>1. Linux!StateFile(TRUE, j.snap) \in Linux!StateFiles
      BY <1>0 DEF Linux!StateFile, Linux!StateFiles
    <3> QED BY <1>0, <1>1, <3>1, EmptyType DEF Linux!SaveBeforeTakeover, Linux!TypeOK, Linux!GenerateRestoreScript
  <2>4. {named, stale', spoilt'} \subseteq BOOLEAN
    BY <1>1 DEF Linux!SaveBeforeTakeover, Linux!TypeOK
  <2> QED BY <1>1, <2>1, <2>2, <2>3, <2>4 DEF Linux!SaveBeforeTakeover, Linux!TypeOK, Linux!system
<1>2. CASE Linux!BackupResolvConf
  <2>1. budget' \in 0..MaxFaults
    BY <1>2, FaultType DEF Linux!BackupResolvConf, Linux!FaultKinds
  <2>2. job' \in [Linux!Procs -> Linux!Jobs]
    <3>1. PICK pc \in {"apply", "undo"} : job' = [job EXCEPT !["mgr"].pc = pc]
      BY <1>2 DEF Linux!BackupResolvConf
    <3> QED BY <1>0, <3>1 DEF Linux!TypeOK, Linux!Jobs
  <2>3. {backup', dorig'} \subseteq Linux!Configs \cup {None}
    BY <1>2, WholeType DEF Linux!BackupResolvConf, Linux!TypeOK
  <2> QED BY <1>2, <2>1, <2>2, <2>3 DEF Linux!BackupResolvConf, Linux!TypeOK, Linux!system, Linux!history
<1>3. CASE Linux!RollbackApplied
  <2>1. budget' \in 0..MaxFaults
    BY <1>3, FaultType DEF Linux!RollbackApplied, Linux!FaultKinds
  <2>2. sys' \in [LinuxAdapters -> Linux!Configs]
    BY <1>3, LoopIsResidual DEF Linux!RollbackApplied, Linux!TypeOK
  <2>3. job' \in [Linux!Procs -> Linux!Jobs]
    <3> DEFINE back == Linux!Only(j.snap, j.ask)
               U == Linux!Units(j.ask)
    <3>1. back \in Linux!Snapshots
      BY <1>0, OnlyType
    <3>2. U \in SUBSET LinuxAdapters
      BY <1>0, UnitsType, JobType
    <3>3. job' = [job EXCEPT !["mgr"].pc = "restore", !["mgr"].snap = back, !["mgr"].todo = U]
      BY <1>3 DEF Linux!RollbackApplied
    <3> HIDE DEF back, U
    <3> QED BY <1>0, <3>1, <3>2, <3>3 DEF Linux!TypeOK, Linux!Jobs
  <2> QED BY <1>3, <2>1, <2>2, <2>3 DEF Linux!RollbackApplied, Linux!TypeOK, Linux!system, Linux!history
<1>4. CASE Linux!Resave
  <2>1. Linux!Remaining(j) \in Linux!Snapshots
    BY <1>0, OnlyType DEF Linux!Remaining, Linux!TypeOK
  <2>2. file' \in Linux!StateFiles /\ budget' \in 0..MaxFaults
    <3>1. \A b \in BOOLEAN : Linux!StateFile(b, Linux!Remaining(j)) \in Linux!StateFiles
      BY <2>1 DEF Linux!StateFile, Linux!StateFiles
    <3>2. (j.call = "RestoreSingle" \/ j.was) \in BOOLEAN
      BY <1>0, JobType
    <3>3. file' \in {Linux!StateFile(j.call = "RestoreSingle" \/ j.was, Linux!Remaining(j)), file, Linux!NoFile}
      BY <1>4 DEF Linux!Resave, Linux!Save
    <3>4. budget' \in 0..MaxFaults
      BY <1>4, FaultType DEF Linux!Resave, Linux!Save, Linux!FaultKinds
    <3> QED BY <3>1, <3>2, <3>3, <3>4, EmptyType DEF Linux!TypeOK
  <2>3. takeover' \in BOOLEAN
    BY <1>0, <1>4 DEF Linux!Resave, Linux!TypeOK, Linux!Jobs
  <2>4. {named, stale', spoilt'} \subseteq BOOLEAN
    BY <1>4 DEF Linux!Resave, Linux!TypeOK
  <2> QED BY <1>0, <1>4, <2>1, <2>2, <2>3, <2>4, ReturnType DEF Linux!Resave, Linux!TypeOK, Linux!system
<1>5. ASSUME NEW a \in LinuxAdapters, Linux!Apply(a) PROVE Linux!TypeOK'
  <2>1. budget' \in 0..MaxFaults
    BY <1>5, FaultType DEF Linux!Apply, Linux!FaultKinds
  <2>2. sys' \in [LinuxAdapters -> Linux!Configs]
    BY <1>5, PutType, LoopIsResidual DEF Linux!Apply, Linux!TypeOK
  <2>3. mem' \in Linux!Snapshots /\ takeover' \in BOOLEAN
    BY <1>0, <1>5 DEF Linux!Apply, Linux!TypeOK
  <2>4. job' \in [Linux!Procs -> Linux!Jobs]
    <3>1. CASE Linux!Return("mgr") BY <1>0, <3>1, ReturnType
    <3>2. CASE job' = [job EXCEPT !["mgr"].todo = @ \ {a}, !["mgr"].done = @ \cup {a}]
      BY <1>0, <3>2 DEF Linux!TypeOK, Linux!Jobs
    <3>3. CASE job' = [job EXCEPT !["mgr"].pc = "undo"]
      BY <1>0, <3>3 DEF Linux!TypeOK, Linux!Jobs
    <3>4. CASE job' = [job EXCEPT !["mgr"].pc = "undo",
                           !["mgr"].done = IF backend = "resolved" THEN @ \cup {a} ELSE @]
      BY <1>0, <3>4 DEF Linux!TypeOK, Linux!Jobs
    <3> QED BY <1>5, <3>1, <3>2, <3>3, <3>4 DEF Linux!Apply
  <2> QED BY <1>5, <2>1, <2>2, <2>3, <2>4 DEF Linux!Apply, Linux!TypeOK, Linux!system, Linux!history
<1>6. ASSUME NEW p \in Linux!Procs, NEW a \in LinuxAdapters, Linux!RestoreAdapter(p, a) PROVE Linux!TypeOK'
  <2>0. job[p] \in Linux!Jobs /\ job[p].snap \in Linux!Snapshots
    BY JobType
  <2>1. budget' \in 0..MaxFaults
    BY <1>6, FaultType DEF Linux!RestoreAdapter, Linux!FaultKinds
  <2>2. sys' \in [LinuxAdapters -> Linux!Configs] /\ dorig' \in Linux!Configs \cup {None}
    <3>1. \E W : Linux!Rewrite(W, job[p].snap)
      BY <1>6 DEF Linux!RestoreAdapter
    <3> QED BY <2>0, <3>1, RewriteType
  <2>4. job' \in [Linux!Procs -> Linux!Jobs]
    <3>0. job[p].call \in {"Takeover", "TakeoverSingle", "Restore", "RestoreSingle", "Heal", "Emergency"}
      BY <1>6 DEF Linux!RestoreAdapter, Turns, InTurn, Linux!Procs, Takeovers
    <3>1. \A bad \in BOOLEAN : Linux!AfterRestore(job[p], bad) \in {"idle", "clear", "residual", "resave"}
      BY <3>0 DEF Linux!AfterRestore
    <3>2. PICK bad \in BOOLEAN :
             IF job[p].todo # {a} THEN job' = [job EXCEPT ![p].todo = @ \ {a}, ![p].bad = bad]
             ELSE LET pc == Linux!AfterRestore(job[p], bad) IN
                        IF pc = "idle" THEN Linux!Return(p)
                        ELSE job' = [job EXCEPT ![p].todo = {}, ![p].bad = bad, ![p].pc = pc]
      BY <1>6, JobType DEF Linux!RestoreAdapter
    <3>3. CASE job' = [job EXCEPT ![p].todo = @ \ {a}, ![p].bad = bad]
      BY <2>0, <3>3 DEF Linux!TypeOK, Linux!Jobs
    <3>4. CASE Linux!Return(p) BY <3>4, ReturnType
    <3>5. ASSUME NEW pc \in {"clear", "residual", "resave"},
                 job' = [job EXCEPT ![p].todo = {}, ![p].bad = bad, ![p].pc = pc]
          PROVE  job' \in [Linux!Procs -> Linux!Jobs]
      BY <2>0, <3>5 DEF Linux!TypeOK, Linux!Jobs
    <3> QED BY <3>1, <3>2, <3>3, <3>4, <3>5
  <2> QED BY <1>6, <2>1, <2>2, <2>4 DEF Linux!RestoreAdapter, Linux!TypeOK, Linux!system, Linux!history
<1>7. ASSUME NEW p \in Linux!Procs, Linux!ClearFile(p) PROVE Linux!TypeOK'
  <2>0. job[p] \in Linux!Jobs /\ job[p].old \in Linux!Snapshots /\ Linux!Empty \in Linux!Snapshots
        /\ job[p].was \in BOOLEAN /\ job[p].bad \in BOOLEAN
    BY JobType, EmptyType
  <2>1. budget' \in 0..MaxFaults /\ file' \in Linux!StateFiles
    BY <1>7, FaultType, EmptyType DEF Linux!ClearFile, Linux!Clear, Linux!FaultKinds, Linux!TypeOK
  <2>2. mem' \in Linux!Snapshots /\ takeover' \in BOOLEAN
    BY <1>7, <2>0 DEF Linux!ClearFile, Linux!TypeOK
  <2>3. job' \in [Linux!Procs -> Linux!Jobs]
    <3>1. CASE Linux!Return(p) BY <3>1, ReturnType
    <3>2. CASE job' = [job EXCEPT ![p].pc = "residual"]
      BY <2>0, <3>2 DEF Linux!TypeOK, Linux!Jobs
    <3> QED BY <1>7, <3>1, <3>2 DEF Linux!ClearFile
  <2>4. {named, stale', spoilt'} \subseteq BOOLEAN
    BY <1>7, <2>0 DEF Linux!ClearFile, Linux!TypeOK
  <2> QED BY <1>7, <2>1, <2>2, <2>3, <2>4 DEF Linux!ClearFile, Linux!TypeOK, Linux!system
<1>8. ASSUME NEW p \in Linux!Procs, Linux!ResetResidualLoopbackDNS(p) PROVE Linux!TypeOK'
  <2> DEFINE S == {a \in LinuxAdapters : Linux!HasResidualLoopback(sys[a])}
             l == Linux!Only([a \in LinuxAdapters |-> Linux!CleanAdapterState(sys[a])], S)
  <2>1. budget' \in 0..MaxFaults
    BY <1>8, FaultType DEF Linux!ResetResidualLoopbackDNS, Linux!FaultKinds
  <2>2. l \in Linux!Snapshots
    BY SnapType
  <2>3. \E W : Linux!Rewrite(W, l)
    BY <1>8 DEF Linux!ResetResidualLoopbackDNS
  <2> HIDE DEF l
  <2>4. sys' \in [LinuxAdapters -> Linux!Configs] /\ dorig' \in Linux!Configs \cup {None}
    BY <2>2, <2>3, RewriteType
  <2> QED BY <1>8, <2>1, <2>4, ReturnType DEF Linux!ResetResidualLoopbackDNS, Linux!TypeOK, Linux!system, Linux!history
<1> QED BY <1>1, <1>2, <1>3, <1>4, <1>5, <1>6, <1>7, <1>8 DEF Linux!Step

(***************************************************************************)
(* Who runs.                                                               *)
(***************************************************************************)
LEMMA TurnsOf ==
  ASSUME Turns, NEW p \in Linux!Procs, \A q \in Linux!Procs \ {p} : job'[q] = job[q],
         InTurn(p, job'[p]), started', UNCHANGED <<backend, orig>>,
         file' = file \/ file' = Linux!NoFile \/ file'.present
  PROVE  Turns'
BY DEF Turns, Linux!NoFile

LEMMA IdleInTurn == \A p : InTurn(p, Linux!Idle)
BY DEF InTurn, Linux!Idle

LEMMA ReturnTurns ==
  ASSUME Linux!TypeOK, NEW p \in Linux!Procs, Linux!Return(p)
  PROVE  InTurn(p, job'[p]) /\ job'[p] = Linux!Idle /\ \A q \in Linux!Procs \ {p} : job'[q] = job[q]
BY IdleInTurn DEF Linux!TypeOK, Linux!Return

LEMMA BeginTurns ==
  ASSUME Linux!TypeOK, NEW p \in Linux!Procs, NEW c, NEW pc, NEW S, NEW l, Linux!Begin(p, c, pc, S, l),
         \/ p = "mgr" /\ pc = "save" /\ c \in Takeovers
         \/ p = "mgr" /\ pc \in {"restore", "clear"} /\ c \in {"Restore", "RestoreSingle"}
         \/ p = "heal" /\ pc \in {"restore", "residual"} /\ c \in {"Heal", "Emergency"}
  PROVE  InTurn(p, job'[p]) /\ \A q \in Linux!Procs \ {p} : job'[q] = job[q]
<1> DEFINE new == [call |-> c, pc |-> pc, ask |-> S, todo |-> IF S = {} THEN {} ELSE Linux!Units(S),
                   done |-> {}, bad |-> FALSE, snap |-> l, old |-> mem, was |-> takeover]
<1>1. job'[p] = new /\ \A q \in Linux!Procs \ {p} : job'[q] = job[q]
  BY DEF Linux!TypeOK, Linux!Begin
<1>2. new.pc = pc /\ new.call = c
  OBVIOUS
<1> HIDE DEF new
<1> QED BY <1>1, <1>2 DEF InTurn, Takeovers

LEMMA CallTurns ==
  ASSUME Linux!TypeOK, Turns,
         \/ \E S \in SUBSET LinuxAdapters : Linux!Takeover(S)
         \/ \E a \in LinuxAdapters : Linux!TakeoverSingle(a) \/ Linux!RestoreSingle(a)
         \/ Linux!Restore \/ Linux!EmergencyRestore \/ Linux!Start
  PROVE  Turns'
<1>0. "mgr" \in Linux!Procs /\ "heal" \in Linux!Procs /\ "mgr" # "heal"
  BY DEF Linux!Procs
<1>1. ASSUME NEW S \in SUBSET LinuxAdapters, Linux!Takeover(S) PROVE Turns'
  <2> DEFINE l == Linux!Only([a \in LinuxAdapters |-> Linux!CleanAdapterState(sys[a])], S)
  <2>1. Linux!Begin("mgr", "Takeover", "save", S, l) /\ started' /\ UNCHANGED <<backend, orig, file>>
    BY <1>1 DEF Linux!Takeover, Linux!CallAllowed, Linux!system
  <2> HIDE DEF l
  <2> QED BY <1>0, <2>1, BeginTurns, TurnsOf DEF Takeovers
<1>2. ASSUME NEW a \in LinuxAdapters, Linux!TakeoverSingle(a) PROVE Turns'
  <2> DEFINE l == mem'
  <2>1. Linux!Begin("mgr", "TakeoverSingle", "save", {a}, l) /\ started' /\ UNCHANGED <<backend, orig, file>>
    BY <1>2 DEF Linux!TakeoverSingle, Linux!CallAllowed, Linux!system
  <2> HIDE DEF l
  <2> QED BY <1>0, <2>1, BeginTurns, TurnsOf DEF Takeovers
<1>3. ASSUME NEW a \in LinuxAdapters, Linux!RestoreSingle(a) PROVE Turns'
  <2> DEFINE l == Linux!Only(mem, {a})
  <2>1. Linux!Begin("mgr", "RestoreSingle", "restore", {a}, l) /\ started' /\ UNCHANGED <<backend, orig, file>>
    BY <1>3 DEF Linux!RestoreSingle, Linux!CallAllowed, Linux!system
  <2> HIDE DEF l
  <2> QED BY <1>0, <2>1, BeginTurns, TurnsOf
<1>4. CASE Linux!Restore
  <2>0. PICK states : Linux!Begin("mgr", "Restore", IF Linux!Listed(states) = {} THEN "clear" ELSE "restore",
                                  Linux!Listed(states), states)
    BY <1>4 DEF Linux!Restore
  <2>1. PICK pc \in {"clear", "restore"} : Linux!Begin("mgr", "Restore", pc, Linux!Listed(states), states)
    BY <2>0
  <2>2. started' /\ UNCHANGED <<backend, orig, file>>
    BY <1>4 DEF Linux!Restore, Linux!CallAllowed, Linux!system
  <2> QED BY <1>0, <2>1, <2>2, BeginTurns, TurnsOf
<1>5. ASSUME NEW c \in {"Heal", "Emergency"}, NEW e \in {"idle", "residual"},
             Linux!SelfHeal(c, e) \/ Linux!Unread(c, e), started', UNCHANGED <<backend, orig, file>>
      PROVE  Turns'
  <2>1. CASE UNCHANGED job
    BY <1>0, <1>5, <2>1, TurnsOf DEF Turns
  <2>2. ASSUME NEW pc \in {"restore", "residual"}, NEW S, NEW l, Linux!Begin("heal", c, pc, S, l) PROVE Turns'
    BY <1>0, <1>5, <2>2, BeginTurns, TurnsOf
  <2>3. CASE Linux!Unread(c, e) BY <2>1, <2>2, <2>3 DEF Linux!Unread
  <2>4. CASE Linux!SelfHeal(c, e) BY <2>1, <2>2, <2>4 DEF Linux!SelfHeal
  <2> QED BY <1>5, <2>3, <2>4
<1>6. CASE Linux!EmergencyRestore
  BY <1>5, <1>6 DEF Linux!EmergencyRestore, Linux!system
<1>7. CASE Linux!Start
  BY <1>5, <1>7 DEF Linux!Start, Linux!system
<1> QED BY <1>1, <1>2, <1>3, <1>4, <1>6, <1>7

LEMMA StepTurns ==
  ASSUME Linux!TypeOK, Turns, Linux!Step
  PROVE  Turns'
<1> DEFINE j == job["mgr"]
<1>0. "mgr" \in Linux!Procs /\ "heal" \in Linux!Procs /\ "mgr" # "heal" /\ j \in Linux!Jobs /\ InTurn("mgr", j)
  BY JobType DEF Linux!Procs, Turns
<1>s. ASSUME NEW p \in Linux!Procs, job[p].pc # "idle" PROVE started
  BY <1>s DEF Turns
<1>m. ASSUME NEW new, job'["mgr"] = new, \A q \in Linux!Procs \ {"mgr"} : job'[q] = job[q],
             new.pc \in {"backup", "apply", "undo", "restore"}, new.call = j.call, j.call \in Takeovers,
             started', UNCHANGED <<backend, orig>>, file' = file \/ file'.present
      PROVE  Turns'
  <2>1. InTurn("mgr", new)
    BY <1>0, <1>m DEF InTurn, Takeovers
  <2> QED BY <1>0, <1>m, <2>1, TurnsOf
<1>1. CASE Linux!SaveBeforeTakeover
  <2>1. j.pc = "save" /\ started' /\ j.call \in Takeovers /\ UNCHANGED <<backend, orig>>
    BY <1>0, <1>s, <1>1 DEF Linux!SaveBeforeTakeover, InTurn, Linux!system
  <2>2. CASE Linux!Return("mgr") /\ (file' = file \/ file' = Linux!NoFile)
    BY <1>0, <2>1, <2>2, ReturnTurns, TurnsOf
  <2>3. CASE /\ file' = Linux!StateFile(TRUE, j.snap)
             /\ job' = [job EXCEPT !["mgr"].pc = IF backend = "resolvconf" THEN "backup" ELSE "apply"]
    <3>1. PICK pc \in {"backup", "apply"} : job' = [job EXCEPT !["mgr"].pc = pc]
      BY <2>3
    <3> DEFINE new == [j EXCEPT !.pc = pc]
    <3>2. job'["mgr"] = new /\ \A q \in Linux!Procs \ {"mgr"} : job'[q] = job[q]
      BY <1>0, <3>1 DEF Linux!TypeOK
    <3>3. new.pc = pc /\ new.call = j.call
      BY <1>0 DEF Linux!Jobs
    <3>4. file'.present
      BY <2>3 DEF Linux!StateFile
    <3> HIDE DEF new
    <3> QED BY <1>m, <2>1, <3>2, <3>3, <3>4
  <2> QED BY <1>1, <2>2, <2>3 DEF Linux!SaveBeforeTakeover
<1>2. CASE Linux!BackupResolvConf
  <2>1. j.pc = "backup" /\ started' /\ j.call \in Takeovers /\ UNCHANGED <<backend, orig, file>>
    BY <1>0, <1>s, <1>2 DEF Linux!BackupResolvConf, InTurn, Linux!system
  <2>2. PICK pc \in {"undo", "apply"} : job' = [job EXCEPT !["mgr"].pc = pc]
    BY <1>2 DEF Linux!BackupResolvConf
  <2> DEFINE new == [j EXCEPT !.pc = pc]
  <2>3. job'["mgr"] = new /\ \A q \in Linux!Procs \ {"mgr"} : job'[q] = job[q]
    BY <1>0, <2>2 DEF Linux!TypeOK
  <2>4. new.pc = pc /\ new.call = j.call
    BY <1>0 DEF Linux!Jobs
  <2> HIDE DEF new
  <2> QED BY <1>m, <2>1, <2>3, <2>4
<1>3. CASE Linux!RollbackApplied
  <2>1. j.pc = "undo" /\ started' /\ j.call \in Takeovers /\ UNCHANGED <<backend, orig, file>>
    BY <1>0, <1>s, <1>3 DEF Linux!RollbackApplied, InTurn, Linux!system
  <2> DEFINE new == [j EXCEPT !.pc = "restore", !.snap = Linux!Only(j.snap, j.ask), !.todo = Linux!Units(j.ask)]
  <2>2. job'["mgr"] = new /\ \A q \in Linux!Procs \ {"mgr"} : job'[q] = job[q]
    BY <1>0, <1>3 DEF Linux!TypeOK, Linux!RollbackApplied
  <2>3. new.pc = "restore" /\ new.call = j.call
    BY <1>0 DEF Linux!Jobs
  <2> HIDE DEF new
  <2> QED BY <1>m, <2>1, <2>2, <2>3
<1>4. CASE Linux!Resave
  <2>1. started' /\ UNCHANGED <<backend, orig>>
    BY <1>0, <1>s, <1>4 DEF Linux!Resave, Linux!system
  <2>2. file' = file \/ file' = Linux!NoFile \/ file'.present
    BY <1>4 DEF Linux!Resave, Linux!Save, Linux!StateFile
  <2>3. Linux!Return("mgr")
    BY <1>4 DEF Linux!Resave
  <2> QED BY <1>0, <2>1, <2>2, <2>3, ReturnTurns, TurnsOf
<1>5. ASSUME NEW a \in LinuxAdapters, Linux!Apply(a) PROVE Turns'
  <2>1. j.pc = "apply" /\ started' /\ j.call \in Takeovers /\ UNCHANGED <<backend, orig, file>>
    BY <1>0, <1>s, <1>5 DEF Linux!Apply, InTurn, Linux!system
  <2>2. CASE Linux!Return("mgr")
    BY <1>0, <2>1, <2>2, ReturnTurns, TurnsOf
  <2>3. ASSUME NEW pc \in {"apply", "undo"}, NEW todo, NEW done,
               job' = [job EXCEPT !["mgr"] = [j EXCEPT !.pc = pc, !.todo = todo, !.done = done]]
        PROVE  Turns'
    <3> DEFINE new == [j EXCEPT !.pc = pc, !.todo = todo, !.done = done]
    <3>1. job'["mgr"] = new /\ \A q \in Linux!Procs \ {"mgr"} : job'[q] = job[q]
      BY <1>0, <2>3 DEF Linux!TypeOK
    <3>2. new.pc = pc /\ new.call = j.call
      BY <1>0 DEF Linux!Jobs
    <3> HIDE DEF new
    <3> QED BY <1>m, <2>1, <3>1, <3>2
  <2>4. CASE job' = [job EXCEPT !["mgr"].todo = @ \ {a}, !["mgr"].done = @ \cup {a}]
    <3>1. job' = [job EXCEPT !["mgr"] = [j EXCEPT !.pc = "apply", !.todo = j.todo \ {a}, !.done = j.done \cup {a}]]
      BY <1>0, <2>1, <2>4 DEF Linux!TypeOK, Linux!Jobs
    <3> QED BY <2>3, <3>1
  <2>5. CASE job' = [job EXCEPT !["mgr"].pc = "undo"]
    <3>1. job' = [job EXCEPT !["mgr"] = [j EXCEPT !.pc = "undo", !.todo = j.todo, !.done = j.done]]
      BY <1>0, <2>5 DEF Linux!TypeOK, Linux!Jobs
    <3> QED BY <2>3, <3>1
  <2>6. CASE job' = [job EXCEPT !["mgr"].pc = "undo",
                         !["mgr"].done = IF backend = "resolved" THEN @ \cup {a} ELSE @]
    <3> DEFINE done == IF backend = "resolved" THEN j.done \cup {a} ELSE j.done
    <3>1. job' = [job EXCEPT !["mgr"] = [j EXCEPT !.pc = "undo", !.todo = j.todo, !.done = done]]
      BY <1>0, <2>6 DEF Linux!TypeOK, Linux!Jobs
    <3> HIDE DEF done
    <3> QED BY <2>3, <3>1
  <2> QED BY <1>5, <2>2, <2>4, <2>5, <2>6 DEF Linux!Apply
<1>6. ASSUME NEW p \in Linux!Procs, NEW a \in LinuxAdapters, Linux!RestoreAdapter(p, a) PROVE Turns'
  <2>0. job[p] \in Linux!Jobs /\ InTurn(p, job[p])
    BY JobType DEF Turns
  <2>1. job[p].pc = "restore" /\ started' /\ UNCHANGED <<backend, orig, file>>
    BY <1>6, <1>s DEF Linux!RestoreAdapter, Linux!system
  <2>2. job[p].call \in {"Takeover", "TakeoverSingle", "Restore", "RestoreSingle", "Heal", "Emergency"}
        /\ (p = "mgr" => job[p].call \notin {"Heal", "Emergency"}) /\ (p = "heal" => job[p].call \in {"Heal", "Emergency"})
    BY <2>0, <2>1 DEF InTurn, Takeovers, Linux!Procs
  <2>3. PICK bad \in BOOLEAN :
           IF job[p].todo # {a} THEN job' = [job EXCEPT ![p].todo = @ \ {a}, ![p].bad = bad]
           ELSE LET pc == Linux!AfterRestore(job[p], bad) IN
                      IF pc = "idle" THEN Linux!Return(p)
                      ELSE job' = [job EXCEPT ![p].todo = {}, ![p].bad = bad, ![p].pc = pc]
    BY <1>6, JobType DEF Linux!RestoreAdapter
  <2>4. ASSUME NEW pc \in {"restore", "clear", "residual", "resave"}, NEW new,
               new.pc = pc, new.call = job[p].call, job' = [job EXCEPT ![p] = new],
               pc = "residual" => job[p].call = "Emergency",
               pc = "resave" => job[p].call \in {"TakeoverSingle", "RestoreSingle"}
        PROVE  Turns'
    <3>1. job'[p] = new /\ \A q \in Linux!Procs \ {p} : job'[q] = job[q]
      BY <2>4 DEF Linux!TypeOK
    <3>3. InTurn(p, new)
      BY <2>2, <2>4 DEF InTurn, Takeovers, Linux!Procs
    <3> QED BY <2>1, <3>1, <3>3, TurnsOf
  <2>5. CASE job[p].todo # {a}
    <3> DEFINE new == [job[p] EXCEPT !.todo = @ \ {a}, !.bad = bad]
    <3>1. job' = [job EXCEPT ![p] = new]
      BY <2>3, <2>5
    <3>2. new.pc = "restore" /\ new.call = job[p].call
      BY <2>0, <2>1 DEF Linux!Jobs
    <3> HIDE DEF new
    <3> QED BY <2>4, <3>1, <3>2
  <2>6. CASE job[p].todo = {a}
    <3> DEFINE pc == Linux!AfterRestore(job[p], bad)
    <3>1. /\ pc \in {"idle", "clear", "residual", "resave"}
          /\ pc = "residual" => job[p].call = "Emergency"
          /\ pc = "resave" => job[p].call \in {"TakeoverSingle", "RestoreSingle"}
      BY <2>2 DEF Linux!AfterRestore
    <3>2. pc = "idle" => Linux!Return(p)
      BY <2>3, <2>6
    <3> DEFINE new == [job[p] EXCEPT !.todo = {}, !.bad = bad, !.pc = pc]
    <3>3. pc # "idle" => job' = [job EXCEPT ![p] = new]
      BY <2>3, <2>6
    <3> HIDE DEF pc
    <3>6. new.pc = pc /\ new.call = job[p].call
      BY <2>0 DEF Linux!Jobs
    <3> HIDE DEF new
    <3>4. CASE pc = "idle"
      BY <2>1, <3>2, <3>4, ReturnTurns, TurnsOf
    <3>5. CASE pc # "idle"
      BY <2>4, <3>1, <3>3, <3>5, <3>6
    <3> QED BY <3>4, <3>5
  <2> QED BY <2>5, <2>6
<1>7. ASSUME NEW p \in Linux!Procs, Linux!ClearFile(p) PROVE Turns'
  <2>0. job[p] \in Linux!Jobs /\ InTurn(p, job[p])
    BY JobType DEF Turns
  <2>1. job[p].pc = "clear" /\ started' /\ UNCHANGED <<backend, orig>> /\ (file' = file \/ file' = Linux!NoFile)
    BY <1>7, <1>s DEF Linux!ClearFile, Linux!Clear, Linux!system
  <2>2. CASE Linux!Return(p)
    BY <2>1, <2>2, ReturnTurns, TurnsOf
  <2>3. CASE job[p].call \in {"Restore", "Emergency"} /\ job' = [job EXCEPT ![p].pc = "residual"]
    <3> DEFINE new == [job[p] EXCEPT !.pc = "residual"]
    <3>1. job'[p] = new /\ \A q \in Linux!Procs \ {p} : job'[q] = job[q]
      BY <2>3 DEF Linux!TypeOK
    <3>2. new.pc = "residual" /\ new.call = job[p].call
      BY <2>0 DEF Linux!Jobs
    <3> HIDE DEF new
    <3>3. InTurn(p, new)
      BY <2>0, <2>1, <2>3, <3>2 DEF InTurn, Takeovers, Linux!Procs
    <3> QED BY <2>1, <3>1, <3>3, TurnsOf
  <2> QED BY <1>7, <2>2, <2>3 DEF Linux!ClearFile
<1>8. ASSUME NEW p \in Linux!Procs, Linux!ResetResidualLoopbackDNS(p) PROVE Turns'
  <2>1. started' /\ UNCHANGED <<backend, orig, file>> /\ Linux!Return(p)
    BY <1>8, <1>s DEF Linux!ResetResidualLoopbackDNS, Linux!system
  <2> QED BY <2>1, ReturnTurns, TurnsOf
<1> QED BY <1>1, <1>2, <1>3, <1>4, <1>5, <1>6, <1>7, <1>8 DEF Linux!Step

(***************************************************************************)
(* The calls, as long as they give nothing away.                           *)
(***************************************************************************)
LEMMA CallStates ==
  ASSUME Inductive, NEW c, NEW S, NEW l, Linux!CallAllowed, Linux!Spoils(c, S, l), ~spoilt'
  PROVE  /\ started /\ job["mgr"] = Linux!Idle /\ job["heal"] = Linux!Idle
         /\ Linux!Off \subseteq Linux!Reach(l) /\ UNCHANGED stale
         /\ c = "Takeover" => mem = Linux!Empty
         /\ c = "TakeoverSingle" => \A a \in S : mem[a] = None
         /\ backend = "nm" => /\ c \notin {"TakeoverSingle", "RestoreSingle"}
                              /\ c = "Takeover" => S = LinuxAdapters /\ named
         /\ backend = "resolvconf" /\ c = "TakeoverSingle" => mem = Linux!Empty
<1>1. ~Linux!Twice(c, S) /\ ~Linux!Partial(c, S) /\ ~Linux!Missed(l) /\ job["heal"].pc = "idle" /\ UNCHANGED stale
  BY DEF Linux!Spoils
<1>2. started /\ job["mgr"] = Linux!Idle /\ job["heal"] = Linux!Idle
  BY <1>1 DEF Inductive, Linux!CallAllowed, Turns, InTurn, Linux!Procs
<1>3. Linux!Off \subseteq Linux!Reach(l)
  BY <1>1 DEF Linux!Missed
<1>4. /\ c = "Takeover" => mem = Linux!Empty
      /\ c = "TakeoverSingle" => \A a \in S : mem[a] = None
      /\ backend = "resolvconf" /\ c = "TakeoverSingle" => mem = Linux!Empty
  BY <1>1 DEF Linux!Twice
<1>5. backend = "nm" => /\ c \notin {"TakeoverSingle", "RestoreSingle"}
                        /\ c = "Takeover" => S = LinuxAdapters /\ named
  BY <1>1 DEF Linux!Partial
<1> QED BY <1>1, <1>2, <1>3, <1>4, <1>5

LEMMA GoodIsClean ==
  ASSUME Linux!TypeOK, NEW a \in LinuxAdapters, NEW c, Linux!Good(a, c)
  PROVE  c \in Linux!Clean /\ Linux!CleanAdapterState(c) = c /\ c # None /\ ~Linux!HasResidualLoopback(c)
BY CleanOfClean, PublicIsClean DEF Linux!Good, Linux!TypeOK

LEMMA OffSame ==
  ASSUME UNCHANGED <<backend, orig, sys>>
  PROVE  Linux!Off' = Linux!Off
BY DEF Linux!Off, Linux!Good

LEMMA TakeoverStep ==
  ASSUME Inductive, ~spoilt', NEW S \in SUBSET LinuxAdapters, Linux!Takeover(S)
  PROVE  WayBack'
<1> DEFINE l == Linux!Only([a \in LinuxAdapters |-> Linux!CleanAdapterState(sys[a])], S)
           U == Linux!Units(S)
           new == [call |-> "Takeover", pc |-> "save", ask |-> S, todo |-> U, done |-> {}, bad |-> FALSE,
                   snap |-> l, old |-> Linux!Empty, was |-> takeover]
<1>0. "mgr" \in Linux!Procs /\ "heal" \in Linux!Procs /\ Linux!TypeOK
  BY DEF Linux!Procs, Inductive
<1>1. job["mgr"] = Linux!Idle /\ job["heal"] = Linux!Idle /\ mem = Linux!Empty /\ started /\ S # {}
      /\ (backend = "nm" => S = LinuxAdapters /\ named) /\ UNCHANGED stale /\ Linux!Off \subseteq Linux!Reach(mem)
  BY CallStates DEF Linux!Takeover
<1>2. Linux!Off = {}
  BY <1>1, EmptyType DEF Linux!Reach
<1>3. \A a \in LinuxAdapters : l[a] = IF a \in S THEN sys[a] ELSE None
  BY <1>0, <1>2, GoodIsClean DEF Linux!Only, Linux!Off
<1>4. Linux!Listed(l) = S
  BY <1>0, <1>2, <1>3, GoodIsClean DEF Linux!Listed, Linux!Off
<1>5. job' = [job EXCEPT !["mgr"] = new]
  BY <1>1 DEF Linux!Takeover, Linux!Begin
<1>6. job'["mgr"] = new /\ job'["heal"] = Linux!Idle
  BY <1>0, <1>1, <1>5 DEF Linux!TypeOK
<1>7. UNCHANGED <<backend, named, orig, sys, file, backup, dorig, script, started, takeover, mem, budget>>
  BY DEF Linux!Takeover, Linux!system
<1>8. backend = "resolved" => U = S
  BY DEF Linux!Units
<1>8a. backend = "resolvconf" => U = {Linux!Whole}
  BY DEF Linux!Units
<1> HIDE DEF l, U
<1>f. /\ new.call = "Takeover" /\ new.pc = "save" /\ new.ask = S /\ new.todo = U /\ new.done = {} /\ new.bad = FALSE
      /\ new.snap = l /\ new.old = Linux!Empty /\ new.was = takeover
  OBVIOUS
<1> HIDE DEF new
<1>g. Linux!Off' = {}
  BY <1>2, <1>7, OffSame
<1>9. OneFile' /\ Alone'
  BY <1>6, <1>7 DEF Inductive, WayBack, OneFile, Linux!Good, Alone, Linux!Idle
<1>10. Remembered'
  BY <1>1, <1>2, <1>3, <1>4, <1>6, <1>7, <1>f, EmptyType
     DEF Inductive, WayBack, Remembered, Faithful, Linux!Good, Linux!Off, Linux!Idle, Linux!Procs
<1>11. Kept'
  BY <1>1, <1>6, <1>7, <1>f, <1>g DEF Kept
<1>12. ScriptIsCurrent'
  BY <1>1, <1>6, <1>7, <1>f DEF Inductive, WayBack, ScriptIsCurrent, Faithful, Linux!Good, Linux!Idle
<1>13. TakingOver(job["mgr"])'
  BY <1>1, <1>4, <1>6, <1>7, <1>8, <1>8a, <1>f, <1>g, EmptyType DEF TakingOver
<1>14. Before(job["mgr"])'
  BY <1>1, <1>6, <1>7, <1>f DEF Before, Takeovers
<1>15. \A p \in Linux!Procs : Restoring(job[p])'
  BY <1>6, <1>f DEF Restoring, Linux!Idle, Linux!Procs
<1> QED BY <1>9, <1>10, <1>11, <1>12, <1>13, <1>14, <1>15 DEF WayBack

LEMMA TakeoverSingleStep ==
  ASSUME Inductive, ~spoilt', NEW a \in LinuxAdapters, Linux!TakeoverSingle(a)
  PROVE  WayBack'
<1> DEFINE l == [mem EXCEPT ![a] = Linux!CleanAdapterState(sys[a])]
           U == Linux!Units({a})
           new == [call |-> "TakeoverSingle", pc |-> "save", ask |-> {a}, todo |-> U, done |-> {}, bad |-> FALSE,
                   snap |-> l, old |-> mem, was |-> takeover]
<1>0. "mgr" \in Linux!Procs /\ "heal" \in Linux!Procs /\ Linux!TypeOK /\ mem \in Linux!Snapshots
  BY DEF Linux!Procs, Inductive, Linux!TypeOK
<1>1. job["mgr"] = Linux!Idle /\ job["heal"] = Linux!Idle /\ mem[a] = None /\ started /\ backend # "nm"
      /\ (backend = "resolvconf" => mem = Linux!Empty) /\ UNCHANGED stale /\ Linux!Off \subseteq Linux!Reach(mem)
  BY CallStates DEF Linux!TakeoverSingle
<1>2. (backend = "resolvconf" => Linux!Off = {}) /\ (mem # Linux!Empty => takeover)
  BY <1>1, EmptyType DEF Linux!Reach, Inductive, WayBack, Kept, Linux!Idle
<1>3. Linux!Good(a, sys[a])
  BY <1>1, <1>2, LinuxFacts, <1>0 DEF Linux!Off, Linux!Reach, Linux!Listed, Linux!TypeOK
<1>4. \A b \in LinuxAdapters : l[b] = IF b = a THEN sys[a] ELSE mem[b]
  BY <1>0, <1>3, GoodIsClean DEF Linux!Snapshots
<1>5. Linux!Listed(l) = Linux!Listed(mem) \cup {a} /\ a \notin Linux!Listed(mem)
  BY <1>0, <1>1, <1>3, <1>4, GoodIsClean DEF Linux!Listed
<1>6. mem' = l /\ job' = [job EXCEPT !["mgr"] = new]
  BY DEF Linux!TakeoverSingle, Linux!Begin
<1>7. job'["mgr"] = new /\ job'["heal"] = Linux!Idle
  BY <1>0, <1>1, <1>6 DEF Linux!TypeOK
<1>8. UNCHANGED <<backend, named, orig, sys, file, backup, dorig, script, started, takeover, budget>>
  BY DEF Linux!TakeoverSingle, Linux!system
<1>9. (backend = "resolved" => U = {a}) /\ (backend = "resolvconf" => U = {Linux!Whole})
  BY DEF Linux!Units
<1> HIDE DEF l, U
<1>f. /\ new.call = "TakeoverSingle" /\ new.pc = "save" /\ new.ask = {a} /\ new.todo = U /\ new.done = {} /\ new.bad = FALSE
      /\ new.snap = l /\ new.old = mem /\ new.was = takeover
  OBVIOUS
<1> HIDE DEF new
<1>g. Linux!Off' = Linux!Off
  BY <1>8, OffSame
<1>10. OneFile' /\ Alone'
  BY <1>7, <1>8 DEF Inductive, WayBack, OneFile, Linux!Good, Alone, Linux!Idle
<1>11. Remembered'
  BY <1>1, <1>3, <1>4, <1>5, <1>6, <1>7, <1>8, <1>f, EmptyType
     DEF Inductive, WayBack, Remembered, Faithful, Linux!Good, Linux!Idle, Linux!Procs
<1>12. Kept'
  BY <1>1, <1>6, <1>7, <1>8, <1>f, <1>g DEF Inductive, WayBack, Kept, Linux!Reach
<1>13. ScriptIsCurrent'
  BY <1>1, <1>6, <1>7, <1>8, <1>f DEF Inductive, WayBack, ScriptIsCurrent, Faithful, Linux!Good, Linux!Idle
<1>14. TakingOver(job["mgr"])'
  <2>1. Linux!Off \subseteq Linux!Reach(l)
    BY <1>0, <1>1, <1>2, <1>5, LinuxFacts DEF Linux!Reach, Linux!TypeOK
  <2> QED BY <1>1, <1>2, <1>5, <1>6, <1>7, <1>8, <1>9, <1>f, <1>g, <2>1 DEF TakingOver, Linux!Reach
<1>15. Before(job["mgr"])'
  BY <1>0, <1>1, <1>2, <1>7, <1>8, <1>f, LinuxFacts DEF Linux!TypeOK, Before, Takeovers
<1>16. \A p \in Linux!Procs : Restoring(job[p])'
  BY <1>7, <1>f DEF Restoring, Linux!Idle, Linux!Procs
<1> QED BY <1>10, <1>11, <1>12, <1>13, <1>14, <1>15, <1>16 DEF WayBack

(* A restore that begins: what is out of place is in its reach.            *)
LEMMA SpanOfUnits ==
  ASSUME Linux!TypeOK, NEW l \in Linux!Snapshots, Linux!Listed(l) # {}, NEW b \in Linux!Reach(l)
  PROVE  b \in UNION {Linux!Span(a) : a \in Linux!Units(Linux!Listed(l))}
<1>1. CASE backend = "resolved"
  BY <1>1 DEF Linux!Reach, Linux!Span, Linux!Units
<1>2. CASE backend = "nm"
  BY <1>2 DEF Linux!Reach, Linux!Span, Linux!Units
<1>3. CASE backend = "resolvconf"
  BY <1>3 DEF Linux!Reach, Linux!Span, Linux!Units
<1> QED BY <1>1, <1>2, <1>3, LinuxFacts DEF Linux!TypeOK

(* The step that begins a restore of the snapshots l for the call c.       *)
LEMMA BeginRestore ==
  ASSUME Inductive, NEW p \in Linux!Procs, NEW c, NEW l \in Linux!Snapshots, NEW S,
         S \in SUBSET LinuxAdapters, job["mgr"] = Linux!Idle, job["heal"] = Linux!Idle, Linux!Begin(p, c, "restore", S, l),
         UNCHANGED <<backend, named, orig, sys, file, backup, dorig, script, takeover, mem, stale>>,
         \/ p = "mgr" /\ c \in {"Restore", "RestoreSingle"}
         \/ p = "heal" /\ c \in {"Heal", "Emergency"},
         Faithful(l), S = Linux!Listed(l), S # {},
         \/ c # "RestoreSingle" /\ Linux!Off \subseteq Linux!Reach(l)
         \/ /\ c = "RestoreSingle" /\ backend # "nm" /\ mem # Linux!Empty
            /\ Linux!Off \subseteq Linux!Reach(l) \cup Linux!Reach(Linux!Only(mem, Linux!Listed(mem) \ S))
  PROVE  WayBack'
<1> DEFINE U == Linux!Units(S)
           new == [call |-> c, pc |-> "restore", ask |-> S, todo |-> U, done |-> {}, bad |-> FALSE,
                   snap |-> l, old |-> mem, was |-> takeover]
<1>0. Linux!TypeOK /\ Linux!Procs = {"mgr", "heal"}
  BY DEF Inductive, Linux!Procs
<1>1. job' = [job EXCEPT ![p] = new]
  BY DEF Linux!Begin
<1>2. \/ p = "mgr" /\ job'["mgr"] = new /\ job'["heal"] = Linux!Idle
      \/ p = "heal" /\ job'["heal"] = new /\ job'["mgr"] = Linux!Idle
  BY <1>0, <1>1 DEF Linux!TypeOK
<1>3. \A b \in Linux!Off : \/ b \in UNION {Linux!Span(a) : a \in U}
                           \/ c = "RestoreSingle" /\ b \in Linux!Reach(Linux!Only(mem, Linux!Listed(mem) \ S))
  BY <1>0, SpanOfUnits
<1>u. /\ backend = "resolved" => U = S
      /\ backend = "resolvconf" => U = {Linux!Whole}
  BY DEF Linux!Units
<1> HIDE DEF U
<1>f. /\ new.call = c /\ new.pc = "restore" /\ new.ask = S /\ new.todo = U /\ new.done = {} /\ new.bad = FALSE
      /\ new.snap = l /\ new.old = mem /\ new.was = takeover
  OBVIOUS
<1> HIDE DEF new
<1>5. OneFile' /\ Alone'
  BY <1>2 DEF Inductive, WayBack, OneFile, Linux!Good, Alone, Linux!Idle
<1>6. Remembered'
  BY <1>0, <1>2, <1>f DEF Inductive, WayBack, Remembered, Faithful, Linux!Good, Linux!Idle
<1>7. Kept'
  <2>1. Linux!Off' = Linux!Off
    BY OffSame
  <2> QED BY <1>0, <1>2, <1>f, <2>1 DEF Inductive, WayBack, Kept, Linux!Reach, Linux!Idle
<1>8. ScriptIsCurrent'
  BY <1>0, <1>2, <1>f DEF Inductive, WayBack, ScriptIsCurrent, Faithful, Linux!Good, Linux!Idle
<1>9. TakingOver(job["mgr"])'
  <2>1. job'["mgr"].pc \in {"restore", "idle"}
    BY <1>2, <1>f DEF Linux!Idle
  <2> QED BY <2>1 DEF TakingOver
<1>10. Before(job["mgr"])'
  BY <1>0, <1>2, <1>f DEF Before, Linux!Idle, Takeovers
<1>11. \A q \in Linux!Procs : Restoring(job[q])'
  <2>2. backend = "nm" => Linux!Listed(l) = LinuxAdapters
    BY DEF Faithful
  <2>4. Left(job[p])' = IF c = "RestoreSingle" THEN Linux!Reach(Linux!Only(mem, Linux!Listed(mem) \ S)) ELSE {}
    <3>1. job'[p] = new /\ new.call = c /\ new.snap = l /\ c # "TakeoverSingle"
      BY <1>2, <1>f
    <3> QED BY <3>1 DEF Left, Linux!Remaining, Linux!Reach
  <2>5. Linux!Off' = Linux!Off
    BY OffSame
  <2>6. InHand(job[p])' = UNION {Linux!Span(a) : a \in U}
    BY <1>2, <1>f DEF InHand, Linux!Span
  <2>7. (Linux!Off \subseteq InHand(job[p]) \cup Left(job[p]))'
    BY <1>3, <2>4, <2>5, <2>6
  <2>8. Restoring(job[p])'
    BY <1>2, <1>u, <1>f, <2>2, <2>7 DEF Restoring
  <2> QED BY <1>0, <1>2, <2>8 DEF Restoring, Linux!Idle
<1> QED BY <1>5, <1>6, <1>7, <1>8, <1>9, <1>10, <1>11 DEF WayBack

(* The step that has nothing to restore.                                   *)
LEMMA BeginQuiet ==
  ASSUME Inductive, NEW p \in Linux!Procs, NEW c, NEW pc,
         job["mgr"] = Linux!Idle, job["heal"] = Linux!Idle, Linux!Begin(p, c, pc, {}, Linux!Empty),
         UNCHANGED <<backend, named, orig, sys, file, backup, dorig, script, takeover, mem, stale>>,
         p = "mgr" => c = "Restore" /\ pc = "clear" /\ Linux!Off = {},
         p = "heal" => c = "Emergency" /\ pc = "residual"
  PROVE  WayBack'
<1> DEFINE new == [call |-> c, pc |-> pc, ask |-> {}, todo |-> {}, done |-> {}, bad |-> FALSE,
                   snap |-> Linux!Empty, old |-> mem, was |-> takeover]
<1>0. Linux!TypeOK /\ Linux!Procs = {"mgr", "heal"}
  BY DEF Inductive, Linux!Procs
<1>1. job' = [job EXCEPT ![p] = new]
  BY DEF Linux!Begin
<1>2. \/ p = "mgr" /\ job'["mgr"] = new /\ job'["heal"] = Linux!Idle
      \/ p = "heal" /\ job'["heal"] = new /\ job'["mgr"] = Linux!Idle
  BY <1>0, <1>1 DEF Linux!TypeOK
<1>f. /\ new.call = c /\ new.pc = pc /\ new.bad = FALSE /\ new.snap = Linux!Empty /\ new.old = mem /\ new.was = takeover
  OBVIOUS
<1>3. Faithful(Linux!Empty) /\ Linux!Off' = Linux!Off
  BY EmptyType, OffSame DEF Faithful, Linux!Empty
<1> HIDE DEF new
<1>5. OneFile' /\ Alone'
  BY <1>2 DEF Inductive, WayBack, OneFile, Linux!Good, Alone, Linux!Idle
<1>6. Remembered'
  BY <1>0, <1>2, <1>3, <1>f DEF Inductive, WayBack, Remembered, Faithful, Linux!Good, Linux!Idle
<1>7. Kept'
  BY <1>0, <1>2, <1>3, <1>f DEF Inductive, WayBack, Kept, Linux!Reach, Linux!Idle
<1>8. ScriptIsCurrent'
  <2>1. job'["mgr"].pc # "save"
    BY <1>2, <1>f DEF Linux!Idle
  <2> QED BY <2>1 DEF Inductive, WayBack, ScriptIsCurrent, Faithful, Linux!Good, Linux!Idle
<1>9. TakingOver(job["mgr"])'
  <2>1. job'["mgr"].pc \in {"clear", "idle"}
    BY <1>2, <1>f DEF Linux!Idle
  <2> QED BY <2>1 DEF TakingOver
<1>10. Before(job["mgr"])'
  BY <1>0, <1>2, <1>f DEF Before, Linux!Idle, Takeovers
<1>11. \A q \in Linux!Procs : Restoring(job[q])'
  <2>1. CASE p = "mgr"
    BY <1>0, <1>2, <1>3, <1>f, <2>1 DEF Restoring, Linux!Idle
  <2>2. CASE p = "heal"
    BY <1>0, <1>2, <1>f, <2>2 DEF Restoring, Linux!Idle
  <2> QED BY <1>2, <2>1, <2>2
<1> QED BY <1>5, <1>6, <1>7, <1>8, <1>9, <1>10, <1>11 DEF WayBack

LEMMA RestoreStep ==
  ASSUME Inductive, ~spoilt', Linux!Restore
  PROVE  WayBack'
<1>0. "mgr" \in Linux!Procs /\ Linux!TypeOK /\ mem \in Linux!Snapshots /\ file.snap \in Linux!Snapshots
  BY DEF Linux!Procs, Inductive, Linux!TypeOK, Linux!StateFiles
<1>1. PICK states \in {mem, file.snap} :
         /\ Linux!Begin("mgr", "Restore", IF Linux!Listed(states) = {} THEN "clear" ELSE "restore",
                        Linux!Listed(states), states)
         /\ Linux!Spoils("Restore", {}, states)
  BY DEF Linux!Restore
<1>2. UNCHANGED <<backend, named, orig, sys, file, backup, dorig, script, takeover, mem>> /\ Linux!CallAllowed
  BY DEF Linux!Restore, Linux!system
<1>3. job["mgr"] = Linux!Idle /\ job["heal"] = Linux!Idle /\ started /\ Linux!Off \subseteq Linux!Reach(states) /\ UNCHANGED stale
  BY <1>1, <1>2, CallStates
<1>4. states \in Linux!Snapshots /\ Faithful(states) /\ Linux!Listed(states) \in SUBSET LinuxAdapters
  BY <1>0 DEF Inductive, WayBack, Remembered, Linux!Listed
<1>5. CASE Linux!Listed(states) = {}
  <2>1. Linux!Off = {} /\ states = Linux!Empty
    BY <1>3, <1>4, <1>5, EmptyType DEF Linux!Reach
  <2>2. Linux!Begin("mgr", "Restore", "clear", {}, Linux!Empty)
    BY <1>1, <1>5, <2>1
  <2> QED BY <1>0, <1>2, <1>3, <2>1, <2>2, BeginQuiet
<1>6. CASE Linux!Listed(states) # {}
  <2>1. Linux!Begin("mgr", "Restore", "restore", Linux!Listed(states), states)
    BY <1>1, <1>6
  <2> QED BY <1>0, <1>2, <1>3, <1>4, <1>6, <2>1, BeginRestore
<1> QED BY <1>5, <1>6

LEMMA RestoreSingleStep ==
  ASSUME Inductive, ~spoilt', NEW a \in LinuxAdapters, Linux!RestoreSingle(a)
  PROVE  WayBack'
<1> DEFINE l == Linux!Only(mem, {a})
<1>0. "mgr" \in Linux!Procs /\ Linux!TypeOK /\ mem \in Linux!Snapshots
  BY DEF Linux!Procs, Inductive, Linux!TypeOK
<1>1. job["mgr"] = Linux!Idle /\ job["heal"] = Linux!Idle /\ started /\ Linux!Off \subseteq Linux!Reach(mem)
      /\ backend # "nm" /\ UNCHANGED stale
  BY CallStates DEF Linux!RestoreSingle
<1>2. UNCHANGED <<backend, named, orig, sys, file, backup, dorig, script, takeover, mem>>
  BY DEF Linux!RestoreSingle, Linux!system
<1>3. l \in Linux!Snapshots /\ Linux!Listed(l) = {a} /\ mem # Linux!Empty
  BY <1>0, OnlyType DEF Linux!RestoreSingle, Linux!Listed, Linux!Empty
<1>4. Faithful(l)
  BY <1>0, <1>1 DEF Inductive, WayBack, Remembered, Faithful, Linux!Only
<1>5. Linux!Off \subseteq Linux!Reach(l) \cup Linux!Reach(Linux!Only(mem, Linux!Listed(mem) \ {a}))
  <2>1. CASE backend = "resolved"
    BY <1>0, <1>1, <1>3, <2>1, OnlyType DEF Linux!Reach
  <2>2. CASE backend = "resolvconf"
    BY <1>3, <2>2 DEF Linux!Reach, Linux!Off
  <2> QED BY <1>0, <1>1, <2>1, <2>2, LinuxFacts DEF Linux!TypeOK
<1>6. Linux!Begin("mgr", "RestoreSingle", "restore", {a}, l)
  BY DEF Linux!RestoreSingle
<1> HIDE DEF l
<1> QED BY <1>0, <1>1, <1>2, <1>3, <1>4, <1>5, <1>6, BeginRestore

(* CheckAndSelfHeal reads the state file.                                  *)
LEMMA HealableFile ==
  ASSUME Inductive
  PROVE  /\ file.snap \in Linux!Snapshots /\ Faithful(file.snap) /\ Linux!Off \subseteq Linux!Reach(file.snap)
         /\ Linux!Healable(file) # {} => Linux!Healable(file) = Linux!Listed(file.snap)
BY DEF Inductive, WayBack, Linux!TypeOK, Linux!StateFiles, Remembered, Kept, Linux!Healable

LEMMA HealStep ==
  ASSUME Inductive, NEW c \in {"Heal", "Emergency"}, NEW e,
         e = IF c = "Heal" THEN "idle" ELSE "residual",
         Linux!SelfHeal(c, e) \/ Linux!Unread(c, e),
         job["mgr"] = Linux!Idle, job["heal"] = Linux!Idle,
         UNCHANGED <<backend, named, orig, sys, file, backup, dorig, script, takeover, mem, stale>>
  PROVE  WayBack'
<1>0. "heal" \in Linux!Procs /\ "mgr" # "heal" /\ "mgr" \in Linux!Procs
  BY DEF Linux!Procs
<1>1. CASE UNCHANGED job
  <2>1. Linux!Off' = Linux!Off
    BY OffSame
  <2>2. OneFile' /\ Alone' /\ Remembered' /\ ScriptIsCurrent'
    BY <1>1 DEF Inductive, WayBack, OneFile, Alone, Linux!Good, Remembered, Faithful, ScriptIsCurrent
  <2>3. Kept'
    BY <1>1, <2>1 DEF Inductive, WayBack, Kept, Linux!Reach
  <2>4. TakingOver(job["mgr"])' /\ Before(job["mgr"])'
    <3>1. job'["mgr"].pc = "idle" /\ job'["mgr"].call = "none"
      BY <1>1 DEF Linux!Idle
    <3> QED BY <3>1 DEF TakingOver, Before, Takeovers
  <2>5. \A p \in Linux!Procs : Restoring(job[p])'
    BY <1>1 DEF Restoring, Linux!Idle, Linux!Procs
  <2> QED BY <2>2, <2>3, <2>4, <2>5 DEF WayBack
<1>2. CASE c = "Emergency" /\ Linux!Begin("heal", c, "residual", {}, Linux!Empty)
  BY <1>0, <1>2, BeginQuiet
<1>3. CASE Linux!Healable(file) # {} /\ Linux!Begin("heal", c, "restore", Linux!Healable(file), file.snap)
  <2>1. Linux!Listed(file.snap) \in SUBSET LinuxAdapters
    BY DEF Linux!Listed
  <2> QED BY <1>0, <1>3, <2>1, HealableFile, BeginRestore
<1>4. CASE Linux!SelfHeal(c, e)
  BY <1>1, <1>2, <1>3, <1>4 DEF Linux!SelfHeal
<1>5. CASE Linux!Unread(c, e)
  BY <1>1, <1>2, <1>5 DEF Linux!Unread
<1> QED BY <1>4, <1>5

LEMMA EmergencyStep ==
  ASSUME Inductive, ~spoilt', Linux!EmergencyRestore
  PROVE  WayBack'
<1>1. job["mgr"] = Linux!Idle /\ job["heal"] = Linux!Idle
  BY DEF Linux!EmergencyRestore, Inductive, Turns, InTurn, Linux!Procs
<1>2. UNCHANGED <<backend, named, orig, sys, file, backup, dorig, script, takeover, mem, stale>>
  BY DEF Linux!EmergencyRestore, Linux!system
<1>3. Linux!SelfHeal("Emergency", "residual") \/ Linux!Unread("Emergency", "residual")
  BY DEF Linux!EmergencyRestore
<1> QED BY <1>1, <1>2, <1>3, HealStep

(* A start whose predecessor gave something away, and where everything is  *)
(* as the user has it all the same.                                        *)
LEMMA MendedStep ==
  ASSUME Linux!TypeOK, Turns, Linux!Mended, Linux!Start
  PROVE  WayBack'
<1>0. "heal" \in Linux!Procs /\ "mgr" # "heal" /\ "mgr" \in Linux!Procs /\ Linux!Whole \in LinuxAdapters
  BY WholeType DEF Linux!Procs
<1>1. job["mgr"] = Linux!Idle /\ job["heal"] = Linux!Idle /\ mem = Linux!Empty /\ ~file.present /\ file.snap = Linux!Empty
  BY <1>0 DEF Linux!Start, Turns, InTurn, Linux!Mended
<1>2. UNCHANGED <<backend, named, orig, sys, file, backup, dorig, script, takeover, mem, stale>>
  BY DEF Linux!Start, Linux!system
<1>3. UNCHANGED job
  BY <1>1 DEF Linux!Start, Linux!SelfHeal, Linux!Unread, Linux!Healable
<1>4. Linux!Off' = {}
  BY <1>2 DEF Linux!Off, Linux!Good, Linux!Mended
<1>5. Faithful(Linux!Empty)'
  BY EmptyType DEF Faithful, Linux!Empty
<1>6. OneFile' /\ Alone'
  BY <1>0, <1>1, <1>2, <1>3 DEF OneFile, Alone, Linux!Idle, Linux!Mended, Turns, Linux!Good
<1>7. Remembered'
  BY <1>1, <1>2, <1>3, <1>5 DEF Remembered, Linux!Idle, Linux!Procs
<1>8. Kept' /\ ScriptIsCurrent'
  BY <1>1, <1>2, <1>3, <1>4 DEF Kept, ScriptIsCurrent, Linux!Idle
<1>9. TakingOver(job["mgr"])' /\ Before(job["mgr"])'
  <2>1. job'["mgr"].pc = "idle" /\ job'["mgr"].call = "none"
    BY <1>1, <1>3 DEF Linux!Idle
  <2> QED BY <2>1 DEF TakingOver, Before, Takeovers
<1>10. \A p \in Linux!Procs : Restoring(job[p])'
  BY <1>1, <1>3 DEF Restoring, Linux!Idle, Linux!Procs
<1> QED BY <1>6, <1>7, <1>8, <1>9, <1>10 DEF WayBack

LEMMA StartStep ==
  ASSUME LinuxInv, ~spoilt', Linux!Start
  PROVE  WayBack'
<1>1. CASE spoilt
  <2>1. Linux!Mended
    BY <1>1 DEF Linux!Start
  <2> QED BY <2>1, MendedStep DEF LinuxInv
<1>2. CASE ~spoilt
  <2>1. Inductive
    BY <1>2 DEF LinuxInv, Inductive
  <2>2. job["mgr"] = Linux!Idle /\ job["heal"] = Linux!Idle
    BY DEF Linux!Start, LinuxInv, Turns, InTurn, Linux!Procs
  <2>3. UNCHANGED <<backend, named, orig, sys, file, backup, dorig, script, takeover, mem, stale>>
    BY DEF Linux!Start, Linux!system
  <2>4. Linux!SelfHeal("Heal", "idle") \/ Linux!Unread("Heal", "idle")
    BY DEF Linux!Start
  <2> QED BY <2>1, <2>2, <2>3, <2>4, HealStep
<1> QED BY <1>1, <1>2

(***************************************************************************)
(* The steps of a takeover.                                                *)
(***************************************************************************)
(* When a job ends, nothing of it is left.                                 *)
LEMMA ReturnJob ==
  ASSUME Linux!TypeOK, Turns, Alone, NEW p \in Linux!Procs, job[p].pc # "idle", Linux!Return(p)
  PROVE  job'["mgr"] = Linux!Idle /\ job'["heal"] = Linux!Idle
BY DEF Linux!TypeOK, Turns, InTurn, Alone, Linux!Procs, Linux!Return

LEMMA IdleJobs ==
  ASSUME job'["mgr"] = Linux!Idle, job'["heal"] = Linux!Idle
  PROVE  /\ TakingOver(job["mgr"])' /\ Before(job["mgr"])' /\ \A p \in Linux!Procs : Restoring(job[p])'
         /\ \A p \in Linux!Procs : job'[p] = Linux!Idle
         /\ Alone'
<1>1. \A p \in Linux!Procs : job'[p].pc = "idle" /\ job'[p].call = "none"
  BY DEF Linux!Idle, Linux!Procs
<1>2. TakingOver(job["mgr"])' /\ Before(job["mgr"])'
  <2>1. job'["mgr"].pc = "idle" /\ job'["mgr"].call = "none"
    BY <1>1 DEF Linux!Procs
  <2> QED BY <2>1 DEF TakingOver, Before, Takeovers
<1>3. \A p \in Linux!Procs : Restoring(job[p])'
  BY <1>1 DEF Restoring
<1> QED BY <1>1, <1>2, <1>3 DEF Linux!Procs, Alone

LEMMA IdleFaithful == Faithful(Linux!Empty)' /\ Faithful(Linux!Empty)
BY EmptyType DEF Faithful, Linux!Empty, Linux!Listed

(* The step of a job p: the other one is idle.                             *)
LEMMA OnlyOne ==
  ASSUME Inductive, NEW p \in Linux!Procs, job[p].pc # "idle"
  PROVE  /\ started /\ \A q \in Linux!Procs \ {p} : job[q] = Linux!Idle
         /\ p = "mgr" => job["heal"] = Linux!Idle
         /\ p = "heal" => job["mgr"] = Linux!Idle
BY DEF Inductive, WayBack, Turns, InTurn, Alone, Linux!Procs

LEMMA SaveStep ==
  ASSUME Inductive, ~spoilt', Linux!SaveBeforeTakeover
  PROVE  WayBack'
<1> DEFINE j == job["mgr"]
<1>0. "mgr" \in Linux!Procs /\ "heal" \in Linux!Procs /\ Linux!TypeOK /\ j \in Linux!Jobs
  BY JobType DEF Linux!Procs, Inductive
<1>1. j.pc = "save" /\ job["heal"] = Linux!Idle /\ j.call \in Takeovers /\ started /\ ~Linux!Lost
      /\ UNCHANGED <<backend, named, orig, sys, backup, dorig, started, takeover>>
  BY <1>0, OnlyOne DEF Linux!SaveBeforeTakeover, Inductive, Turns, InTurn, Linux!system
<1>2. /\ Linux!Off \subseteq Linux!Reach(j.snap) /\ j.done = {}
      /\ mem = IF j.call = "Takeover" THEN Linux!Empty ELSE j.snap
      /\ Linux!Listed(j.snap) # {} /\ Linux!Listed(j.old) \subseteq Linux!Listed(j.snap)
      /\ j.ask = IF j.call = "Takeover" THEN Linux!Listed(j.snap) ELSE Linux!Listed(j.snap) \ Linux!Listed(j.old)
      /\ j.ask # {} /\ ~j.bad
      /\ backend = "resolved" => j.todo \cup j.done \subseteq Linux!Listed(j.snap)
      /\ backend = "nm" => j.call = "Takeover"
      /\ backend = "resolvconf" => j.todo = {Linux!Whole} /\ j.done = {} /\ Linux!Off = {}
  BY <1>1 DEF Inductive, WayBack, TakingOver
<1>3. Linux!Off' = Linux!Off
  BY <1>1, OffSame
<1>4. OneFile'
  BY <1>1 DEF Inductive, WayBack, OneFile, Linux!Good
<1>5. CASE /\ Linux!Return("mgr") /\ mem' = j.old /\ UNCHANGED <<script, stale>>
           /\ file' = file \/ file' = Linux!NoFile
  <2>1. job'["mgr"] = Linux!Idle /\ job'["heal"] = Linux!Idle
    BY <1>0, <1>1, <1>5, ReturnJob DEF Inductive, WayBack
  <2>2. Faithful(file.snap)' /\ Faithful(mem)'
    BY <1>0, <1>1, <1>5, IdleFaithful DEF Inductive, WayBack, Remembered, Faithful, Linux!Good, Linux!NoFile
  <2>3. Remembered'
    BY <2>1, <2>2, IdleFaithful DEF Remembered, Linux!Idle, Linux!Procs
  <2>4. mem' # Linux!Empty => takeover
    BY <1>1, <1>5, <1>2 DEF Inductive, WayBack, Before, Takeovers
  <2>5. Kept'
    <3>1. CASE file' = file
      BY <1>1, <1>3, <1>5, <2>4, <3>1 DEF Inductive, WayBack, Kept, Linux!Reach
    <3>2. CASE file' = Linux!NoFile /\ ~file.present
      <4>1. Linux!Off = {}
        BY <3>2 DEF Inductive, WayBack, Kept
      <4> QED BY <1>1, <1>3, <2>4, <4>1 DEF Kept
    <3>3. CASE file' = Linux!NoFile /\ file.present
      <4>1. Linux!Off = {}
        BY <1>1, <3>3 DEF Linux!Lost, Linux!NoFile
      <4> QED BY <1>1, <1>3, <2>4, <4>1 DEF Kept
    <3> QED BY <1>5, <3>1, <3>2, <3>3
  <2>6. ScriptIsCurrent'
    BY <1>1, <1>5, <2>1 DEF Inductive, WayBack, ScriptIsCurrent, Faithful, Linux!Good, Linux!Idle, Linux!NoFile
  <2> QED BY <1>4, <2>1, <2>3, <2>5, <2>6, IdleJobs DEF WayBack
<1>6. CASE /\ file' = Linux!StateFile(TRUE, j.snap)
           /\ script' = j.snap \/ stale'
           /\ job' = [job EXCEPT !["mgr"].pc = IF backend = "resolvconf" THEN "backup" ELSE "apply"]
           /\ UNCHANGED mem
  <2> DEFINE new == [j EXCEPT !.pc = IF backend = "resolvconf" THEN "backup" ELSE "apply"]
  <2>1. job'["mgr"] = new /\ job'["heal"] = Linux!Idle
    BY <1>0, <1>1, <1>6 DEF Linux!TypeOK
  <2>2. /\ new.pc \in {"backup", "apply"} /\ new.call = j.call /\ new.snap = j.snap /\ new.old = j.old /\ new.ask = j.ask
        /\ new.todo = j.todo /\ new.done = j.done /\ new.bad = j.bad /\ new.was = j.was
    BY <1>0 DEF Linux!Jobs
  <2>3. file'.present /\ file'.active /\ file'.snap = j.snap /\ mem' = mem
    BY <1>6 DEF Linux!StateFile
  <2> HIDE DEF new
  <2>4. Alone'
    BY <2>1 DEF Alone, Linux!Idle
  <2>5. Remembered'
    <3>1. Faithful(mem)' /\ Faithful(file.snap)'
      BY <1>0, <1>1, <2>3 DEF Inductive, WayBack, Remembered, Faithful, Linux!Good
    <3>2. \A p \in Linux!Procs : job'[p].snap = job[p].snap /\ job'[p].old = job[p].old
      BY <1>1, <2>1, <2>2 DEF Linux!Procs
    <3>3. \A p \in Linux!Procs : Faithful(job[p].snap)' /\ Faithful(job[p].old)'
      BY <1>1, <3>2 DEF Inductive, WayBack, Remembered, Faithful, Linux!Good
    <3> QED BY <3>1, <3>3 DEF Remembered
  <2>6. Kept'
    BY <1>0, <1>1, <1>2, <1>3, <1>6, <2>1, <2>2, <2>3 DEF Inductive, WayBack, Kept, Linux!Reach
  <2>7. ScriptIsCurrent'
    BY <1>0, <1>1, <1>6 DEF Inductive, WayBack, Remembered, ScriptIsCurrent, Faithful, Linux!Good
  <2>8. TakingOver(job["mgr"])'
    <3>1. file' = Linux!StateFile(TRUE, new.snap) /\ (~stale' => script' = new.snap)
      BY <1>6, <2>2
    <3> QED BY <1>1, <1>2, <1>3, <2>1, <2>2, <3>1 DEF TakingOver, Linux!StateFile
  <2>9. Before(job["mgr"])'
    BY <1>1, <1>2, <1>6, <2>1, <2>2 DEF Inductive, WayBack, Before
  <2>10. \A p \in Linux!Procs : Restoring(job[p])'
    <3>1. \A p \in Linux!Procs : job'[p].pc \in {"idle", "backup", "apply"}
      BY <2>1, <2>2 DEF Linux!Procs, Linux!Idle
    <3> QED BY <3>1 DEF Restoring
  <2> QED BY <1>4, <2>4, <2>5, <2>6, <2>7, <2>8, <2>9, <2>10 DEF WayBack
<1> QED BY <1>5, <1>6 DEF Linux!SaveBeforeTakeover, Linux!GenerateRestoreScript

LEMMA BackupStep ==
  ASSUME Inductive, ~spoilt', Linux!BackupResolvConf
  PROVE  WayBack'
<1> DEFINE j == job["mgr"]
<1>0. "mgr" \in Linux!Procs /\ "heal" \in Linux!Procs /\ Linux!TypeOK /\ j \in Linux!Jobs /\ Linux!Whole \in LinuxAdapters
  BY JobType, WholeType DEF Linux!Procs, Inductive
<1>1. j.pc = "backup" /\ job["heal"] = Linux!Idle /\ j.call \in Takeovers /\ started
      /\ UNCHANGED <<backend, named, orig, sys, file, script, started, takeover, mem, stale>>
  BY <1>0, OnlyOne DEF Linux!BackupResolvConf, Inductive, Turns, InTurn, Linux!system, Linux!history
<1>2. /\ file = Linux!StateFile(TRUE, j.snap) /\ (~stale => script = j.snap) /\ j.done = {}
      /\ Linux!Listed(j.snap) # {} /\ Linux!Listed(j.old) \subseteq Linux!Listed(j.snap)
      /\ j.ask = IF j.call = "Takeover" THEN Linux!Listed(j.snap) ELSE Linux!Listed(j.snap) \ Linux!Listed(j.old)
      /\ j.ask # {} /\ ~j.bad
      /\ backend = "resolved" => j.todo \cup j.done \subseteq Linux!Listed(j.snap)
      /\ backend = "nm" => j.call = "Takeover"
      /\ backend = "resolvconf" => j.todo = {Linux!Whole} /\ j.done = {} /\ Linux!Off = {}
  BY <1>1 DEF Inductive, WayBack, TakingOver
<1>3. Linux!Off' = Linux!Off
  BY <1>1, OffSame
<1>4. PICK pc \in {"apply", "undo"} : job' = [job EXCEPT !["mgr"].pc = pc]
  BY DEF Linux!BackupResolvConf
<1> DEFINE new == [j EXCEPT !.pc = pc]
<1>5. job'["mgr"] = new /\ job'["heal"] = Linux!Idle
  BY <1>0, <1>1, <1>4 DEF Linux!TypeOK
<1>6. /\ new.pc = pc /\ new.call = j.call /\ new.snap = j.snap /\ new.old = j.old /\ new.ask = j.ask
      /\ new.todo = j.todo /\ new.done = j.done /\ new.bad = j.bad /\ new.was = j.was
  BY <1>0 DEF Linux!Jobs
<1> HIDE DEF new
<1>7. Alone'
  BY <1>5 DEF Alone, Linux!Idle
<1>8. OneFile'
  <2>1. backend = "resolvconf" => \A a \in LinuxAdapters : Linux!Good(a, sys[Linux!Whole])
    BY <1>0, <1>2 DEF Inductive, WayBack, OneFile, Linux!Off, Linux!Good
  <2>2. backup' \in {backup, sys[Linux!Whole]} /\ dorig' \in {dorig, sys[Linux!Whole], None}
    BY DEF Linux!BackupResolvConf
  <2> QED BY <1>1, <2>1, <2>2 DEF Inductive, WayBack, OneFile, Linux!Good
<1>9. Remembered'
  <2>1. \A p \in Linux!Procs : job'[p].snap = job[p].snap /\ job'[p].old = job[p].old
    BY <1>1, <1>5, <1>6 DEF Linux!Procs
  <2> QED BY <1>1, <2>1 DEF Inductive, WayBack, Remembered, Faithful, Linux!Good
<1>10. Kept'
  BY <1>0, <1>1, <1>3, <1>5, <1>6 DEF Inductive, WayBack, Kept, Linux!Reach
<1>11. ScriptIsCurrent'
  BY <1>1, <1>5, <1>6 DEF Inductive, WayBack, ScriptIsCurrent, Faithful, Linux!Good
<1>12. TakingOver(job["mgr"])'
  BY <1>1, <1>2, <1>3, <1>5, <1>6 DEF TakingOver, Linux!StateFile
<1>13. Before(job["mgr"])'
  BY <1>1, <1>5, <1>6 DEF Inductive, WayBack, Before
<1>14. \A p \in Linux!Procs : Restoring(job[p])'
  <2>1. \A p \in Linux!Procs : job'[p].pc \in {"idle", "undo", "apply"}
    BY <1>5, <1>6 DEF Linux!Procs, Linux!Idle
  <2> QED BY <2>1 DEF Restoring
<1> QED BY <1>7, <1>8, <1>9, <1>10, <1>11, <1>12, <1>13, <1>14 DEF WayBack

(* A write of the loopback: what it puts out of place is remembered.       *)
LEMMA ApplyStep ==
  ASSUME Inductive, ~spoilt', NEW a \in LinuxAdapters, Linux!Apply(a)
  PROVE  WayBack'
<1> DEFINE j == job["mgr"]
<1>0. "mgr" \in Linux!Procs /\ "heal" \in Linux!Procs /\ Linux!TypeOK /\ j \in Linux!Jobs /\ Linux!Whole \in LinuxAdapters
      /\ j.snap \in Linux!Snapshots
  BY JobType, WholeType DEF Linux!Procs, Inductive
<1>1. j.pc = "apply" /\ a \in j.todo /\ job["heal"] = Linux!Idle /\ j.call \in Takeovers /\ started
      /\ UNCHANGED <<backend, named, orig, file, backup, dorig, script, started, stale>>
  BY <1>0, OnlyOne DEF Linux!Apply, Inductive, Turns, InTurn, Linux!system, Linux!history
<1>2. /\ file = Linux!StateFile(TRUE, j.snap) /\ (~stale => script = j.snap)
      /\ Linux!Listed(j.snap) # {} /\ Linux!Listed(j.old) \subseteq Linux!Listed(j.snap)
      /\ j.ask = IF j.call = "Takeover" THEN Linux!Listed(j.snap) ELSE Linux!Listed(j.snap) \ Linux!Listed(j.old)
      /\ j.ask # {} /\ ~j.bad
      /\ backend = "resolved" => j.todo \cup j.done \subseteq Linux!Listed(j.snap)
      /\ backend = "nm" => j.call = "Takeover"
      /\ backend = "resolvconf" => j.todo = {Linux!Whole} /\ j.done = {} /\ Linux!Off = {}
  BY <1>1 DEF Inductive, WayBack, TakingOver
<1>3. file.present /\ file.active /\ file.snap = j.snap
  BY <1>2 DEF Linux!StateFile
<1>4. \A b \in LinuxAdapters : sys'[b] = sys[b] \/ b \in Linux!Span(a)
  BY <1>0 DEF Linux!Apply, Linux!Put, Linux!TypeOK
<1>5. \A b \in Linux!Span(a) : b \in Linux!Reach(j.snap)
  BY <1>1, <1>2, LinuxFacts, <1>0 DEF Linux!Span, Linux!Reach, Linux!TypeOK
<1>6. Linux!Off' \subseteq Linux!Reach(j.snap)
      /\ Linux!Reach(j.snap) = IF backend' = "resolved" \/ Linux!Listed(j.snap) = {} THEN Linux!Listed(j.snap) ELSE LinuxAdapters
  BY <1>1, <1>3, <1>4, <1>5 DEF Inductive, WayBack, Kept, Linux!Off, Linux!Good, Linux!Reach
<1>7. OneFile'
  <2>1. backend = "resolvconf" => UNCHANGED sys \/ sys' = [x \in LinuxAdapters |-> Linux!AllLoop]
    <3>1. backend = "resolvconf" => Linux!Span(a) = LinuxAdapters
      BY DEF Linux!Span
    <3> QED BY <1>0, <3>1 DEF Linux!Apply, Linux!Put, Linux!TypeOK
  <2> QED BY <1>1, <2>1 DEF Inductive, WayBack, OneFile, Linux!Good
<1>8. CASE Linux!Return("mgr") /\ takeover' = TRUE /\ mem' = j.snap
  <2>1. job'["mgr"] = Linux!Idle /\ job'["heal"] = Linux!Idle
    BY <1>0, <1>1, <1>8, ReturnJob DEF Inductive, WayBack
  <2>3. Remembered'
    <3>1. Faithful(mem)' /\ Faithful(file.snap)'
      BY <1>0, <1>1, <1>8 DEF Inductive, WayBack, Remembered, Faithful, Linux!Good
    <3>2. \A p \in Linux!Procs : Faithful(job[p].snap)' /\ Faithful(job[p].old)'
      BY <2>1, IdleFaithful DEF Linux!Idle, Linux!Procs
    <3> QED BY <1>1, <3>1, <3>2 DEF Remembered
  <2>4. Kept'
    BY <1>1, <1>2, <1>3, <1>6, <1>8 DEF Kept, Linux!Reach
  <2>5. ScriptIsCurrent'
    BY <1>1, <1>3, <2>1 DEF Inductive, WayBack, ScriptIsCurrent, Faithful, Linux!Good, Linux!Idle
  <2> QED BY <1>7, <2>1, <2>3, <2>4, <2>5, IdleJobs DEF WayBack
<1>9. ASSUME NEW new, job'["mgr"] = new, job'["heal"] = Linux!Idle, UNCHANGED <<takeover, mem>>,
             new.pc \in {"apply", "undo"}, new.call = j.call, new.snap = j.snap, new.old = j.old, new.ask = j.ask,
             new.todo \subseteq j.todo, new.done \subseteq j.done \cup {a}, new.bad = j.bad, new.was = j.was,
             backend = "resolvconf" => new.todo = j.todo /\ new.done = j.done /\ new.pc = "undo"
      PROVE  WayBack'
  <2>1. Alone'
    BY <1>9 DEF Alone, Linux!Idle
  <2>2. Remembered'
    <3>1. \A p \in Linux!Procs : job'[p].snap = job[p].snap /\ job'[p].old = job[p].old
      BY <1>1, <1>9 DEF Linux!Procs
    <3> QED BY <1>1, <1>9, <3>1 DEF Inductive, WayBack, Remembered, Faithful, Linux!Good
  <2>3. Kept'
    BY <1>0, <1>1, <1>2, <1>3, <1>6, <1>9 DEF Inductive, WayBack, Kept, Linux!Reach
  <2>4. ScriptIsCurrent'
    BY <1>1, <1>9 DEF Inductive, WayBack, ScriptIsCurrent, Faithful, Linux!Good
  <2>5. TakingOver(job["mgr"])'
    <3>1. backend = "resolved" => new.todo \cup new.done \subseteq Linux!Listed(new.snap)
      BY <1>1, <1>2, <1>9
    <3> QED BY <1>1, <1>2, <1>9, <3>1 DEF TakingOver, Linux!StateFile
  <2>6. Before(job["mgr"])'
    BY <1>1, <1>9 DEF Inductive, WayBack, Before
  <2>7. \A p \in Linux!Procs : Restoring(job[p])'
    <3>1. \A p \in Linux!Procs : job'[p].pc \in {"idle", "undo", "apply"}
      BY <1>9 DEF Linux!Procs, Linux!Idle
    <3> QED BY <3>1 DEF Restoring
  <2> QED BY <1>7, <2>1, <2>2, <2>3, <2>4, <2>5, <2>6, <2>7 DEF WayBack
<1>10. CASE /\ j.todo # {a} /\ UNCHANGED <<takeover, mem>>
            /\ job' = [job EXCEPT !["mgr"].todo = @ \ {a}, !["mgr"].done = @ \cup {a}]
  <2>1. backend # "resolvconf"
    BY <1>1, <1>2, <1>10
  <2> DEFINE new == [j EXCEPT !.todo = @ \ {a}, !.done = @ \cup {a}]
  <2>2. job'["mgr"] = new /\ job'["heal"] = Linux!Idle
    BY <1>0, <1>1, <1>10 DEF Linux!TypeOK
  <2>3. /\ new.pc = j.pc /\ new.call = j.call /\ new.snap = j.snap /\ new.old = j.old /\ new.ask = j.ask
        /\ new.todo = j.todo \ {a} /\ new.done = j.done \cup {a} /\ new.bad = j.bad /\ new.was = j.was
    BY <1>0 DEF Linux!Jobs
  <2> HIDE DEF new
  <2> QED BY <1>1, <1>9, <1>10, <2>1, <2>2, <2>3
<1>11. CASE /\ UNCHANGED sys /\ UNCHANGED <<takeover, mem>>
            /\ job' = [job EXCEPT !["mgr"].pc = "undo"]
  <2> DEFINE new == [j EXCEPT !.pc = "undo"]
  <2>1. job'["mgr"] = new /\ job'["heal"] = Linux!Idle
    BY <1>0, <1>1, <1>11 DEF Linux!TypeOK
  <2>2. /\ new.pc = "undo" /\ new.call = j.call /\ new.snap = j.snap /\ new.old = j.old /\ new.ask = j.ask
        /\ new.todo = j.todo /\ new.done = j.done /\ new.bad = j.bad /\ new.was = j.was
    BY <1>0 DEF Linux!Jobs
  <2> HIDE DEF new
  <2> QED BY <1>9, <1>11, <2>1, <2>2
<1>12. CASE /\ UNCHANGED <<takeover, mem>>
            /\ job' = [job EXCEPT !["mgr"].pc = "undo",
                           !["mgr"].done = IF backend = "resolved" THEN @ \cup {a} ELSE @]
  <2> DEFINE new == [j EXCEPT !.pc = "undo", !.done = IF backend = "resolved" THEN @ \cup {a} ELSE @]
  <2>1. job'["mgr"] = new /\ job'["heal"] = Linux!Idle
    BY <1>0, <1>1, <1>12 DEF Linux!TypeOK
  <2>2. /\ new.pc = "undo" /\ new.call = j.call /\ new.snap = j.snap /\ new.old = j.old /\ new.ask = j.ask
        /\ new.todo = j.todo /\ new.done = (IF backend = "resolved" THEN j.done \cup {a} ELSE j.done)
        /\ new.bad = j.bad /\ new.was = j.was
    BY <1>0 DEF Linux!Jobs
  <2> HIDE DEF new
  <2> QED BY <1>9, <1>12, <2>1, <2>2
<1> QED BY <1>8, <1>10, <1>11, <1>12 DEF Linux!Apply

LEMMA RollbackStep ==
  ASSUME Inductive, ~spoilt', Linux!RollbackApplied
  PROVE  WayBack'
<1> DEFINE j == job["mgr"]
           back == Linux!Only(j.snap, j.ask)
           U == Linux!Units(j.ask)
           new == [j EXCEPT !.pc = "restore", !.snap = back, !.todo = U]
<1>0. "mgr" \in Linux!Procs /\ "heal" \in Linux!Procs /\ Linux!TypeOK /\ j \in Linux!Jobs /\ Linux!Whole \in LinuxAdapters
      /\ j.snap \in Linux!Snapshots /\ j.old \in Linux!Snapshots
  BY JobType, WholeType DEF Linux!Procs, Inductive
<1>1. j.pc = "undo" /\ job["heal"] = Linux!Idle /\ j.call \in Takeovers /\ started
      /\ UNCHANGED <<backend, named, orig, file, backup, dorig, script, started, takeover, mem, stale>>
  BY <1>0, OnlyOne DEF Linux!RollbackApplied, Inductive, Turns, InTurn, Linux!system, Linux!history
<1>2. /\ file = Linux!StateFile(TRUE, j.snap) /\ (~stale => script = j.snap)
      /\ Linux!Listed(j.snap) # {} /\ Linux!Listed(j.old) \subseteq Linux!Listed(j.snap)
      /\ j.ask = IF j.call = "Takeover" THEN Linux!Listed(j.snap) ELSE Linux!Listed(j.snap) \ Linux!Listed(j.old)
      /\ j.ask # {} /\ ~j.bad
      /\ backend = "resolved" => j.todo \cup j.done \subseteq Linux!Listed(j.snap)
      /\ backend = "nm" => j.call = "Takeover"
      /\ backend = "resolvconf" => j.todo = {Linux!Whole} /\ j.done = {}
  BY <1>1 DEF Inductive, WayBack, TakingOver
<1>3. file.present /\ file.active /\ file.snap = j.snap
  BY <1>2 DEF Linux!StateFile
<1>4. \A a \in LinuxAdapters : sys'[a] = sys[a] \/ a \in j.done
  BY <1>0 DEF Linux!RollbackApplied, Linux!TypeOK
<1>5. backend = "resolvconf" => \A a \in LinuxAdapters : sys'[a] = sys[a]
  BY <1>2, <1>4
<1>6. back \in Linux!Snapshots /\ Linux!Listed(back) = j.ask
  <2>1. back \in Linux!Snapshots /\ Linux!Listed(back) = Linux!Listed(j.snap) \cap j.ask
    BY <1>0, OnlyType
  <2>2. j.ask \subseteq Linux!Listed(j.snap)
    BY <1>2
  <2> QED BY <2>1, <2>2
<1>7. job'["mgr"] = new /\ job'["heal"] = Linux!Idle
  BY <1>0, <1>1 DEF Linux!TypeOK, Linux!RollbackApplied
<1>9. Faithful(j.snap) /\ Faithful(j.old) /\ Faithful(back)
  <2>1. Faithful(j.snap) /\ Faithful(j.old)
    BY <1>0 DEF Inductive, WayBack, Remembered
  <2>2. \A a \in LinuxAdapters : back[a] \in {j.snap[a], None}
    BY DEF Linux!Only
  <2> QED BY <1>2, <1>6, <2>1, <2>2 DEF Faithful
<1>u. /\ backend = "resolved" => U = j.ask
      /\ backend = "nm" => U = LinuxAdapters
      /\ backend = "resolvconf" => U = {Linux!Whole}
  BY DEF Linux!Units
<1> HIDE DEF back, U
<1>8. /\ new.pc = "restore" /\ new.call = j.call /\ new.snap = back /\ new.old = j.old
      /\ new.todo = U /\ new.bad = j.bad /\ new.was = j.was
  BY <1>0 DEF Linux!Jobs
<1> HIDE DEF new
<1>10. Linux!Off' \subseteq Linux!Reach(j.snap)
  <2>1. CASE backend = "resolved"
    BY <1>1, <1>2, <1>3, <1>4, <2>1 DEF Inductive, WayBack, Kept, Linux!Reach, Linux!Off, Linux!Good
  <2>2. CASE backend # "resolved"
    BY <1>2, <2>2 DEF Linux!Reach, Linux!Off
  <2> QED BY <2>1, <2>2
<1>11. Alone'
  BY <1>7 DEF Alone, Linux!Idle
<1>12. OneFile'
  BY <1>1, <1>5 DEF Inductive, WayBack, OneFile, Linux!Good
<1>13. Remembered'
  <2>1. Faithful(mem)' /\ Faithful(file.snap)'
    BY <1>1 DEF Inductive, WayBack, Remembered, Faithful, Linux!Good
  <2>2. Faithful(job["mgr"].snap)' /\ Faithful(job["mgr"].old)'
    BY <1>1, <1>7, <1>8, <1>9 DEF Faithful, Linux!Good
  <2>3. Faithful(job["heal"].snap)' /\ Faithful(job["heal"].old)'
    BY <1>7, IdleFaithful DEF Linux!Idle
  <2> QED BY <2>1, <2>2, <2>3 DEF Remembered, Linux!Procs
<1>14. Kept'
  BY <1>0, <1>1, <1>2, <1>3, <1>7, <1>8, <1>10 DEF Inductive, WayBack, Kept, Linux!Reach
<1>15. ScriptIsCurrent'
  BY <1>1, <1>3, <1>7, <1>8 DEF Inductive, WayBack, ScriptIsCurrent, Faithful, Linux!Good
<1>16. TakingOver(job["mgr"])'
  BY <1>7, <1>8 DEF TakingOver
<1>17. Before(job["mgr"])'
  BY <1>1, <1>3, <1>7, <1>8 DEF Inductive, WayBack, Before
<1>18. \A p \in Linux!Procs : Restoring(job[p])'
  <2>1. CASE backend = "resolved"
    <3>1. InHand(job["mgr"])' = j.ask
      BY <1>1, <1>7, <1>8, <1>u, <2>1 DEF InHand, Linux!Span
    <3>2. Left(job["mgr"])' = IF j.call = "Takeover" THEN {} ELSE Linux!Listed(j.old)
      BY <1>1, <1>7, <1>8, <2>1 DEF Left, Linux!Remaining, Linux!Reach, Takeovers
    <3>4. Linux!Off' \subseteq Linux!Listed(j.snap)
      BY <1>10, <2>1 DEF Linux!Reach
    <3>5. (Linux!Off \subseteq InHand(job["mgr"]) \cup Left(job["mgr"]))'
      BY <1>2, <3>1, <3>2, <3>4
    <3> QED BY <1>1, <1>6, <1>7, <1>8, <1>u, <2>1, <3>5 DEF Restoring, Linux!Idle, Linux!Procs
  <2>2. CASE backend = "nm"
    <3>1. Linux!Listed(back) = LinuxAdapters
      BY <1>2, <1>6, <1>9, <2>2 DEF Faithful
    <3>2. InHand(job["mgr"])' = LinuxAdapters
      BY <1>1, <1>7, <1>8, <1>u, <2>2 DEF InHand, Linux!Span
    <3>3. Linux!Off' \subseteq LinuxAdapters
      BY DEF Linux!Off
    <3> QED BY <1>1, <1>7, <1>8, <2>2, <3>1, <3>2, <3>3 DEF Restoring, Linux!Idle, Linux!Procs
  <2>3. CASE backend = "resolvconf"
    <3>1. InHand(job["mgr"])' = LinuxAdapters
      BY <1>1, <1>7, <1>8, <1>u, <2>3 DEF InHand, Linux!Span
    <3>2. Linux!Off' \subseteq LinuxAdapters
      BY DEF Linux!Off
    <3> QED BY <1>1, <1>7, <1>8, <1>u, <2>3, <3>1, <3>2 DEF Restoring, Linux!Idle, Linux!Procs
  <2> QED BY <1>0, <2>1, <2>2, <2>3, LinuxFacts DEF Linux!TypeOK
<1> QED BY <1>11, <1>12, <1>13, <1>14, <1>15, <1>16, <1>17, <1>18 DEF WayBack

(***************************************************************************)
(* Restoring.                                                              *)
(***************************************************************************)
(* What a restore writes may be written.                                   *)
LEMMA RestoreIsGood ==
  ASSUME Inductive, NEW p \in Linux!Procs, NEW a \in job[p].todo, job[p].pc = "restore",
         NEW b \in Linux!Span(a)
  PROVE  Linux!Good(b, Linux!RestoreValue(job[p].snap, b))
<1>0. Linux!TypeOK /\ a \in LinuxAdapters /\ job[p].snap \in Linux!Snapshots /\ Faithful(job[p].snap) /\ Restoring(job[p])
  BY JobType DEF Inductive, WayBack, Remembered
<1>1. CASE backend = "resolved"
  <2>1. b = a /\ a \in Linux!Listed(job[p].snap)
    BY <1>0, <1>1 DEF Linux!Span, Restoring
  <2>2. Linux!Good(a, job[p].snap[a])
    BY <1>0, <2>1 DEF Faithful, Linux!Listed
  <2>3. Linux!RestoreValue(job[p].snap, a) = job[p].snap[a]
    BY <1>0, <1>1, <2>1, <2>2, GoodIsClean DEF Linux!RestoreValue, Linux!ResolvedRestore, Linux!Listed
  <2> QED BY <2>1, <2>2, <2>3
<1>2. CASE backend = "nm"
  <2>1. b = a /\ a \in Linux!Listed(job[p].snap) /\ named
    BY <1>0, <1>2 DEF Linux!Span, Restoring, Faithful
  <2>2. Linux!Good(a, job[p].snap[a])
    BY <1>0, <2>1 DEF Faithful, Linux!Listed
  <2>3. Linux!RestoreValue(job[p].snap, a) = job[p].snap[a]
    BY <1>0, <1>2, <2>1, <2>2, GoodIsClean DEF Linux!RestoreValue, Linux!NmRestore, Linux!Listed
  <2> QED BY <2>1, <2>2, <2>3
<1>3. CASE backend = "resolvconf"
  <2>1. b \in LinuxAdapters
    BY <1>3 DEF Linux!Span
  <2> QED BY <1>3, <2>1 DEF Inductive, WayBack, OneFile, Linux!RestoreValue, Linux!ResolvConfRestore, Linux!Good
<1> QED BY <1>0, <1>1, <1>2, <1>3, LinuxFacts DEF Linux!TypeOK

LEMMA RestoreAdapterStep ==
  ASSUME Inductive, ~spoilt', NEW p \in Linux!Procs, NEW a \in LinuxAdapters, Linux!RestoreAdapter(p, a)
  PROVE  WayBack'
<1> DEFINE j == job[p]
<1>0. Linux!Procs = {"mgr", "heal"} /\ Linux!TypeOK /\ j \in Linux!Jobs /\ Linux!Whole \in LinuxAdapters
      /\ j.snap \in Linux!Snapshots /\ j.old \in Linux!Snapshots /\ j.bad \in BOOLEAN
  BY JobType, WholeType DEF Linux!Procs, Inductive
<1>1. j.pc = "restore" /\ a \in j.todo /\ started /\ (\A q \in Linux!Procs \ {p} : job[q] = Linux!Idle)
      /\ UNCHANGED <<backend, named, orig, file, backup, script, started, takeover, mem, stale>>
  BY OnlyOne DEF Linux!RestoreAdapter, Linux!system, Linux!history
<1>2. PICK bad \in BOOLEAN, W \in SUBSET {a} :
      /\ Linux!Rewrite(W, j.snap) /\ (~bad => W = {a} /\ ~j.bad)
      /\ IF j.todo # {a} THEN job' = [job EXCEPT ![p].todo = @ \ {a}, ![p].bad = bad]
         ELSE LET pc == Linux!AfterRestore(j, bad) IN
              IF pc = "idle" THEN Linux!Return(p)
              ELSE job' = [job EXCEPT ![p].todo = {}, ![p].bad = bad, ![p].pc = pc]
  <2>1. CASE Linux!Rewrite({a}, j.snap) /\ Linux!Ok
    BY <1>0, <2>1 DEF Linux!RestoreAdapter
  <2> QED BY <1>0 DEF Linux!RestoreAdapter
<1>3. \A b \in Linux!Span(a) : Linux!Good(b, Linux!RestoreValue(j.snap, b))
  BY <1>1, RestoreIsGood
<1>4. /\ sys' = [x \in LinuxAdapters |-> IF \E u \in W : x \in Linux!Span(u) THEN Linux!RestoreValue(j.snap, x) ELSE sys[x]]
      /\ dorig' \in {dorig, None}
  BY <1>2 DEF Linux!Rewrite
<1>5. Linux!Off' \subseteq Linux!Off /\ (~bad => Linux!Off' \subseteq Linux!Off \ Linux!Span(a))
  <2>1. \A x \in LinuxAdapters : sys'[x] = sys[x] \/ Linux!Good(x, sys'[x])
    BY <1>2, <1>3, <1>4
  <2>2. ~bad => \A x \in Linux!Span(a) : x \in LinuxAdapters => Linux!Good(x, sys'[x])
    BY <1>2, <1>3, <1>4
  <2>3. \A x, c : Linux!Good(x, c)' <=> (c' = orig[x] \/ (backend = "resolvconf" /\ c' = Linux!PublicServers))
    BY <1>1 DEF Linux!Good, Linux!PublicServers
  <2> QED BY <1>1, <2>1, <2>2 DEF Linux!Off, Linux!Good
<1>6. OneFile'
  <2>1. backend = "resolvconf" => (\A x \in LinuxAdapters : sys'[x] = sys[x]) \/ (\A x \in LinuxAdapters : sys'[x] = Linux!ResolvConfRestore)
    <3>1. backend = "resolvconf" => W = {} \/ \A x \in LinuxAdapters : \E u \in W : x \in Linux!Span(u)
      BY <1>2 DEF Linux!Span
    <3> QED BY <1>4, <3>1 DEF Linux!RestoreValue
  <2> QED BY <1>1, <1>4, <2>1 DEF Inductive, WayBack, OneFile, Linux!Good
<1>7. /\ ~j.bad => Linux!Off \subseteq InHand(j) \cup Left(j)
      /\ backend = "resolved" => j.todo \subseteq Linux!Listed(j.snap)
      /\ backend = "nm" => Linux!Listed(j.snap) = LinuxAdapters
      /\ backend = "resolvconf" => j.todo = {Linux!Whole}
  BY <1>1 DEF Inductive, WayBack, Restoring
<1>8. j.call \in {"Takeover", "TakeoverSingle", "Restore", "RestoreSingle", "Heal", "Emergency"}
      /\ (p = "mgr" => j.call \notin {"Heal", "Emergency"}) /\ (p = "heal" => j.call \in {"Heal", "Emergency"})
  BY <1>0, <1>1 DEF Inductive, Turns, InTurn, Takeovers
<1>k. /\ Linux!Off' # {} => file'.present /\ file'.active
      /\ Linux!Off' \subseteq Linux!Reach(file.snap)' /\ (~stale' => Linux!Off' \subseteq Linux!Reach(script)')
  BY <1>1, <1>5 DEF Inductive, WayBack, Kept, Linux!Reach
<1>9. ASSUME NEW new, job'[p] = new, \A q \in Linux!Procs \ {p} : job'[q] = job[q],
             new.pc \in {"restore", "clear", "resave", "residual"}, new.call = j.call, new.snap = j.snap, new.old = j.old,
             new.was = j.was, Restoring(job[p])'
      PROVE  WayBack'
  <2>1. Alone'
    BY <1>0, <1>1, <1>9 DEF Alone, Linux!Idle
  <2>2. Remembered'
    <3>1. \A q \in Linux!Procs : job'[q].snap = job[q].snap /\ job'[q].old = job[q].old
      BY <1>9
    <3> QED BY <1>1, <3>1 DEF Inductive, WayBack, Remembered, Faithful, Linux!Good
  <2>3. Kept'
    <3>1. job'["mgr"].call = job["mgr"].call
      BY <1>0, <1>9
    <3> QED BY <1>k, <1>1, <3>1 DEF Inductive, WayBack, Kept
  <2>4. ScriptIsCurrent'
    <3>1. \/ job'["mgr"].pc # "save" /\ job["mgr"].pc # "save"
          \/ job'["mgr"] = job["mgr"]
      BY <1>0, <1>1, <1>9
    <3> QED BY <1>1, <3>1 DEF Inductive, WayBack, ScriptIsCurrent, Faithful, Linux!Good
  <2>5. TakingOver(job["mgr"])' /\ Before(job["mgr"])'
    <3>1. CASE p = "mgr"
      <4>1. TakingOver(job["mgr"])'
        BY <1>9, <3>1 DEF TakingOver
      <4>2. Before(job["mgr"])'
        BY <1>0, <1>1, <1>9, <3>1 DEF Inductive, WayBack, Before
      <4> QED BY <4>1, <4>2
    <3>2. CASE p = "heal"
      <4>1. job'["mgr"] = Linux!Idle
        BY <1>0, <1>1, <1>9, <3>2
      <4>2. job'["mgr"].pc = "idle" /\ job'["mgr"].call = "none"
        BY <4>1 DEF Linux!Idle
      <4> QED BY <4>2 DEF TakingOver, Before, Takeovers
    <3> QED BY <1>0, <3>1, <3>2
  <2>6. \A q \in Linux!Procs : Restoring(job[q])'
    <3>1. \A q \in Linux!Procs \ {p} : job'[q].pc = "idle"
      BY <1>1, <1>9 DEF Linux!Idle
    <3>2. \A q \in Linux!Procs \ {p} : Restoring(job[q])'
      BY <3>1 DEF Restoring
    <3> QED BY <1>9, <3>2
  <2> QED BY <1>6, <2>1, <2>2, <2>3, <2>4, <2>5, <2>6 DEF WayBack
<1>10. CASE j.todo # {a}
  <2> DEFINE new == [j EXCEPT !.todo = @ \ {a}, !.bad = bad]
  <2>1. job'[p] = new /\ \A q \in Linux!Procs \ {p} : job'[q] = job[q]
    BY <1>0, <1>2, <1>10 DEF Linux!TypeOK
  <2>2. /\ new.pc = "restore" /\ new.call = j.call /\ new.snap = j.snap /\ new.old = j.old
        /\ new.todo = j.todo \ {a} /\ new.bad = bad /\ new.was = j.was
    BY <1>0, <1>1 DEF Linux!Jobs
  <2> HIDE DEF new
  <2>3. backend # "resolvconf"
    BY <1>1, <1>7, <1>10
  <2>4. InHand(j) = j.todo /\ InHand(job[p])' = j.todo \ {a} /\ Linux!Span(a) = {a}
    BY <1>1, <2>1, <2>2, <2>3 DEF InHand, Linux!Span
  <2>5. Left(job[p])' = Left(j)
    BY <1>1, <2>1, <2>2 DEF Left, Linux!Remaining, Linux!Reach
  <2>6. ~bad => (Linux!Off \subseteq InHand(job[p]) \cup Left(job[p]))'
    BY <1>2, <1>5, <1>7, <2>4, <2>5
  <2>7. Restoring(job[p])'
    BY <1>1, <1>7, <2>1, <2>2, <2>3, <2>6 DEF Restoring
  <2> QED BY <1>9, <2>1, <2>2, <2>7
<1>11. CASE j.todo = {a}
  <2> DEFINE pc == Linux!AfterRestore(j, bad)
  <2>1. ~bad => Linux!Off' \subseteq Left(j)
    <3>1. InHand(j) = Linux!Span(a)
      BY <1>11 DEF InHand
    <3> QED BY <1>2, <1>5, <1>7, <3>1
  <2>2. \/ pc = "clear" /\ (~bad => Left(j) = {}) /\ (j.call = "TakeoverSingle" => j.old = Linux!Empty)
        \/ /\ pc = "resave" /\ j.call \in {"TakeoverSingle", "RestoreSingle"}
           /\ Linux!Remaining(j) # Linux!Empty /\ Left(j) = Linux!Reach(Linux!Remaining(j))
        \/ pc = "residual" /\ j.call = "Emergency"
        \/ pc = "idle" /\ j.call # "TakeoverSingle"
    <3>1. CASE j.call \in {"Takeover", "Restore", "Heal", "Emergency"}
      BY <3>1 DEF Linux!AfterRestore, Left
    <3>2. CASE j.call = "TakeoverSingle"
      BY <1>0, <3>2, EmptyType DEF Linux!AfterRestore, Left, Linux!Remaining, Linux!Reach
    <3>3. CASE j.call = "RestoreSingle"
      <4>1. mem \in Linux!Snapshots
        BY <1>0 DEF Linux!TypeOK
      <4>2. Linux!Listed(Linux!Remaining(j)) = Linux!Listed(mem) \ Linux!Listed(j.snap) /\ Linux!Remaining(j) \in Linux!Snapshots
        BY <3>3, <4>1, OnlyType DEF Linux!Remaining
      <4> QED BY <3>3, <4>2, EmptyType DEF Linux!AfterRestore, Left, Linux!Reach
    <3> QED BY <1>8, <3>1, <3>2, <3>3
  <2>c. (pc = "idle" => Linux!Return(p))
        /\ (pc # "idle" => job' = [job EXCEPT ![p].todo = {}, ![p].bad = bad, ![p].pc = pc])
    BY <1>2, <1>11
  <2> HIDE DEF pc
  <2>i. CASE pc = "idle"
    <3>1. job'["mgr"] = Linux!Idle /\ job'["heal"] = Linux!Idle
      BY <1>1, <2>c, <2>i, ReturnJob DEF Inductive, WayBack
    <3>2. Remembered'
      <4>1. Faithful(mem)' /\ Faithful(file.snap)'
        BY <1>1 DEF Inductive, WayBack, Remembered, Faithful, Linux!Good
      <4> QED BY <1>0, <3>1, <4>1, IdleFaithful DEF Remembered, Linux!Idle
    <3>3. job["mgr"].call # "TakeoverSingle"
      BY <1>0, <1>1, <2>2, <2>i DEF Linux!Idle
    <3>4. Kept'
      BY <1>1, <1>k, <3>3 DEF Inductive, WayBack, Kept
    <3>5. ScriptIsCurrent'
      <4>1. job["mgr"].pc # "save" /\ job'["mgr"].pc # "save"
        BY <1>0, <1>1, <3>1 DEF Linux!Idle
      <4> QED BY <1>1, <4>1 DEF Inductive, WayBack, ScriptIsCurrent, Faithful, Linux!Good
    <3> QED BY <1>6, <3>1, <3>2, <3>4, <3>5, IdleJobs DEF WayBack
  <2>n. CASE pc # "idle"
    <3> DEFINE new == [j EXCEPT !.todo = {}, !.bad = bad, !.pc = pc]
    <3>1. job'[p] = new /\ \A q \in Linux!Procs \ {p} : job'[q] = job[q]
      BY <1>0, <2>c, <2>n DEF Linux!TypeOK
    <3>2. /\ new.pc = pc /\ new.call = j.call /\ new.snap = j.snap /\ new.old = j.old
          /\ new.todo = {} /\ new.bad = bad /\ new.was = j.was
      BY <1>0, <1>1 DEF Linux!Jobs
    <3> HIDE DEF new
    <3>3. Linux!Remaining(job[p])' = Linux!Remaining(j) /\ Linux!Reach(Linux!Remaining(job[p]))' = Linux!Reach(Linux!Remaining(j))
      BY <1>1, <3>1, <3>2 DEF Linux!Remaining, Linux!Reach
    <3>4. Restoring(job[p])'
      BY <2>1, <2>2, <2>n, <3>1, <3>2, <3>3 DEF Restoring, Linux!Empty
    <3> QED BY <1>9, <2>2, <2>n, <3>1, <3>2, <3>4
  <2> QED BY <2>i, <2>n
<1> QED BY <1>10, <1>11

LEMMA ResaveStep ==
  ASSUME Inductive, ~spoilt', Linux!Resave
  PROVE  WayBack'
<1> DEFINE j == job["mgr"]
           r == Linux!Remaining(j)
<1>0. "mgr" \in Linux!Procs /\ "heal" \in Linux!Procs /\ Linux!TypeOK /\ j.snap \in Linux!Snapshots /\ j.old \in Linux!Snapshots /\ mem \in Linux!Snapshots
  BY JobType DEF Linux!Procs, Inductive, Linux!TypeOK
<1>1. j.pc = "resave" /\ started /\ j.call \in {"TakeoverSingle", "RestoreSingle"} /\ ~j.bad /\ ~Linux!Lost
      /\ UNCHANGED <<backend, named, orig, sys, backup, dorig, script, started, stale>>
  BY <1>0, OnlyOne DEF Linux!Resave, Inductive, Turns, InTurn, Linux!system
<1>2. Linux!Off \subseteq Linux!Reach(r) /\ r # Linux!Empty /\ r \in Linux!Snapshots /\ backend # "nm"
  BY <1>0, <1>1, OnlyType DEF Inductive, WayBack, Restoring, Linux!Remaining, Before
<1>3. Faithful(r)
  BY <1>0, <1>1, <1>2 DEF Inductive, WayBack, Remembered, Faithful, Linux!Remaining, Linux!Only
<1>4. Linux!Off' = Linux!Off
  BY <1>1, OffSame
<1>5. job'["mgr"] = Linux!Idle /\ job'["heal"] = Linux!Idle
  BY <1>0, <1>1, ReturnJob DEF Inductive, WayBack, Linux!Resave
<1>6. (j.call = "RestoreSingle" \/ j.was) = TRUE /\ takeover' = TRUE /\ mem' = r
  <2>1. CASE j.call = "RestoreSingle"
    <3>1. takeover
      BY <1>1, <2>1 DEF Inductive, WayBack, Before, Kept
    <3> QED BY <1>0, <2>1, <3>1 DEF Linux!Resave, Linux!TypeOK
  <2>2. CASE j.call = "TakeoverSingle"
    <3>1. j.was
      BY <1>1, <1>2, <2>2 DEF Inductive, WayBack, Before, Linux!Remaining
    <3>2. j.was = TRUE
      BY <1>0, <3>1, JobType
    <3> QED BY <2>2, <3>2 DEF Linux!Resave
  <2> QED BY <1>1, <2>1, <2>2
<1>7. file' = Linux!StateFile(TRUE, r) \/ file' = file \/ file' = Linux!NoFile
  BY <1>6 DEF Linux!Resave, Linux!Save
<1> HIDE DEF r
<1>8. \/ file' = file
      \/ file'.present = TRUE /\ file'.active = TRUE /\ file'.snap = r
      \/ file' = Linux!NoFile /\ Linux!Off = {}
  <2>1. CASE file' = Linux!NoFile /\ ~file.present
    BY <2>1 DEF Inductive, WayBack, Kept
  <2>2. CASE file' = Linux!NoFile /\ file.present
    BY <1>1, <2>2 DEF Linux!Lost, Linux!NoFile
  <2>3. CASE file' = Linux!StateFile(TRUE, r)
    BY <2>3 DEF Linux!StateFile
  <2> QED BY <1>7, <2>1, <2>2, <2>3
<1>10. OneFile'
  BY <1>1 DEF Inductive, WayBack, OneFile, Linux!Good
<1>11. Remembered'
  <2>1. Faithful(mem)' /\ Faithful(file.snap)'
    BY <1>1, <1>3, <1>6, <1>8, IdleFaithful DEF Inductive, WayBack, Remembered, Faithful, Linux!Good, Linux!NoFile
  <2>2. \A p \in Linux!Procs : Faithful(job[p].snap)' /\ Faithful(job[p].old)'
    BY <1>5, IdleFaithful DEF Linux!Idle, Linux!Procs
  <2> QED BY <2>1, <2>2 DEF Remembered
<1>12. Kept'
  BY <1>1, <1>2, <1>4, <1>6, <1>8 DEF Inductive, WayBack, Kept, Linux!Reach
<1>13. ScriptIsCurrent'
  <2>1. file.present \/ mem # Linux!Empty
    BY <1>1 DEF Inductive, WayBack, Before
  <2>2. ~stale => Faithful(script)
    BY <1>1, <2>1 DEF Inductive, WayBack, ScriptIsCurrent
  <2> QED BY <1>1, <2>2 DEF ScriptIsCurrent, Faithful, Linux!Good
<1> QED BY <1>5, <1>10, <1>11, <1>12, <1>13, IdleJobs DEF WayBack

LEMMA ClearStep ==
  ASSUME Inductive, ~spoilt', NEW p \in Linux!Procs, Linux!ClearFile(p)
  PROVE  WayBack'
<1> DEFINE j == job[p]
<1>0. Linux!Procs = {"mgr", "heal"} /\ Linux!TypeOK /\ j \in Linux!Jobs
  BY JobType DEF Linux!Procs, Inductive
<1>1. j.pc = "clear" /\ started /\ ~j.bad /\ (\A q \in Linux!Procs \ {p} : job[q] = Linux!Idle)
      /\ UNCHANGED <<backend, named, orig, sys, backup, dorig, script, started, stale>>
  BY <1>0, OnlyOne DEF Linux!ClearFile, Linux!system
<1>2. Linux!Off = {} /\ Linux!Off' = {} /\ (j.call = "TakeoverSingle" => j.old = Linux!Empty)
  BY <1>1, OffSame DEF Inductive, WayBack, Restoring
<1>3. file' \in {file, Linux!NoFile}
  BY DEF Linux!ClearFile, Linux!Clear
<1>4. mem' \in {mem, Linux!Empty} /\ (mem' # Linux!Empty => takeover' = takeover /\ j.call # "TakeoverSingle")
  BY <1>2 DEF Linux!ClearFile
<1>5. OneFile'
  BY <1>1 DEF Inductive, WayBack, OneFile, Linux!Good
<1>6. Faithful(mem)' /\ Faithful(file.snap)'
  BY <1>1, <1>3, <1>4, IdleFaithful DEF Inductive, WayBack, Remembered, Faithful, Linux!Good, Linux!NoFile
<1>7. mem' # Linux!Empty /\ job'["mgr"].call # "TakeoverSingle" => takeover'
  <2>1. mem' # Linux!Empty => job["mgr"].call # "TakeoverSingle"
    <3>1. CASE p = "mgr" BY <1>4, <3>1
    <3>2. CASE p = "heal"
      <4>1. job["mgr"] = Linux!Idle
        BY <1>0, <1>1, <3>2
      <4> QED BY <4>1 DEF Linux!Idle
    <3> QED BY <1>0, <3>1, <3>2
  <2> QED BY <1>4, <2>1 DEF Inductive, WayBack, Kept
<1>8. Kept'
  BY <1>2, <1>7 DEF Kept
<1>9. ~stale' /\ (file'.present \/ mem' # Linux!Empty) => Faithful(script)'
  <2>1. job["mgr"].pc # "save"
    BY <1>0, <1>1 DEF Linux!Idle
  <2> QED BY <1>1, <1>3, <1>4, <2>1 DEF Inductive, WayBack, ScriptIsCurrent, Faithful, Linux!Good, Linux!NoFile
<1>10. CASE Linux!Return(p)
  <2>1. job'["mgr"] = Linux!Idle /\ job'["heal"] = Linux!Idle
    BY <1>0, <1>1, <1>10, ReturnJob DEF Inductive, WayBack
  <2>3. Remembered'
    BY <1>0, <1>6, <2>1, IdleFaithful DEF Linux!Idle, Remembered
  <2>4. ScriptIsCurrent'
    BY <1>9, <2>1 DEF ScriptIsCurrent, Linux!Idle
  <2> QED BY <1>5, <1>8, <2>1, <2>3, <2>4, IdleJobs DEF WayBack
<1>11. CASE j.call \in {"Restore", "Emergency"} /\ job' = [job EXCEPT ![p].pc = "residual"]
  <2> DEFINE new == [j EXCEPT !.pc = "residual"]
  <2>1. job'[p] = new /\ \A q \in Linux!Procs \ {p} : job'[q] = job[q]
    BY <1>0, <1>11 DEF Linux!TypeOK
  <2>2. new.pc = "residual" /\ new.call = j.call /\ new.snap = j.snap /\ new.old = j.old /\ new.bad = j.bad
    BY <1>0 DEF Linux!Jobs
  <2> HIDE DEF new
  <2>3. \A q \in Linux!Procs \ {p} : job'[q] = Linux!Idle
    BY <1>1, <2>1
  <2>4. Alone'
    BY <1>0, <2>3 DEF Alone, Linux!Idle
  <2>5. Remembered'
    <3>1. \A q \in Linux!Procs : job'[q].snap = job[q].snap /\ job'[q].old = job[q].old
      BY <2>1, <2>2
    <3>2. \A q \in Linux!Procs : Faithful(job[q].snap)' /\ Faithful(job[q].old)'
      BY <1>1, <3>1 DEF Inductive, WayBack, Remembered, Faithful, Linux!Good
    <3> QED BY <1>6, <3>2 DEF Remembered
  <2>6. job'["mgr"].pc \in {"idle", "residual"} /\ job'["mgr"].call \in {"none", "Restore", "Emergency"}
    BY <1>0, <1>11, <2>1, <2>2, <2>3 DEF Linux!Idle
  <2>7. ScriptIsCurrent'
    BY <1>9, <2>6 DEF ScriptIsCurrent
  <2>8. TakingOver(job["mgr"])' /\ Before(job["mgr"])'
    BY <2>6 DEF TakingOver, Before, Takeovers
  <2>9. \A q \in Linux!Procs : Restoring(job[q])'
    <3>1. \A q \in Linux!Procs : job'[q].pc \in {"idle", "residual"}
      BY <1>0, <2>1, <2>2, <2>3 DEF Linux!Idle
    <3> QED BY <1>2, <3>1 DEF Restoring
  <2> QED BY <1>5, <1>8, <2>4, <2>5, <2>7, <2>8, <2>9 DEF WayBack
<1> QED BY <1>10, <1>11 DEF Linux!ClearFile

(* The scan of an emergency restore whose restore has failed: what it      *)
(* resets was out of place before, or the file knows every interface.      *)
LEMMA ResidualReach ==
  ASSUME Inductive, NEW W, NEW l, Linux!Rewrite(W, l),
         NEW S, S = {a \in LinuxAdapters : Linux!HasResidualLoopback(sys[a])},
         W \subseteq IF S = {} THEN {} ELSE Linux!Units(S),
         UNCHANGED <<backend, named, orig, file, backup, script, stale>>
  PROVE  /\ OneFile'
         /\ Linux!Off' # {} => file'.present /\ file'.active
         /\ Linux!Off' \subseteq Linux!Reach(file.snap)' /\ (~stale' => Linux!Off' \subseteq Linux!Reach(script)')
<1>0. Linux!TypeOK
  BY DEF Inductive
<1>1. S \subseteq Linux!Off
  BY <1>0, GoodIsClean DEF Linux!Off
<1>2. /\ sys' = [x \in LinuxAdapters |-> IF \E u \in W : x \in Linux!Span(u) THEN Linux!RestoreValue(l, x) ELSE sys[x]]
      /\ dorig' \in {dorig, None}
  BY DEF Linux!Rewrite
<1>3. OneFile'
  <2>1. backend = "resolvconf" => (\A x \in LinuxAdapters : sys'[x] = sys[x]) \/ (\A x \in LinuxAdapters : sys'[x] = Linux!ResolvConfRestore)
    <3>1. backend = "resolvconf" => W = {} \/ \A x \in LinuxAdapters : \E u \in W : x \in Linux!Span(u)
      BY DEF Linux!Span
    <3>2. \A x \in LinuxAdapters : backend = "resolvconf" => Linux!RestoreValue(l, x) = Linux!ResolvConfRestore
      BY DEF Linux!RestoreValue
    <3> QED BY <1>2, <3>1, <3>2
  <2> QED BY <1>2, <2>1 DEF Inductive, WayBack, OneFile, Linux!Good
<1>4. CASE S = {}
  <2>1. Linux!Off' = Linux!Off
    BY <1>0, <1>2, <1>4 DEF Linux!Off, Linux!Good
  <2> QED BY <1>3, <2>1 DEF Inductive, WayBack, Kept, Linux!Reach
<1>5. CASE S # {}
  <2>0. Linux!Off # {} /\ file.present /\ file.active
    BY <1>1, <1>5 DEF Inductive, WayBack, Kept
  <2>1. CASE backend = "resolved"
    <3>1. \A x \in LinuxAdapters : sys'[x] = sys[x] \/ x \in S
      BY <1>2, <1>5, <2>1 DEF Linux!Span, Linux!Units
    <3>2. Linux!Off' \subseteq Linux!Off
      BY <1>1, <3>1 DEF Linux!Off, Linux!Good
    <3> QED BY <1>3, <2>0, <3>2 DEF Inductive, WayBack, Kept, Linux!Reach
  <2>2. CASE backend # "resolved"
    <3>1. Linux!Reach(file.snap)' = LinuxAdapters /\ (~stale => Linux!Reach(script)' = LinuxAdapters)
      BY <2>0, <2>2 DEF Inductive, WayBack, Kept, Linux!Reach
    <3>2. Linux!Off' \subseteq LinuxAdapters
      BY DEF Linux!Off
    <3> QED BY <1>3, <2>0, <3>1, <3>2
  <2> QED BY <2>1, <2>2
<1> QED BY <1>4, <1>5

LEMMA ResidualStep ==
  ASSUME Inductive, ~spoilt', NEW p \in Linux!Procs, Linux!ResetResidualLoopbackDNS(p)
  PROVE  WayBack'
<1> DEFINE S == {a \in LinuxAdapters : Linux!HasResidualLoopback(sys[a])}
           l == Linux!Only([a \in LinuxAdapters |-> Linux!CleanAdapterState(sys[a])], S)
<1>0. Linux!Procs = {"mgr", "heal"} /\ Linux!TypeOK
  BY DEF Linux!Procs, Inductive
<1>1. job[p].pc = "residual" /\ started /\ (\A q \in Linux!Procs \ {p} : job[q] = Linux!Idle)
      /\ UNCHANGED <<backend, named, orig, file, backup, script, started, takeover, mem, stale>>
  BY <1>0, OnlyOne DEF Linux!ResetResidualLoopbackDNS, Linux!system, Linux!history
<1>2. PICK W : Linux!Rewrite(W, l) /\ W \subseteq IF S = {} THEN {} ELSE Linux!Units(S)
  BY DEF Linux!ResetResidualLoopbackDNS
<1>3. /\ OneFile'
      /\ Linux!Off' # {} => file'.present /\ file'.active
      /\ Linux!Off' \subseteq Linux!Reach(file.snap)' /\ (~stale' => Linux!Off' \subseteq Linux!Reach(script)')
  <2> HIDE DEF l
  <2> QED BY <1>1, <1>2, ResidualReach
<1>6. job'["mgr"] = Linux!Idle /\ job'["heal"] = Linux!Idle
  BY <1>1, ReturnJob DEF Inductive, WayBack, Linux!ResetResidualLoopbackDNS
<1>9. Remembered'
  <2>1. Faithful(mem)' /\ Faithful(file.snap)'
    BY <1>1 DEF Inductive, WayBack, Remembered, Faithful, Linux!Good
  <2> QED BY <1>0, <1>6, <2>1, IdleFaithful DEF Remembered, Linux!Idle
<1>10. Kept'
  <2>1. mem # Linux!Empty => takeover
    <3>1. job["mgr"].call # "TakeoverSingle"
      <4>1. CASE p = "mgr"
        BY <1>0, <1>1, <4>1 DEF Inductive, Turns, InTurn
      <4>2. CASE p = "heal"
        BY <1>0, <1>1, <4>2 DEF Linux!Idle
      <4> QED BY <1>0, <4>1, <4>2
    <3> QED BY <3>1 DEF Inductive, WayBack, Kept
  <2> QED BY <1>1, <1>3, <2>1 DEF Kept
<1>11. ScriptIsCurrent'
  <2>1. job["mgr"].pc # "save"
    BY <1>0, <1>1 DEF Linux!Idle
  <2> QED BY <1>1, <1>6, <2>1 DEF Inductive, WayBack, ScriptIsCurrent, Faithful, Linux!Good, Linux!Idle
<1> QED BY <1>3, <1>6, <1>9, <1>10, <1>11, IdleJobs DEF WayBack

(***************************************************************************)
(* The environment.                                                        *)
(***************************************************************************)
LEMMA CrashStep ==
  ASSUME Inductive, ~spoilt', Linux!Crash
  PROVE  WayBack'
<1>0. UNCHANGED <<backend, named, orig, sys, backup, dorig, script, stale>> /\ mem' = Linux!Empty
      /\ job'["mgr"] = Linux!Idle /\ job'["heal"] = Linux!Idle /\ ~Linux!Lost
  BY DEF Linux!Crash, Linux!Procs, Linux!system
<1>1. Linux!Off' = Linux!Off
  BY <1>0, OffSame
<1>2. file' = file \/ (file' = Linux!NoFile /\ Linux!Off = {})
  BY <1>0 DEF Linux!Crash, Linux!Lost, Linux!NoFile, Inductive, WayBack, Kept
<1>3. OneFile'
  BY <1>0 DEF Inductive, WayBack, OneFile, Linux!Good
<1>4. Remembered'
  <2>1. Faithful(file.snap)'
    BY <1>0, <1>2, IdleFaithful DEF Inductive, WayBack, Remembered, Faithful, Linux!Good, Linux!NoFile
  <2> QED BY <1>0, <2>1, IdleFaithful DEF Remembered, Linux!Idle, Linux!Procs
<1>5. Kept'
  BY <1>0, <1>1, <1>2 DEF Inductive, WayBack, Kept, Linux!Reach
<1>6. ScriptIsCurrent'
  <2>1. ~stale' /\ file'.present => Faithful(script)'
    BY <1>0, <1>2 DEF Inductive, WayBack, ScriptIsCurrent, Faithful, Linux!Good, Linux!NoFile
  <2> QED BY <1>0, <2>1 DEF ScriptIsCurrent, Linux!Idle
<1> QED BY <1>0, <1>3, <1>4, <1>5, <1>6, IdleJobs DEF WayBack

(* The offline script writes nothing that may not be written.              *)
LEMMA ScriptIsGood ==
  ASSUME Inductive, Faithful(script), NEW a \in LinuxAdapters
  PROVE  /\ Linux!Good(a, Linux!ScriptValue(a)) \/ Linux!ScriptValue(a) = sys[a]
         /\ a \in Linux!Reach(script) => Linux!Good(a, Linux!ScriptValue(a))
<1>0. Linux!TypeOK /\ script \in Linux!Snapshots
  BY DEF Inductive, Linux!TypeOK
<1>1. CASE backend = "resolvconf"
  <2>1. CASE dorig # None
    BY <1>1, <2>1 DEF Inductive, WayBack, OneFile, Linux!ScriptValue
  <2>2. CASE dorig = None /\ \A x \in Linux!Listed(script) : script[x] = Linux!AllDHCP
    BY <1>1, <2>2 DEF Linux!ScriptValue, Linux!Good
  <2>3. CASE dorig = None /\ \E x \in Linux!Listed(script) : script[x] # Linux!AllDHCP
    <3> DEFINE x == CHOOSE x \in Linux!Listed(script) : script[x] # Linux!AllDHCP
    <3>1. x \in Linux!Listed(script)
      BY <2>3
    <3>4. Linux!ScriptValue(a) = script[x]
      BY <1>1, <2>3 DEF Linux!ScriptValue
    <3> HIDE DEF x
    <3>2. x \in LinuxAdapters /\ Linux!Good(x, script[x])
      BY <3>1 DEF Faithful, Linux!Listed
    <3>3. Linux!Good(a, script[x])
      BY <1>1, <3>2 DEF Inductive, WayBack, OneFile, Linux!Good
    <3> QED BY <3>3, <3>4
  <2> QED BY <2>1, <2>2, <2>3
<1>2. CASE backend # "resolvconf"
  <2>1. CASE script[a] # None
    <3>1. Linux!Good(a, script[a])
      BY <2>1 DEF Faithful
    <3>2. Linux!ScriptValue(a) = script[a]
      BY <1>0, <1>2, <2>1, <3>1, GoodIsClean DEF Linux!ScriptValue
    <3> QED BY <3>1, <3>2
  <2>2. CASE script[a] = None
    <3>1. a \notin Linux!Reach(script)
      <4>1. a \notin Linux!Listed(script)
        BY <2>2 DEF Linux!Listed
      <4>2. backend = "resolved" \/ backend = "nm"
        BY <1>0, <1>2, LinuxFacts DEF Linux!TypeOK
      <4> QED BY <4>1, <4>2 DEF Faithful, Linux!Reach
    <3> QED BY <1>2, <2>2, <3>1 DEF Linux!ScriptValue
  <2> QED BY <2>1, <2>2
<1> QED BY <1>1, <1>2

LEMMA ScriptType ==
  ASSUME Linux!TypeOK, NEW a \in LinuxAdapters
  PROVE  Linux!ScriptValue(a) \in Linux!Configs
<1>1. \A l \in Linux!Snapshots, x \in LinuxAdapters : l[x] # None => Linux!CleanAdapterState(l[x]) \in Linux!Configs /\ l[x] \in Linux!Configs
  BY EmptyType, CleanOfClean
<1>2. CASE backend = "resolvconf"
  <2>1. CASE \E x \in Linux!Listed(script) : script[x] # Linux!AllDHCP
    <3> DEFINE x == CHOOSE x \in Linux!Listed(script) : script[x] # Linux!AllDHCP
    <3>1. x \in Linux!Listed(script)
      BY <2>1
    <3>4. dorig # None \/ Linux!ScriptValue(a) = script[x]
      BY <1>2, <2>1 DEF Linux!ScriptValue
    <3>5. dorig = None \/ Linux!ScriptValue(a) = dorig
      BY <1>2 DEF Linux!ScriptValue
    <3> HIDE DEF x
    <3>2. script[x] \in Linux!Configs
      BY <1>1, <3>1 DEF Linux!Listed, Linux!TypeOK
    <3> QED BY <3>2, <3>4, <3>5 DEF Linux!TypeOK
  <2>2. CASE \A x \in Linux!Listed(script) : script[x] = Linux!AllDHCP
    BY <1>2, <2>2, PublicIsClean, CleanOfClean DEF Linux!ScriptValue, Linux!TypeOK
  <2> QED BY <2>1, <2>2
<1>3. CASE backend # "resolvconf"
  BY <1>1, <1>3 DEF Linux!ScriptValue, Linux!TypeOK
<1> QED BY <1>2, <1>3

LEMMA RunScriptStep ==
  ASSUME Inductive, ~spoilt', Linux!RunScript
  PROVE  WayBack'
<1>0. job["mgr"] = Linux!Idle /\ job["heal"] = Linux!Idle /\ file.present /\ ~stale
  BY DEF Linux!RunScript, Inductive, Turns, InTurn, Linux!Procs
<1>1. UNCHANGED <<backend, named, orig, file, backup, dorig, script, takeover, mem, job, stale>>
      /\ sys' = [a \in LinuxAdapters |-> Linux!ScriptValue(a)]
  BY DEF Linux!RunScript, Linux!system
<1>2. Faithful(script)
  BY <1>0 DEF Inductive, WayBack, ScriptIsCurrent
<1>4. Linux!Off' \subseteq Linux!Off
  BY <1>1, <1>2, ScriptIsGood DEF Linux!Off, Linux!Good
<1>5. OneFile'
  <2>1. backend = "resolvconf" => \A a, b \in LinuxAdapters : Linux!ScriptValue(a) = Linux!ScriptValue(b)
    BY DEF Linux!ScriptValue
  <2> QED BY <1>1, <2>1 DEF Inductive, WayBack, OneFile, Linux!Good
<1>6. Remembered' /\ ScriptIsCurrent'
  BY <1>1 DEF Inductive, WayBack, Remembered, ScriptIsCurrent, Faithful, Linux!Good
<1>7. Kept'
  BY <1>0, <1>1, <1>4 DEF Inductive, WayBack, Kept, Linux!Reach
<1> QED BY <1>0, <1>1, <1>5, <1>6, <1>7, IdleJobs DEF WayBack

LEMMA UserChangeStep ==
  ASSUME Inductive, NEW a \in LinuxAdapters, NEW c \in Linux!Clean, Linux!UserChange(a, c)
  PROVE  WayBack'
<1>0. job["mgr"] = Linux!Idle /\ job["heal"] = Linux!Idle /\ mem = Linux!Empty
      /\ ~file.present /\ file.snap = Linux!Empty /\ backend # "resolvconf"
  BY DEF Linux!UserChange, Inductive, Turns, InTurn, Linux!Procs
<1>1. UNCHANGED <<backend, named, file, backup, dorig, script, started, takeover, mem, job, stale>> /\ orig' = sys'
  BY DEF Linux!UserChange, Linux!history
<1>3. Linux!Off' = {}
  BY <1>1 DEF Linux!Off, Linux!Good
<1>4. Remembered'
  BY <1>0, <1>1, IdleFaithful DEF Remembered, Linux!Idle, Linux!Procs
<1>5. ScriptIsCurrent' /\ OneFile'
  BY <1>0, <1>1 DEF ScriptIsCurrent, Linux!Idle, OneFile
<1>7. Kept'
  BY <1>0, <1>1, <1>3 DEF Kept
<1> QED BY <1>0, <1>1, <1>4, <1>5, <1>7, IdleJobs DEF WayBack

(* Their types and turns.                                                  *)
LEMMA OutsideTypes ==
  ASSUME Linux!TypeOK, Turns,
         \/ Linux!Crash \/ Linux!RunScript
         \/ \E a \in LinuxAdapters, c \in Linux!Clean : Linux!UserChange(a, c)
  PROVE  Linux!TypeOK' /\ Turns'
<1>1. CASE Linux!Crash
  <2>1. UNCHANGED <<backend, named, orig, sys, backup, dorig, script, stale>> /\ mem' = Linux!Empty
        /\ job' = [p \in Linux!Procs |-> Linux!Idle] /\ started' = FALSE /\ takeover' = FALSE
        /\ file' \in {file, Linux!NoFile} /\ spoilt' \in BOOLEAN /\ Linux!Fault("crash")
    BY <1>1 DEF Linux!Crash, Linux!system
  <2>2. budget' \in 0..MaxFaults
    BY <2>1, FaultType DEF Linux!FaultKinds
  <2>3. Linux!TypeOK'
    BY <2>1, <2>2, EmptyType DEF Linux!TypeOK
  <2>4. Turns'
    <3>1. \A p \in Linux!Procs : job'[p] = Linux!Idle /\ InTurn(p, Linux!Idle)' /\ job'[p].pc = "idle"
      BY <2>1, IdleInTurn DEF InTurn, Linux!Idle
    <3>2. ~file'.present => file'.snap = Linux!Empty
      BY <2>1 DEF Turns, Linux!NoFile
    <3> QED BY <2>1, <3>1, <3>2 DEF Turns
  <2> QED BY <2>3, <2>4
<1>2. CASE Linux!RunScript
  <2>1. UNCHANGED <<backend, named, orig, file, backup, dorig, script, started, takeover, mem, job, stale, budget>>
        /\ sys' = [a \in LinuxAdapters |-> Linux!ScriptValue(a)] /\ spoilt' \in BOOLEAN
    BY <1>2 DEF Linux!RunScript, Linux!system
  <2>2. sys' \in [LinuxAdapters -> Linux!Configs]
    BY <2>1, ScriptType
  <2> QED BY <2>1, <2>2 DEF Linux!TypeOK, Turns
<1>3. ASSUME NEW a \in LinuxAdapters, NEW c \in Linux!Clean, Linux!UserChange(a, c)
      PROVE  Linux!TypeOK' /\ Turns'
  <2>1. UNCHANGED <<backend, named, file, backup, dorig, script, started, takeover, mem, job, stale, spoilt, budget>>
        /\ orig' = sys' /\ sys = orig /\ sys' = [sys EXCEPT ![a] = c] /\ backend # "resolvconf"
    BY <1>3 DEF Linux!UserChange, Linux!history
  <2>2. orig' \in [LinuxAdapters -> Linux!Clean]
    BY <2>1 DEF Linux!TypeOK
  <2>3. sys' \in [LinuxAdapters -> Linux!Configs]
    BY <2>1, <2>2, CleanOfClean
  <2>4. Linux!TypeOK'
    BY <2>1, <2>2, <2>3 DEF Linux!TypeOK
  <2> QED BY <2>1, <2>4 DEF Turns
<1> QED BY <1>1, <1>2, <1>3

(***************************************************************************)
(* The invariant.                                                          *)
(***************************************************************************)
LEMMA InitStep ==
  ASSUME Linux!Init
  PROVE  LinuxInv
<1>0. job["mgr"] = Linux!Idle /\ job["heal"] = Linux!Idle /\ Linux!Off = {}
      /\ \A p \in Linux!Procs : job[p] = Linux!Idle
  BY DEF Linux!Init, Linux!Procs, Linux!Off, Linux!Good
<1>1. Linux!TypeOK
  <2>1. sys \in [LinuxAdapters -> Linux!Configs]
    BY CleanOfClean DEF Linux!Init
  <2>2. file \in Linux!StateFiles /\ mem \in Linux!Snapshots /\ script \in Linux!Snapshots /\ job \in [Linux!Procs -> Linux!Jobs]
    BY EmptyType DEF Linux!Init
  <2>3. budget \in 0..MaxFaults
    BY LinuxFacts DEF Linux!Init
  <2>4. started \in BOOLEAN /\ takeover \in BOOLEAN /\ {backup, dorig} \subseteq Linux!Configs \cup {None}
        /\ {named, stale, spoilt} \subseteq BOOLEAN
    BY DEF Linux!Init
  <2> QED BY <2>1, <2>2, <2>3, <2>4 DEF Linux!Init, Linux!TypeOK
<1>2. Turns
  BY <1>0, IdleInTurn DEF Linux!Init, Turns, Linux!Idle, Linux!NoFile
<1>3. OneFile /\ Remembered /\ ScriptIsCurrent
  BY <1>0, IdleFaithful
     DEF Linux!Init, OneFile, Remembered, ScriptIsCurrent, Linux!Idle, Linux!Procs, Linux!NoFile
<1>4. Kept
  BY <1>0 DEF Linux!Init, Kept
<1>5. job["mgr"].pc = "idle" /\ job["mgr"].call = "none" /\ \A p \in Linux!Procs : job[p].pc = "idle"
  BY <1>0 DEF Linux!Idle, Linux!Procs
<1>6. TakingOver(job["mgr"]) /\ Before(job["mgr"]) /\ Alone /\ \A p \in Linux!Procs : Restoring(job[p])
  BY <1>5 DEF TakingOver, Before, Takeovers, Restoring, Alone
<1> QED BY <1>1, <1>2, <1>3, <1>4, <1>6 DEF LinuxInv, WayBack

(* Only a start forgets that a way back was given away.                    *)
LEMMA SpoiltStays ==
  ASSUME Linux!Next, ~Linux!Start, ~spoilt'
  PROVE  ~spoilt
<1>1. ASSUME Linux!NewCall PROVE ~spoilt
  BY <1>1 DEF Linux!NewCall, Linux!Takeover, Linux!TakeoverSingle, Linux!RestoreSingle, Linux!Restore,
     Linux!EmergencyRestore, Linux!UserChange, Linux!Spoils, Linux!history
<1>2. ASSUME Linux!Step PROVE ~spoilt
  BY <1>2 DEF Linux!Step, Linux!SaveBeforeTakeover, Linux!BackupResolvConf, Linux!RollbackApplied, Linux!Resave,
     Linux!Apply, Linux!RestoreAdapter, Linux!ClearFile, Linux!ResetResidualLoopbackDNS, Linux!history
<1>3. ASSUME Linux!Crash \/ Linux!RunScript PROVE ~spoilt
  BY <1>3 DEF Linux!Crash, Linux!RunScript
<1> QED BY <1>1, <1>2, <1>3 DEF Linux!Next, Linux!Work

LEMMA WayBackStep ==
  ASSUME Inductive, ~spoilt', Linux!Next, ~Linux!Start
  PROVE  WayBack'
<1>1. CASE Linux!NewCall
  <2>1. ASSUME NEW S \in SUBSET LinuxAdapters, Linux!Takeover(S) PROVE WayBack'
    BY <2>1, TakeoverStep
  <2>2. ASSUME NEW a \in LinuxAdapters, Linux!TakeoverSingle(a) PROVE WayBack'
    BY <2>2, TakeoverSingleStep
  <2>3. ASSUME NEW a \in LinuxAdapters, Linux!RestoreSingle(a) PROVE WayBack'
    BY <2>3, RestoreSingleStep
  <2>4. ASSUME NEW a \in LinuxAdapters, NEW c \in Linux!Clean, Linux!UserChange(a, c) PROVE WayBack'
    BY <2>4, UserChangeStep
  <2> QED BY <1>1, <2>1, <2>2, <2>3, <2>4, RestoreStep, EmergencyStep DEF Linux!NewCall
<1>2. CASE Linux!Step
  <2>1. ASSUME NEW a \in LinuxAdapters, Linux!Apply(a) PROVE WayBack'
    BY <2>1, ApplyStep
  <2>2. ASSUME NEW p \in Linux!Procs, NEW a \in LinuxAdapters, Linux!RestoreAdapter(p, a) PROVE WayBack'
    BY <2>2, RestoreAdapterStep
  <2>3. ASSUME NEW p \in Linux!Procs, Linux!ClearFile(p) PROVE WayBack'
    BY <2>3, ClearStep
  <2>4. ASSUME NEW p \in Linux!Procs, Linux!ResetResidualLoopbackDNS(p) PROVE WayBack'
    BY <2>4, ResidualStep
  <2> QED BY <1>2, <2>1, <2>2, <2>3, <2>4, SaveStep, BackupStep, RollbackStep, ResaveStep DEF Linux!Step
<1>3. CASE Linux!Crash \/ Linux!RunScript
  BY <1>3, CrashStep, RunScriptStep
<1> QED BY <1>1, <1>2, <1>3 DEF Linux!Next, Linux!Work

LEMMA LinuxTypesStep ==
  ASSUME Linux!TypeOK, Turns, Linux!Next
  PROVE  Linux!TypeOK' /\ Turns'
<1>1. CASE Linux!NewCall
  BY <1>1, CallTypes, CallTurns, OutsideTypes DEF Linux!NewCall
<1>2. CASE Linux!Work
  BY <1>2, CallTypes, CallTurns, StepTypes, StepTurns, OutsideTypes DEF Linux!Work
<1> QED BY <1>1, <1>2 DEF Linux!Next

LEMMA LinuxStutter ==
  ASSUME LinuxInv, UNCHANGED linux
  PROVE  LinuxInv'
<1>1. UNCHANGED <<backend, named, orig, sys, file, backup, dorig, script, started, takeover, mem, job, stale, spoilt, budget>>
  BY DEF linux
<1>2. Linux!TypeOK' /\ Turns'
  BY <1>1 DEF LinuxInv, Linux!TypeOK, Turns
<1> SUFFICES ASSUME ~spoilt PROVE WayBack'
  BY <1>1, <1>2 DEF LinuxInv
<1>3. Linux!Off' = Linux!Off /\ WayBack
  BY <1>1, OffSame DEF LinuxInv
<1>4. OneFile' /\ ScriptIsCurrent' /\ Alone'
  BY <1>1, <1>3 DEF WayBack, OneFile, ScriptIsCurrent, Faithful, Linux!Good, Alone
<1>5. Remembered'
  BY <1>1, <1>3 DEF WayBack, Remembered, Faithful, Linux!Good
<1>6. Kept'
  BY <1>1, <1>3 DEF WayBack, Kept, Linux!Reach
<1>7. TakingOver(job["mgr"])' /\ Before(job["mgr"])'
  BY <1>1, <1>3 DEF WayBack, TakingOver, Before, Linux!Reach
<1>8. \A p \in Linux!Procs : Restoring(job[p])'
  <2>1. \A p \in Linux!Procs : InHand(job[p])' = InHand(job[p]) /\ Left(job[p])' = Left(job[p])
                         /\ Linux!Remaining(job[p])' = Linux!Remaining(job[p])
                         /\ Linux!Reach(Linux!Remaining(job[p]))' = Linux!Reach(Linux!Remaining(job[p]))
    BY <1>1 DEF InHand, Linux!Span, Left, Linux!Remaining, Linux!Reach
  <2> QED BY <1>1, <1>3, <2>1 DEF WayBack, Restoring
<1> QED BY <1>4, <1>5, <1>6, <1>7, <1>8 DEF WayBack

LEMMA LinuxStep ==
  ASSUME LinuxInv, Linux!Next \/ UNCHANGED linux
  PROVE  LinuxInv'
<1>1. CASE UNCHANGED linux
  BY <1>1, LinuxStutter
<1>2. CASE Linux!Next
  <2>1. Linux!TypeOK' /\ Turns'
    BY <1>2, LinuxTypesStep DEF LinuxInv
  <2>2. ASSUME ~spoilt' PROVE WayBack'
    <3>1. CASE Linux!Start
      BY <2>2, <3>1, StartStep
    <3>2. CASE ~Linux!Start
      <4>1. Inductive
        BY <1>2, <2>2, <3>2, SpoiltStays DEF LinuxInv, Inductive
      <4> QED BY <1>2, <2>2, <3>2, <4>1, WayBackStep
    <3> QED BY <3>1, <3>2
  <2> QED BY <2>1, <2>2 DEF LinuxInv
<1> QED BY <1>1, <1>2

LEMMA LinuxInvImplies ==
  ASSUME LinuxInv
  PROVE  LinuxWayBack
<1>0. Linux!TypeOK
  BY DEF LinuxInv
<1>i. ASSUME ~spoilt PROVE Inductive
  BY <1>i DEF LinuxInv, Inductive
<1>1. Linux!ScriptRestores
  <2> SUFFICES ASSUME ~spoilt, ~stale, NEW a \in Linux!Off
               PROVE  script # Linux!Empty /\ Linux!Good(a, Linux!ScriptValue(a))
    BY DEF Linux!ScriptRestores
  <2>1. a \in LinuxAdapters /\ Inductive
    BY <1>i DEF Linux!Off
  <2>2. file.present /\ a \in Linux!Reach(script)
    BY <2>1 DEF Inductive, WayBack, Kept
  <2>3. Faithful(script)
    BY <2>1, <2>2 DEF Inductive, WayBack, ScriptIsCurrent
  <2>4. script # Linux!Empty
    BY <2>2, EmptyType DEF Linux!Reach
  <2> QED BY <2>1, <2>2, <2>3, <2>4, ScriptIsGood
<1>2. Linux!Recoverable
  <2> SUFFICES ASSUME ~spoilt, NEW a \in Linux!Off PROVE a \in Linux!Restorable
    BY DEF Linux!Recoverable
  <2>1. a \in LinuxAdapters /\ Inductive
    BY <1>i DEF Linux!Off
  <2>2. file.present /\ file.active /\ a \in Linux!Reach(file.snap) /\ Faithful(file.snap) /\ file.snap \in Linux!Snapshots
    BY <2>1 DEF Inductive, WayBack, Kept, Remembered, Linux!TypeOK, Linux!StateFiles
  <2>3. Linux!Healable(file) = Linux!Listed(file.snap) /\ Linux!Listed(file.snap) # {}
    BY <2>2 DEF Linux!Healable, Linux!Reach
  <2>4. \E u \in Linux!Units(Linux!Healable(file)) : a \in Linux!Span(u)
    BY <1>0, <2>2, <2>3, SpanOfUnits
  <2>5. Linux!Good(a, Linux!RestoreValue(file.snap, a))
    <3>1. CASE backend = "resolvconf"
      BY <2>1, <3>1 DEF Inductive, WayBack, OneFile, Linux!RestoreValue, Linux!ResolvConfRestore, Linux!Good
    <3>2. CASE backend = "resolved" \/ backend = "nm"
      <4>1. a \in Linux!Listed(file.snap) /\ (backend = "nm" => named)
        BY <2>1, <2>2, <2>3, <3>2 DEF Linux!Reach, Faithful
      <4>2. Linux!Good(a, file.snap[a])
        BY <2>1, <2>2, <4>1 DEF Faithful, Linux!Listed
      <4>3. Linux!RestoreValue(file.snap, a) = file.snap[a]
        BY <1>0, <2>1, <3>2, <4>1, <4>2, GoodIsClean, LinuxFacts
           DEF Linux!RestoreValue, Linux!ResolvedRestore, Linux!NmRestore, Linux!Listed
      <4> QED BY <4>2, <4>3
    <3> QED BY <1>0, <3>1, <3>2, LinuxFacts DEF Linux!TypeOK
  <2> QED BY <2>1, <2>3, <2>4, <2>5 DEF Linux!Restorable
<1> QED BY <1>0, <1>1, <1>2 DEF LinuxWayBack

(* Until the Linux manager gives a way back away, in one of the ways that  *)
(* Recoverable lists, an interface that has lost its configuration can get *)
(* it back: from the next start of the service, which finds the right      *)
(* snapshots in dns_state.json or the backup of resolv.conf (takeover.go), *)
(* and from restore-dns.sh if that could be written; over all calls, for   *)
(* all faults and crashes at every step.                                   *)
THEOREM LinuxComesBack == MCSpec => []LinuxWayBack
<1>1. MCInit => LinuxInv
  BY InitStep DEF MCInit
<1>2. LinuxInv /\ [MCNext]_mcVars => LinuxInv'
  <2>1. [MCNext]_mcVars => Linux!Next \/ UNCHANGED linux
    BY DEF MCNext, mcVars, Linux!Next
  <2> QED BY <2>1, LinuxStep
<1>3. LinuxInv => LinuxWayBack
  BY LinuxInvImplies
<1> QED BY <1>1, <1>2, <1>3, PTL DEF MCSpec

-----------------------------------------------------------------------------
(* The account: every session is of the current password, and the guesses  *)
(* of a client are its counter, until it is locked out.                    *)

Tallied(c) ==
  /\ guesses[c] <= MaxFailed
  /\ c \notin DOMAIN attempts => guesses[c] = 0
  /\ c \in DOMAIN attempts \ DOMAIN locks => guesses[c] = attempts[c] /\ attempts[c] < MaxFailed

Account ==
  password \in 0..MaxPasswords /\ Auth!SessionsAreCurrent /\ (password = 0 => sessions = {})

Counters ==
  /\ DOMAIN attempts \subseteq Clients /\ DOMAIN locks \subseteq Clients
  /\ aged \subseteq DOMAIN attempts
  /\ guesses \in [Clients -> Nat] /\ \A c \in Clients : Tallied(c)
  /\ Auth!TrackedBounded

AuthKeeps == Account /\ Counters

(* What pruning leaves.                                                    *)
Unforgotten(k) ==
  /\ DOMAIN k \subseteq DOMAIN attempts \ Auth!Over
  /\ \A c \in DOMAIN k : k[c] = attempts[c]
  /\ Cardinality(DOMAIN k \ (DOMAIN locks \ Auth!Over)) <= MaxTracked

-----------------------------------------------------------------------------
(* The console: as long as calls of ConfigureWeb did not overlap and every *)
(* port could be bound, one of them at a time replaces one listener.       *)

TaskRecord ==
  [pc: {"idle", "capture", "shutdown", "start", "publish", "done"}, old: Nat,
   addr: Addresses, moved: BOOLEAN]

Replaces(r, cfg, live, ipc, made) ==
  /\ r.addr = cfg
  /\ r.pc = "capture" => live = {ipc} /\ (r.moved \/ made[ipc].addr = cfg)
  /\ r.pc = "shutdown" => live = {ipc} /\ r.old = ipc
  /\ r.pc = "start" => live = {}
  /\ r.pc = "publish" => live = {r.old} /\ made[r.old].addr = cfg

Replacing(r) == Replaces(r, webCfg, Web!Listening, ipcServer, servers)

WebKeeps ==
  /\ servers \in Seq([addr: Addresses, state: {"listening", "shut"}])
  /\ bindFaults \in Nat /\ overlap \in BOOLEAN /\ webCfg \in Addresses /\ ipcServer \in Nat
  /\ task \in [Tasks -> TaskRecord]
  /\ Web!ConsoleFollowsConfig
  /\ ~overlap /\ bindFaults = 0 => /\ \A t, u \in Web!Busy : t = u
                                   /\ \A t \in Web!Busy : Replacing(task[t])

-----------------------------------------------------------------------------
(* The names of clients: a lookup that has not removed its mark is the one *)
(* of its address.                                                         *)

Looking(s) == slot[s] # Absent /\ slot[s].at # "done"

LookupRecord == [ip: Ips, at: {"asking", "stored", "done"}]

ClientKeeps ==
  /\ \A q \in Namings : asked[q].at # "idle" => asked[q].ip \in Ips
  /\ asked \in [Namings -> [at: {"idle", "alias", "local", "cache", "launch", "update"},
                            ip: Ips \cup {Absent}, name: Client!Sources \cup {Absent}]]
  /\ slot \in [Slots -> LookupRecord \cup {Absent}]
  /\ names \in [Ips -> [name: {"rdns", "none"}, fresh: BOOLEAN] \cup {Absent}]
  /\ inFlight \subseteq Ips
  /\ \A s \in Slots : Looking(s) => slot[s].ip \in inFlight
  /\ \A s, t \in Slots : Looking(s) /\ Looking(t) /\ slot[s].ip = slot[t].ip => s = t
  /\ \A i \in inFlight : \E s \in Slots : Looking(s) /\ slot[s].ip = i
  /\ Client!NamesBounded

-----------------------------------------------------------------------------
(* The bootstrap resolver: a dial has asked a server of the configuration  *)
(* it began with, or still has it in its plan.                             *)

DialRecord ==
  [at: {"idle", "ended", "cache", "score", "ask", "put"}, servers: SUBSET BootServers,
   warm: SUBSET BootServers, scored: SUBSET BootServers, plan: Seq(BootServers),
   asked: SUBSET BootServers, got: BootServers \cup {Absent, "expired", "failed"}]

DialPlace(r) ==
  /\ r.at \in {"cache", "score"} => r.asked = {}
  /\ r.at = "ask" => \A s \in BootServers : s \in r.servers <=> s \in r.asked \/ \E i \in DOMAIN r.plan : r.plan[i] = s
  /\ r.at = "put" => r.got \in BootServers
  /\ r.got = "failed" => r.at = "ended" /\ r.asked = r.servers

BootKeeps ==
  /\ bootConf \in BootConfigs
  /\ health \in [BootServers -> [fails: Nat, cool: BOOLEAN]] /\ Boot!CoolMeansFailing
  /\ dial \in [Dials -> DialRecord] /\ \A d \in Dials : DialPlace(dial[d])

-----------------------------------------------------------------------------
(* The rate limit: what a bucket has given and still holds is covered by   *)
(* the burst and the time it was refilled for.                             *)

BucketRecord == [tokens: Int, last: Nat]
AskerRecord == [prefix: Prefixes, now: Nat]

Covers(l, b, g, from, now) ==
  /\ b.tokens <= l.burst /\ b.last <= now
  /\ g + b.tokens <= l.burst + l.rate * (b.last - from)
  /\ g <= l.burst + l.rate * (now - from)

LimitKeeps ==
  /\ limit \in LimitConfigs /\ clock \in Nat
  /\ buckets \in [Prefixes -> BucketRecord \cup {Absent}]
  /\ asker \in [Askers -> AskerRecord \cup {Absent}]
  /\ granted \in [Prefixes -> Nat] /\ base \in [Prefixes -> Nat]
  /\ \A q \in Askers : asker[q] # Absent => asker[q].now <= clock
  /\ \A p \in Prefixes : buckets[p] # Absent => Covers(limit, buckets[p], granted[p], base[p], clock)
  /\ Limiter!TableHolds

PartsInductive == AuthKeeps /\ WebKeeps /\ ClientKeeps /\ BootKeeps /\ LimitKeeps
-----------------------------------------------------------------------------
(* Sets of bounded size.                                                   *)

(* Finite sets are counted alike in every module.                          *)
LEMMA SameCardinality ==
  ASSUME NEW S
  PROVE  /\ Limiter!Cardinality(S) = Cardinality(S)
         /\ Auth!Cardinality(S) = Cardinality(S)
         /\ Client!Cardinality(S) = Cardinality(S)
         /\ Boot!Cardinality(S) = Cardinality(S)
  BY DEF Limiter!Cardinality, Auth!Cardinality, Client!Cardinality, Boot!Cardinality, Cardinality

(* A set loses a member before it gets another one.                        *)
LEMMA ReplacedIsNoLarger ==
  ASSUME NEW S, NEW x, NEW y \in S, IsFiniteSet(S), NEW n \in Nat, Cardinality(S) <= n
  PROVE  Cardinality((S \ {y}) \cup {x}) <= n /\ IsFiniteSet((S \ {y}) \cup {x})
  <1>1. IsFiniteSet(S \ {y}) /\ Cardinality(S \ {y}) = Cardinality(S) - 1
    BY FS_RemoveElement
  <1>2. /\ IsFiniteSet((S \ {y}) \cup {x})
        /\ Cardinality((S \ {y}) \cup {x}) \in {Cardinality(S \ {y}), Cardinality(S \ {y}) + 1}
    BY <1>1, FS_AddElement
  <1>3. Cardinality(S) \in Nat
    BY FS_CardinalityType
  <1> QED
    BY <1>1, <1>2, <1>3

(* A set below its limit gets another member.                              *)
LEMMA AddedIsNoLarger ==
  ASSUME NEW S, NEW x, IsFiniteSet(S), NEW n \in Nat, Cardinality(S) < n
  PROVE  Cardinality(S \cup {x}) <= n
  <1>1. Cardinality(S \cup {x}) \in {Cardinality(S), Cardinality(S) + 1}
    BY FS_AddElement
  <1>2. Cardinality(S) \in Nat
    BY FS_CardinalityType
  <1> QED
    BY <1>1, <1>2

-----------------------------------------------------------------------------
(* The rate limit.                                                         *)

LEMMA LimitFacts ==
  ASSUME LimitKeeps
  PROVE  /\ limit.rate \in Nat /\ limit.burst \in Nat /\ limit.enabled \in BOOLEAN
         /\ MaxBuckets \in Nat /\ IsFiniteSet(Prefixes)
         /\ Absent \notin BucketRecord /\ Absent \notin AskerRecord
  BY PartsAssumption DEF PartsAssumption, LimitKeeps, BucketRecord, AskerRecord

LEMMA LimitUnchanged ==
  ASSUME LimitKeeps, UNCHANGED limitVars
  PROVE  LimitKeeps'
  BY DEF LimitKeeps, limitVars, Limiter!TableHolds, Limiter!Held

LEMMA LimitStarts ==
  ASSUME Limiter!LimitInit
  PROVE  LimitKeeps
  <1>1. \A p \in Prefixes : buckets[p] = Absent
    BY DEF Limiter!LimitInit
  <1>2. Limiter!Held = {} /\ Cardinality({}) = 0
    BY <1>1, FS_EmptySet DEF Limiter!Held
  <1>3. Limiter!TableHolds
    <2>1. MaxBuckets \in Nat
      BY PartsAssumption DEF PartsAssumption
    <2>2. Cardinality(Limiter!Held) <= MaxBuckets
      BY <1>2, <2>1
    <2>3. switch => janitor = "on"
      BY DEF Limiter!LimitInit
    <2> QED
      BY <2>2, <2>3, SameCardinality DEF Limiter!TableHolds
  <1>4. /\ limit \in LimitConfigs /\ clock \in Nat
        /\ granted \in [Prefixes -> Nat] /\ base \in [Prefixes -> Nat]
    BY DEF Limiter!LimitInit
  <1>5. buckets \in [Prefixes -> BucketRecord \cup {Absent}] /\ asker \in [Askers -> AskerRecord \cup {Absent}]
    BY DEF Limiter!LimitInit
  <1>6. \A q \in Askers : asker[q] = Absent
    BY DEF Limiter!LimitInit
  <1> QED
    BY <1>1, <1>3, <1>4, <1>5, <1>6 DEF LimitKeeps

(* A step that leaves the configuration and the buckets alone.             *)
LEMMA LimitTicks ==
  ASSUME LimitKeeps, UNCHANGED <<limit, buckets, granted, base>>,
         clock' \in Nat, clock' >= clock, switch' => janitor' = "on",
         asker' \in [Askers -> AskerRecord \cup {Absent}],
         \A q \in Askers : asker'[q] # Absent => asker'[q].now <= clock'
  PROVE  LimitKeeps'
  <1>1. ASSUME NEW p \in Prefixes, buckets[p] # Absent
        PROVE  Covers(limit, buckets[p], granted[p], base[p], clock')
    <2>1. Covers(limit, buckets[p], granted[p], base[p], clock)
      BY <1>1 DEF LimitKeeps
    <2>2. /\ limit.rate \in Nat /\ limit.burst \in Nat /\ clock \in Nat /\ base[p] \in Nat
          /\ granted[p] \in Nat /\ buckets[p].last \in Nat
      BY <1>1, LimitFacts DEF LimitKeeps, BucketRecord
    <2>3. \A r, a, b, c \in Int : r >= 0 /\ b >= a => r * (a - c) <= r * (b - c)
      OBVIOUS
    <2>4. limit.rate * (clock - base[p]) <= limit.rate * (clock' - base[p])
      BY <2>2, <2>3
    <2>5. limit.rate * (clock - base[p]) \in Int /\ limit.rate * (clock' - base[p]) \in Int
      BY <2>2
    <2> QED
      BY <2>1, <2>2, <2>4, <2>5 DEF Covers
  <1>2. Limiter!TableHolds'
    BY DEF LimitKeeps, Limiter!TableHolds, Limiter!Held
  <1> QED
    BY <1>1, <1>2 DEF LimitKeeps

LEMMA LimitSimple ==
  ASSUME LimitKeeps,
         \/ Limiter!SyncJanitor \/ Limiter!JanitorEnds \/ Limiter!Tick
         \/ \E q \in Askers, p \in Prefixes : Limiter!ReadClock(q, p)
  PROVE  LimitKeeps'
  <1>0. clock \in Nat /\ asker \in [Askers -> AskerRecord \cup {Absent}]
    BY DEF LimitKeeps
  <1>1. CASE Limiter!SyncJanitor \/ Limiter!JanitorEnds
    <2>1. UNCHANGED <<limit, buckets, granted, base, clock, asker>>
      BY <1>1 DEF Limiter!SyncJanitor, Limiter!JanitorEnds
    <2>2. switch' => janitor' = "on"
      BY <1>1 DEF Limiter!SyncJanitor, Limiter!JanitorEnds, LimitKeeps, Limiter!TableHolds
    <2>3. \A q \in Askers : asker'[q] # Absent => asker'[q].now <= clock'
      BY <2>1 DEF LimitKeeps
    <2>4. clock' \in Nat /\ clock' >= clock /\ asker' \in [Askers -> AskerRecord \cup {Absent}]
      BY <1>0, <2>1
    <2> QED
      BY <2>1, <2>2, <2>3, <2>4, LimitTicks
  <1>2. CASE Limiter!Tick
    <2>1. UNCHANGED <<limit, buckets, granted, base, switch, janitor, asker>> /\ clock' = clock + 1
      BY <1>2 DEF Limiter!Tick
    <2>2. switch' => janitor' = "on"
      BY <2>1 DEF LimitKeeps, Limiter!TableHolds
    <2>3. \A q \in Askers : asker[q] # Absent => asker[q].now <= clock /\ asker[q].now \in Nat
      BY DEF LimitKeeps, AskerRecord
    <2>4. \A q \in Askers : asker'[q] # Absent => asker'[q].now <= clock'
      BY <1>0, <2>1, <2>3
    <2>5. clock' \in Nat /\ clock' >= clock /\ asker' \in [Askers -> AskerRecord \cup {Absent}]
      BY <1>0, <2>1
    <2> QED
      BY <2>1, <2>2, <2>4, <2>5, LimitTicks
  <1>3. ASSUME NEW q \in Askers, NEW p \in Prefixes, Limiter!ReadClock(q, p)
        PROVE  LimitKeeps'
    <2> DEFINE r == [prefix |-> p, now |-> clock]
    <2>1. r \in AskerRecord /\ r.now = clock
      BY <1>0 DEF AskerRecord
    <2>2. UNCHANGED <<limit, buckets, granted, base, switch, janitor, clock>> /\ asker' = [asker EXCEPT ![q] = r]
      BY <1>3 DEF Limiter!ReadClock
    <2> HIDE DEF r
    <2>3. asker' \in [Askers -> AskerRecord \cup {Absent}]
      BY <1>0, <2>1, <2>2
    <2>4. \A k \in Askers : asker'[k] # Absent => asker'[k].now <= clock'
      BY <1>0, <2>1, <2>2 DEF LimitKeeps
    <2>5. switch' => janitor' = "on"
      BY <2>2 DEF LimitKeeps, Limiter!TableHolds
    <2>6. clock' \in Nat /\ clock' >= clock
      BY <1>0, <2>2
    <2> QED
      BY <2>2, <2>3, <2>4, <2>5, <2>6, LimitTicks
  <1> QED
    BY <1>1, <1>2, <1>3

(* A sweep only removes buckets.                                           *)
LEMMA LimitSweeps ==
  ASSUME LimitKeeps, Limiter!CleanupIdleBuckets
  PROVE  LimitKeeps'
  <1>1. UNCHANGED <<limit, switch, janitor, clock, asker, granted, base>>
    BY DEF Limiter!CleanupIdleBuckets
  <1>2. \A p \in Prefixes : buckets'[p] \in {buckets[p], Absent}
    BY DEF Limiter!CleanupIdleBuckets
  <1>3. buckets' \in [Prefixes -> BucketRecord \cup {Absent}]
    BY <1>2 DEF Limiter!CleanupIdleBuckets, LimitKeeps
  <1>4. Limiter!Held' \subseteq Limiter!Held /\ Limiter!Held \subseteq Prefixes
    BY <1>2 DEF Limiter!Held
  <1>5. Cardinality(Limiter!Held') <= Cardinality(Limiter!Held) /\ IsFiniteSet(Limiter!Held) /\ IsFiniteSet(Limiter!Held')
    BY <1>4, LimitFacts, FS_Subset
  <1>6. Cardinality(Limiter!Held') \in Nat /\ Cardinality(Limiter!Held) \in Nat
    BY <1>5, FS_CardinalityType
  <1>7. Limiter!TableHolds'
    <2>1. Cardinality(Limiter!Held) <= MaxBuckets /\ (switch => janitor = "on")
      BY SameCardinality DEF LimitKeeps, Limiter!TableHolds
    <2>2. Cardinality(Limiter!Held') <= MaxBuckets
      BY <1>5, <1>6, <2>1, LimitFacts
    <2>3. switch' => janitor' = "on"
      BY <1>1, <2>1
    <2> QED
      BY <2>2, <2>3, SameCardinality DEF Limiter!TableHolds
  <1> QED
    BY <1>1, <1>2, <1>3, <1>7 DEF LimitKeeps

(* Products with a rate.                                                   *)
LEMMA Refilling ==
  /\ \A r, a, b, c \in Int : r * (a - c) + (b - a) * r = r * (b - c)
  /\ \A r, a, b, c \in Int : r >= 0 /\ b >= a => r * (a - c) <= r * (b - c)
  /\ \A r, a, c \in Int : r * (a - c) \in Int /\ (a - c) * r \in Int
  OBVIOUS

(* A decision of the kernel about the prefix p: others keep their bucket   *)
(* or lose it.                                                             *)
LEMMA LimitDecides ==
  ASSUME LimitKeeps, NEW p \in Prefixes, NEW b \in BucketRecord, NEW g \in Nat, NEW from \in Nat,
         Covers(limit, b, g, from, clock),
         UNCHANGED <<limit, switch, janitor, clock>>,
         buckets' \in [Prefixes -> BucketRecord \cup {Absent}], buckets'[p] = b,
         \A r \in Prefixes \ {p} : buckets'[r] \in {buckets[r], Absent},
         granted' = [granted EXCEPT ![p] = g], base' = [base EXCEPT ![p] = from],
         asker' \in [Askers -> AskerRecord \cup {Absent}],
         \A q \in Askers : asker'[q] # Absent => asker'[q] = asker[q],
         Cardinality(Limiter!Held') <= MaxBuckets
  PROVE  LimitKeeps'
  <1>1. granted' \in [Prefixes -> Nat] /\ base' \in [Prefixes -> Nat]
    BY DEF LimitKeeps
  <1>2. granted'[p] = g /\ base'[p] = from
    BY DEF LimitKeeps
  <1>3. \A r \in Prefixes \ {p} : granted'[r] = granted[r] /\ base'[r] = base[r]
    BY DEF LimitKeeps
  <1>4. ASSUME NEW r \in Prefixes, buckets'[r] # Absent
        PROVE  Covers(limit', buckets'[r], granted'[r], base'[r], clock')
    <2>1. CASE r = p
      BY <1>2, <2>1
    <2>2. CASE r # p
      <3>1. buckets'[r] = buckets[r] /\ granted'[r] = granted[r] /\ base'[r] = base[r]
        BY <1>3, <1>4, <2>2
      <3>2. Covers(limit, buckets[r], granted[r], base[r], clock)
        BY <1>4, <3>1 DEF LimitKeeps
      <3> QED
        BY <3>1, <3>2
    <2> QED
      BY <2>1, <2>2
  <1>5. \A q \in Askers : asker'[q] # Absent => asker'[q].now <= clock'
    BY DEF LimitKeeps
  <1>6. Limiter!TableHolds'
    <2>1. switch' => janitor' = "on"
      BY DEF LimitKeeps, Limiter!TableHolds
    <2> QED
      BY <2>1, SameCardinality DEF Limiter!TableHolds
  <1> QED
    BY <1>1, <1>4, <1>5, <1>6 DEF LimitKeeps

LEMMA LimitAllows ==
  ASSUME LimitKeeps, NEW q \in Askers, Limiter!Allow(q)
  PROVE  LimitKeeps'
  <1> DEFINE p == asker[q].prefix
             now == asker[q].now
             fresh == buckets[p] = Absent
             old == IF fresh THEN [tokens |-> limit.burst, last |-> now] ELSE buckets[p]
             b == Limiter!Refill(old, now)
             pass == b.tokens >= 1
             left == [b EXCEPT !.tokens = IF pass THEN @ - 1 ELSE @]
             g == (IF fresh THEN 0 ELSE granted[p]) + (IF pass THEN 1 ELSE 0)
             from == IF fresh THEN now ELSE base[p]
  <1>1. p \in Prefixes /\ now \in Nat /\ now <= clock /\ clock \in Nat /\ asker[q] # Absent
    BY DEF Limiter!Allow, LimitKeeps, AskerRecord
  <1>2. limit.rate \in Nat /\ limit.burst \in Nat /\ MaxBuckets \in Nat /\ IsFiniteSet(Prefixes)
    BY LimitFacts
  <1>3. /\ UNCHANGED <<limit, switch, janitor, clock>>
        /\ asker' = [asker EXCEPT ![q] = Absent]
    BY DEF Limiter!Allow
  <1>4. /\ asker' \in [Askers -> AskerRecord \cup {Absent}]
        /\ \A k \in Askers : asker'[k] # Absent => asker'[k] = asker[k]
    BY <1>3 DEF LimitKeeps
  <1>5. CASE UNCHANGED <<buckets, granted, base>>
    <2>1. \A k \in Askers : asker'[k] # Absent => asker'[k].now <= clock'
      BY <1>3, <1>4 DEF LimitKeeps
    <2>2. switch' => janitor' = "on"
      BY <1>3 DEF LimitKeeps, Limiter!TableHolds
    <2>3. clock' \in Nat /\ clock' >= clock
      BY <1>1, <1>3
    <2> QED
      BY <1>3, <1>4, <1>5, <2>1, <2>2, <2>3, LimitTicks
  <1>6. ASSUME NEW out \in IF fresh THEN Limiter!Ousted(now) ELSE {{}},
               buckets' = [r \in Prefixes |-> IF r = p THEN left ELSE IF r \in out THEN Absent ELSE buckets[r]],
               granted' = [granted EXCEPT ![p] = (IF fresh THEN 0 ELSE @) + (IF pass THEN 1 ELSE 0)],
               base' = [base EXCEPT ![p] = IF fresh THEN now ELSE @]
        PROVE  LimitKeeps'
    <2>1. /\ old \in BucketRecord /\ old.tokens <= limit.burst
          /\ from \in Nat /\ (IF fresh THEN 0 ELSE granted[p]) \in Nat
          /\ (IF fresh THEN 0 ELSE granted[p]) + old.tokens <= limit.burst + limit.rate * (old.last - from)
          /\ (IF fresh THEN 0 ELSE granted[p]) <= limit.burst + limit.rate * (clock - from)
      <3>1. CASE fresh
        <4>1. old = [tokens |-> limit.burst, last |-> now] /\ from = now
          BY <3>1
        <4>2. old \in BucketRecord /\ old.tokens = limit.burst /\ old.last = now
          BY <1>1, <1>2, <4>1 DEF BucketRecord
        <4>3. limit.rate * (now - now) = 0
          BY <1>1, <1>2
        <4>4. limit.rate * (clock - now) >= 0 /\ limit.rate * (clock - now) \in Int
          <5>1. \A r, a, c \in Int : r >= 0 /\ a >= c => r * (a - c) >= 0
            OBVIOUS
          <5> QED
            BY <1>1, <1>2, <5>1
        <4> QED
          BY <1>1, <1>2, <3>1, <4>1, <4>2, <4>3, <4>4
      <3>2. CASE ~fresh
        <4>1. old = buckets[p] /\ from = base[p] /\ old \in BucketRecord
          BY <1>1, <3>2 DEF LimitKeeps
        <4>2. Covers(limit, buckets[p], granted[p], base[p], clock)
          BY <1>1, <3>2 DEF LimitKeeps
        <4>3. granted[p] \in Nat /\ base[p] \in Nat
          BY <1>1 DEF LimitKeeps
        <4> QED
          BY <3>2, <4>1, <4>2, <4>3 DEF Covers
      <3> QED
        BY <3>1, <3>2
    <2>2. g \in Nat /\ granted' = [granted EXCEPT ![p] = g] /\ base' = [base EXCEPT ![p] = from]
      <3>1. g \in Nat
        BY <2>1
      <3>2. granted' = [granted EXCEPT ![p] = g] /\ base' = [base EXCEPT ![p] = from]
        BY <1>6
      <3> QED
        BY <3>1, <3>2
    <2>3. b = [tokens |-> Limiter!Least(limit.burst, old.tokens + (now - old.last) * limit.rate), last |-> now]
      BY DEF Limiter!Refill
    <2>4. b.last = now /\ b.tokens = Limiter!Least(limit.burst, old.tokens + (now - old.last) * limit.rate)
      BY <2>3
    <2>5. old.tokens \in Int /\ old.last \in Nat
      BY <2>1 DEF BucketRecord
    <2> DEFINE g0 == IF fresh THEN 0 ELSE granted[p]
               have == b.tokens
    <2>6. /\ have \in Int /\ have <= limit.burst
          /\ g0 + have <= limit.burst + limit.rate * (now - from)
          /\ have >= 1 => g0 + 1 <= limit.burst + limit.rate * (clock - from)
      <3>1. g0 \in Nat /\ g0 + old.tokens <= limit.burst + limit.rate * (old.last - from)
            /\ g0 <= limit.burst + limit.rate * (clock - from) /\ old.tokens <= limit.burst /\ from \in Nat
        BY <2>1
      <3>2. have = Limiter!Least(limit.burst, old.tokens + (now - old.last) * limit.rate)
        BY <2>4
      <3> DEFINE x == limit.rate * (old.last - from)
                 y == (now - old.last) * limit.rate
                 z == limit.rate * (now - from)
                 w == limit.rate * (clock - from)
      <3> HIDE DEF g0, have, old, from, b, now
      <3>3. x + y = z /\ x \in Int /\ y \in Int /\ z \in Int /\ w \in Int /\ z <= w
        BY <1>1, <1>2, <2>5, <3>1, Refilling
      <3>4. have = IF limit.burst <= old.tokens + y THEN limit.burst ELSE old.tokens + y
        BY <3>2 DEF Limiter!Least
      <3>5. g0 + old.tokens <= limit.burst + x /\ g0 <= limit.burst + w
        BY <3>1
      <3> HIDE DEF x, y, z, w
      <3>6. have \in Int /\ have <= limit.burst /\ g0 + have <= limit.burst + z
        BY <1>2, <2>5, <3>1, <3>3, <3>4, <3>5
      <3>7. have >= 1 => g0 + 1 <= limit.burst + w
        BY <1>2, <3>1, <3>3, <3>6
      <3> QED
        BY <3>6, <3>7 DEF z, w
    <2>7. left \in BucketRecord /\ left.last = now /\ left.tokens = IF have >= 1 THEN have - 1 ELSE have
      BY <1>1, <2>3, <2>4, <2>6 DEF BucketRecord
    <2>8. Covers(limit, left, g, from, clock)
      <3>1. g = g0 + (IF have >= 1 THEN 1 ELSE 0) /\ g0 \in Nat /\ g0 <= limit.burst + limit.rate * (clock - from)
        BY <2>1
      <3>2. from \in Nat
        BY <2>1
      <3>3. limit.rate * (now - from) \in Int /\ limit.rate * (clock - from) \in Int
        BY <1>1, <1>2, <3>2
      <3> HIDE DEF g0, have, left, from, g, b, now
      <3> DEFINE z == limit.rate * (now - from)
                 w == limit.rate * (clock - from)
      <3>4. left.tokens <= limit.burst /\ left.last <= clock
        BY <1>1, <1>2, <2>6, <2>7
      <3>5. z \in Int /\ w \in Int /\ g0 + have <= limit.burst + z /\ g0 <= limit.burst + w
            /\ (have >= 1 => g0 + 1 <= limit.burst + w)
        BY <2>6, <3>1, <3>3
      <3> HIDE DEF z, w
      <3>6. g + left.tokens <= limit.burst + z
        BY <1>2, <2>6, <2>7, <3>1, <3>5
      <3>7. g <= limit.burst + w
        BY <1>2, <2>6, <3>1, <3>5
      <3> QED
        BY <2>7, <3>4, <3>6, <3>7 DEF Covers, z, w
    <2>9. /\ buckets' \in [Prefixes -> BucketRecord \cup {Absent}] /\ buckets'[p] = left
          /\ \A r \in Prefixes \ {p} : buckets'[r] = IF r \in out THEN Absent ELSE buckets[r]
      <3> HIDE DEF left, p
      <3> QED
        BY <1>1, <1>6, <2>7 DEF LimitKeeps
    <2>10. left # Absent
      BY <2>7, LimitFacts
    <2>11. Cardinality(Limiter!Held') <= MaxBuckets
      <3> DEFINE H == Limiter!Held
      <3>1. H \subseteq Prefixes /\ IsFiniteSet(H) /\ Cardinality(H) <= MaxBuckets /\ Cardinality(H) \in Nat
        <4>1. H \subseteq Prefixes /\ Cardinality(H) <= MaxBuckets
          BY SameCardinality DEF Limiter!Held, LimitKeeps, Limiter!TableHolds
        <4>2. IsFiniteSet(H)
          BY <1>2, <4>1, FS_Subset
        <4> QED
          BY <4>1, <4>2, FS_CardinalityType
      <3>2. Limiter!Held' = (H \ out) \cup {p}
        <4> HIDE DEF left, p
        <4> QED
          BY <1>1, <2>9, <2>10 DEF Limiter!Held
      <3>3. CASE ~fresh
        <4>1. out = {} /\ p \in H
          BY <1>1, <1>6, <3>3 DEF Limiter!Held
        <4>2. Limiter!Held' = H
          BY <3>2, <4>1
        <4> QED
          BY <3>1, <4>2
      <3>4. CASE fresh
        <4> DEFINE idle == {x \in H : Limiter!IsIdle(buckets[x], now)}
                   rest == H \ idle
        <4>1. out \in Limiter!Ousted(now)
          BY <1>6, <3>4
        <4>2. IsFiniteSet(rest) /\ Cardinality(rest) <= Cardinality(H) /\ Cardinality(rest) \in Nat
          <5>1. rest \subseteq H
            OBVIOUS
          <5> QED
            BY <3>1, <5>1, FS_Subset, FS_CardinalityType
        <4>3. \/ Cardinality(H) < MaxBuckets /\ out = {}
              \/ Cardinality(rest) < MaxBuckets /\ out = idle
              \/ \E x \in rest : out = idle \cup {x}
          BY <4>1, SameCardinality DEF Limiter!Ousted
        <4> HIDE DEF H, p, fresh, left, now
        <4>4. CASE Cardinality(H) < MaxBuckets /\ out = {}
          <5>1. Limiter!Held' = H \cup {p}
            BY <3>2, <4>4
          <5> QED
            BY <1>2, <3>1, <4>4, <5>1, AddedIsNoLarger
        <4>5. CASE Cardinality(rest) < MaxBuckets /\ out = idle
          <5>1. Limiter!Held' = rest \cup {p}
            BY <3>2, <4>5
          <5> QED
            BY <1>2, <4>2, <4>5, <5>1, AddedIsNoLarger
        <4>6. ASSUME NEW x \in rest, out = idle \cup {x}
              PROVE  Cardinality(Limiter!Held') <= MaxBuckets
          <5>1. Limiter!Held' = (rest \ {x}) \cup {p}
            BY <3>2, <4>6
          <5>2. Cardinality(rest) <= MaxBuckets
            BY <1>2, <3>1, <4>2
          <5> QED
            BY <1>2, <4>2, <5>1, <5>2, ReplacedIsNoLarger
        <4> QED
          BY <4>3, <4>4, <4>5, <4>6
      <3> QED
        BY <3>3, <3>4
    <2>12. \A r \in Prefixes \ {p} : buckets'[r] \in {buckets[r], Absent}
      BY <2>9
    <2>13. from \in Nat
      BY <2>1
    <2> HIDE DEF p, left, g, from, fresh, b
    <2> QED
      BY <1>1, <1>3, <1>4, <2>2, <2>7, <2>8, <2>9, <2>11, <2>12, <2>13, LimitDecides
  <1> QED
    BY <1>5, <1>6 DEF Limiter!Allow

LEMMA LimitConfigures ==
  ASSUME LimitKeeps, Limiter!Configure
  PROVE  LimitKeeps'
  <1> DEFINE more == IF limit'.burst > limit.burst THEN limit'.burst - limit.burst ELSE 0
  <1>1. /\ limit' \in LimitConfigs /\ UNCHANGED <<switch, janitor, clock, asker>>
        /\ granted' = [p \in Prefixes |-> 0]
        /\ base' = [p \in Prefixes |-> IF buckets[p] = Absent THEN 0 ELSE buckets[p].last]
    BY DEF Limiter!Configure
  <1>2. limit'.burst \in Nat /\ limit'.rate \in Nat /\ limit.burst \in Nat /\ clock \in Nat
    BY <1>1, LimitFacts, PartsAssumption DEF PartsAssumption, LimitKeeps
  <1>3. more \in Nat
    BY <1>2
  <1>4. \A p \in Prefixes : buckets[p] # Absent => buckets[p] \in BucketRecord /\ buckets[p].last <= clock
    BY DEF LimitKeeps, Covers
  <1>5. ASSUME NEW p \in Prefixes
        PROVE  /\ buckets'[p] \in BucketRecord \cup {Absent}
               /\ buckets'[p] # Absent <=> buckets[p] # Absent
               /\ buckets'[p] # Absent => /\ buckets'[p].last = buckets[p].last
                                          /\ buckets'[p].tokens <= limit'.burst
    <2>1. buckets'[p] = IF buckets[p] = Absent THEN Absent
                        ELSE [buckets[p] EXCEPT !.tokens = Limiter!Least(limit'.burst, @ + more)]
      BY DEF Limiter!Configure
    <2>2. CASE buckets[p] = Absent
      BY <2>1, <2>2
    <2>3. CASE buckets[p] # Absent
      <3> DEFINE n == Limiter!Least(limit'.burst, buckets[p].tokens + more)
      <3>1. n \in Int /\ n <= limit'.burst
        <4>1. buckets[p].tokens \in Int
          BY <1>4, <2>3 DEF BucketRecord
        <4> HIDE DEF more
        <4> QED
          BY <1>2, <1>3, <4>1 DEF Limiter!Least
      <3>2. buckets'[p] = [buckets[p] EXCEPT !.tokens = n]
        BY <2>1, <2>3
      <3> HIDE DEF n
      <3>3. buckets'[p] \in BucketRecord /\ buckets'[p].last = buckets[p].last /\ buckets'[p].tokens = n
        BY <1>4, <2>3, <3>1, <3>2 DEF BucketRecord
      <3> QED
        BY <2>3, <3>1, <3>3, LimitFacts
    <2> QED
      BY <2>2, <2>3
  <1>6. buckets' \in [Prefixes -> BucketRecord \cup {Absent}]
    <2>1. buckets' = [p \in Prefixes |-> buckets'[p]]
      BY DEF Limiter!Configure
    <2> QED
      BY <1>5, <2>1
  <1>7. granted' \in [Prefixes -> Nat] /\ base' \in [Prefixes -> Nat]
    BY <1>1, <1>4 DEF BucketRecord
  <1>8. ASSUME NEW p \in Prefixes, buckets'[p] # Absent
        PROVE  Covers(limit', buckets'[p], granted'[p], base'[p], clock')
    <2>1. /\ buckets'[p].last = buckets[p].last /\ buckets'[p].tokens <= limit'.burst
          /\ buckets[p].last \in Nat /\ buckets[p].last <= clock /\ buckets[p] # Absent
          /\ buckets'[p].tokens \in Int
      BY <1>4, <1>5, <1>8 DEF BucketRecord
    <2>2. granted'[p] = 0 /\ base'[p] = buckets[p].last /\ clock' = clock
      BY <1>1, <2>1
    <2>3. limit'.rate * (buckets[p].last - buckets[p].last) = 0
      BY <1>2, <2>1
    <2>4. limit'.rate * (clock - buckets[p].last) >= 0 /\ limit'.rate * (clock - buckets[p].last) \in Int
      <3>1. \A r, a, c \in Int : r >= 0 /\ a >= c => r * (a - c) >= 0
        OBVIOUS
      <3> QED
        BY <1>2, <2>1, <3>1
    <2> QED
      BY <1>2, <2>1, <2>2, <2>3, <2>4 DEF Covers
  <1>9. Limiter!Held' = Limiter!Held
    BY <1>5 DEF Limiter!Held
  <1>10. Limiter!TableHolds'
    BY <1>1, <1>9 DEF LimitKeeps, Limiter!TableHolds
  <1>11. \A q \in Askers : asker'[q] # Absent => asker'[q].now <= clock'
    BY <1>1 DEF LimitKeeps
  <1> QED
    BY <1>1, <1>2, <1>6, <1>7, <1>8, <1>10, <1>11 DEF LimitKeeps

LEMMA LimitNext ==
  ASSUME LimitKeeps, Limiter!LimitNext
  PROVE  LimitKeeps'
  BY LimitSimple, LimitSweeps, LimitAllows, LimitConfigures DEF Limiter!LimitNext

LEMMA LimitGives ==
  ASSUME LimitKeeps
  PROVE  Limiter!RateHolds /\ Limiter!TableHolds
  <1>1. Limiter!TableHolds
    BY DEF LimitKeeps
  <1>2. \A p \in Limiter!Held : Covers(limit, buckets[p], granted[p], base[p], clock)
    BY DEF LimitKeeps, Limiter!Held
  <1>3. Limiter!RateHolds
    BY <1>2 DEF Limiter!RateHolds, Covers
  <1> QED
    BY <1>1, <1>3

-----------------------------------------------------------------------------
(* The bootstrap resolver.                                                 *)

LEMMA BootFacts ==
  /\ IsFiniteSet(BootServers) /\ "failed" \notin BootServers /\ Absent # "failed"
  /\ CooldownFailures \in Nat
  /\ \A c \in BootConfigs : c.servers \subseteq BootServers
  BY PartsAssumption DEF PartsAssumption

(* A plan made of all servers has every one of them.                       *)
LEMMA PlanHasAll ==
  ASSUME NEW S, IsFiniteSet(S), NEW plan \in Boot!SetToSeqs(S)
  PROVE  plan \in Seq(S) /\ \A s \in S : \E i \in DOMAIN plan : plan[i] = s
  <1> DEFINE n == Cardinality(S)
             D == 1..n
  <1>1. n \in Nat /\ IsFiniteSet(D) /\ Cardinality(D) = n
    <2>1. n \in Nat
      BY FS_CardinalityType
    <2>2. IsFiniteSet(D) /\ Cardinality(D) = IF 1 <= n THEN n - 1 + 1 ELSE 0
      BY <2>1, FS_Interval
    <2> QED
      BY <2>1, <2>2
  <1>2. plan \in [D -> S] /\ \A i, j \in D : i # j => plan[i] # plan[j]
    BY SameCardinality DEF Boot!SetToSeqs
  <1>3. plan \in Seq(S)
    BY <1>1, <1>2
  <1>4. plan \in Injection(D, S)
    BY <1>2 DEF Injection, IsInjective
  <1>5. plan \in Surjection(D, S)
    <2>1. ASSUME NEW f \in Injection(D, S)
          PROVE  f \in Surjection(D, S)
      BY <1>1, FS_Injection
    <2> QED
      BY <1>4, <2>1
  <1> QED
    BY <1>2, <1>3, <1>5 DEF Surjection

LEMMA BootUnchanged ==
  ASSUME BootKeeps, UNCHANGED bootVars
  PROVE  BootKeeps'
  BY DEF BootKeeps, bootVars, Boot!CoolMeansFailing

(* A dial at the beginning or at the end.                                  *)
LEMMA NoDialFacts ==
  /\ Boot!NoDial \in DialRecord /\ Boot!NoDial.at = "idle" /\ Boot!NoDial.asked = {}
  /\ Boot!NoDial.got = Absent /\ Boot!NoDial.servers = {} /\ Boot!NoDial.plan = <<>>
  BY DEF Boot!NoDial, DialRecord

LEMMA BootStarts ==
  ASSUME Boot!BootInit
  PROVE  BootKeeps
  <1>1. DialPlace(Boot!NoDial)
    BY NoDialFacts, BootFacts DEF DialPlace
  <1>2. dial \in [Dials -> DialRecord] /\ \A d \in Dials : dial[d] = Boot!NoDial
    BY NoDialFacts DEF Boot!BootInit
  <1>3. health \in [BootServers -> [fails: Nat, cool: BOOLEAN]]
    BY DEF Boot!BootInit
  <1>4. \A s \in BootServers : health[s].cool = FALSE
    BY DEF Boot!BootInit
  <1>5. Boot!CoolMeansFailing
    BY <1>4 DEF Boot!CoolMeansFailing
  <1>6. bootConf \in BootConfigs
    BY DEF Boot!BootInit
  <1> QED
    BY <1>1, <1>2, <1>3, <1>5, <1>6 DEF BootKeeps

(* A dial moves.                                                           *)
LEMMA DialMoves ==
  ASSUME BootKeeps, NEW d \in Dials, NEW r \in DialRecord, DialPlace(r),
         dial' = [dial EXCEPT ![d] = r], UNCHANGED <<bootConf, health>>
  PROVE  BootKeeps'
  <1>1. dial' \in [Dials -> DialRecord] /\ \A e \in Dials : dial'[e] = IF e = d THEN r ELSE dial[e]
    BY DEF BootKeeps
  <1>2. \A e \in Dials : DialPlace(dial'[e])
    BY <1>1 DEF BootKeeps
  <1> QED
    BY <1>1, <1>2 DEF BootKeeps, Boot!CoolMeansFailing

LEMMA BootReads ==
  ASSUME BootKeeps, NEW d \in Dials,
         Boot!ReadServers(d) \/ Boot!GetCached(d) \/ Boot!PutCached(d)
  PROVE  BootKeeps'
  <1> DEFINE ended == [Boot!NoDial EXCEPT !.at = "ended"]
             began == [Boot!NoDial EXCEPT !.at = "cache", !.servers = bootConf.servers]
             score == [dial[d] EXCEPT !.at = "score"]
  <1>1. UNCHANGED <<bootConf, health>>
    BY DEF Boot!ReadServers, Boot!GetCached, Boot!PutCached
  <1>2. ended \in DialRecord /\ DialPlace(ended)
    <2>1. ended \in DialRecord /\ ended.at = "ended" /\ ended.got = Absent
      BY NoDialFacts DEF DialRecord
    <2> HIDE DEF ended
    <2> QED
      BY <2>1, BootFacts DEF DialPlace
  <1>3. began \in DialRecord /\ DialPlace(began)
    <2>1. bootConf.servers \in SUBSET BootServers
      BY BootFacts DEF BootKeeps
    <2>2. began \in DialRecord /\ began.at = "cache" /\ began.got = Absent /\ began.asked = {}
      BY <2>1, NoDialFacts DEF DialRecord
    <2> HIDE DEF began
    <2> QED
      BY <2>2, BootFacts DEF DialPlace
  <1>4. dial[d].at = "cache" => score \in DialRecord /\ DialPlace(score)
    <2> HAVE dial[d].at = "cache"
    <2>1. dial[d] \in DialRecord /\ DialPlace(dial[d])
      BY DEF BootKeeps
    <2>2. score \in DialRecord /\ score.at = "score" /\ score.got = dial[d].got /\ score.asked = dial[d].asked
      BY <2>1 DEF DialRecord
    <2> HIDE DEF score
    <2> QED
      BY <2>1, <2>2 DEF DialPlace
  <1>5. \/ dial' = [dial EXCEPT ![d] = ended]
        \/ dial' = [dial EXCEPT ![d] = began]
        \/ dial[d].at = "cache" /\ dial' = [dial EXCEPT ![d] = score]
    BY DEF Boot!ReadServers, Boot!GetCached, Boot!PutCached
  <1> HIDE DEF ended, began, score
  <1> QED
    BY <1>1, <1>2, <1>3, <1>4, <1>5, DialMoves

LEMMA BootScores ==
  ASSUME BootKeeps, NEW d \in Dials, NEW s \in BootServers, Boot!GetScore(d, s)
  PROVE  BootKeeps'
  <1> DEFINE w == IF health[s].cool THEN dial[d].warm ELSE dial[d].warm \cup {s}
             r == [dial[d] EXCEPT !.scored = @ \cup {s}, !.warm = w]
  <1>1. dial[d] \in DialRecord /\ DialPlace(dial[d])
    BY DEF BootKeeps
  <1>2. w \in SUBSET BootServers
    BY <1>1 DEF DialRecord
  <1>3. dial' = [dial EXCEPT ![d] = r] /\ UNCHANGED <<bootConf, health>>
    BY DEF Boot!GetScore, BootKeeps
  <1> HIDE DEF w
  <1>4. /\ r \in DialRecord /\ r.at = dial[d].at /\ r.got = dial[d].got /\ r.asked = dial[d].asked
        /\ r.servers = dial[d].servers /\ r.plan = dial[d].plan
    BY <1>1, <1>2 DEF DialRecord
  <1> HIDE DEF r
  <1>5. DialPlace(r)
    BY <1>1, <1>4 DEF DialPlace
  <1> QED
    BY <1>3, <1>4, <1>5, DialMoves

LEMMA BootPlans ==
  ASSUME BootKeeps, NEW d \in Dials, Boot!ChoosePlan(d)
  PROVE  BootKeeps'
  <1>1. dial[d] \in DialRecord /\ DialPlace(dial[d]) /\ dial[d].at = "score"
    BY DEF BootKeeps, Boot!ChoosePlan
  <1> DEFINE S == dial[d].servers
  <1>2. PICK plan \in Boot!SetToSeqs(S) :
          /\ dial' = [dial EXCEPT ![d].at = "ask", ![d].plan = plan]
          /\ UNCHANGED <<bootConf, health>>
    BY DEF Boot!ChoosePlan
  <1> DEFINE r == [dial[d] EXCEPT !.at = "ask", !.plan = plan]
  <1>3. S \in SUBSET BootServers /\ IsFiniteSet(S)
    <2>1. S \in SUBSET BootServers
      BY <1>1 DEF DialRecord
    <2> QED
      BY <2>1, BootFacts, FS_Subset
  <1>4. plan \in Seq(S) /\ \A s \in S : \E i \in DOMAIN plan : plan[i] = s
    BY <1>2, <1>3, PlanHasAll
  <1>5. plan \in Seq(BootServers) /\ \A i \in DOMAIN plan : plan[i] \in S
    BY <1>3, <1>4
  <1>6. dial' = [dial EXCEPT ![d] = r]
    BY <1>2 DEF BootKeeps
  <1>7. /\ r \in DialRecord /\ r.at = "ask" /\ r.plan = plan /\ r.servers = S
        /\ r.asked = dial[d].asked /\ r.got = dial[d].got
    BY <1>1, <1>5 DEF DialRecord
  <1> HIDE DEF r, S
  <1>8. DialPlace(r)
    BY <1>1, <1>3, <1>4, <1>5, <1>7 DEF DialPlace
  <1> QED
    BY <1>2, <1>6, <1>7, <1>8, DialMoves

(* A server is asked: its record stays true, and it has left the plan.     *)
LEMMA BootAsks ==
  ASSUME BootKeeps, NEW d \in Dials, NEW ok \in BOOLEAN, Boot!QueryBootstrapDNS(d, ok)
  PROVE  BootKeeps'
  <1> DEFINE p == dial[d].plan
             s == Head(p)
             g == IF ok THEN s ELSE Absent
             r == [dial[d] EXCEPT !.plan = Tail(p), !.asked = @ \cup {s},
                                  !.at = IF ok THEN "put" ELSE "ask", !.got = g]
  <1>1. /\ dial[d] \in DialRecord /\ DialPlace(dial[d]) /\ dial[d].at = "ask"
        /\ p \in Seq(BootServers) /\ p # <<>>
    BY DEF BootKeeps, Boot!QueryBootstrapDNS, DialRecord
  <1>2. /\ s \in BootServers /\ Tail(p) \in Seq(BootServers) /\ s = p[1]
        /\ Len(Tail(p)) = Len(p) - 1 /\ Len(p) \in Nat /\ Len(p) > 0
        /\ \A i \in 1..Len(Tail(p)) : Tail(p)[i] = p[i + 1]
    BY <1>1
  <1>3. \A x \in BootServers : (\E i \in DOMAIN p : p[i] = x) <=> x = s \/ \E i \in DOMAIN Tail(p) : Tail(p)[i] = x
    <2>1. DOMAIN p = 1..Len(p) /\ DOMAIN Tail(p) = 1..Len(Tail(p))
      BY <1>1, <1>2
    <2>2. ASSUME NEW i \in 1..Len(p)
          PROVE  i = 1 \/ (i - 1 \in 1..Len(Tail(p)) /\ Tail(p)[i - 1] = p[i])
      <3>1. i # 1 => i - 1 \in 1..Len(Tail(p)) /\ (i - 1) + 1 = i
        BY <1>2
      <3> QED
        BY <1>2, <3>1
    <2>3. ASSUME NEW i \in 1..Len(Tail(p))
          PROVE  i + 1 \in 1..Len(p) /\ p[i + 1] = Tail(p)[i]
      BY <1>2
    <2>4. 1 \in 1..Len(p)
      BY <1>2
    <2> HIDE DEF p, s
    <2> QED
      BY <1>2, <2>1, <2>2, <2>3, <2>4
  <1>4. dial' = [dial EXCEPT ![d] = r] /\ bootConf' = bootConf
    BY DEF Boot!QueryBootstrapDNS, BootKeeps
  <1>5. g \in BootServers \cup {Absent} /\ g # "failed" /\ (ok => g \in BootServers)
    BY <1>2, BootFacts
  <1> HIDE DEF g, s, p
  <1>6. /\ r \in DialRecord /\ r.at = (IF ok THEN "put" ELSE "ask") /\ r.plan = Tail(p)
        /\ r.asked = dial[d].asked \cup {s} /\ r.got = g /\ r.servers = dial[d].servers
    BY <1>1, <1>2, <1>5 DEF DialRecord
  <1>7. r.at = "put" => r.got \in BootServers
    BY <1>5, <1>6
  <1>8. \A x \in BootServers : x \in dial[d].servers <=> x \in dial[d].asked \/ \E i \in DOMAIN p : p[i] = x
    BY <1>1 DEF DialPlace, p
  <1> HIDE DEF r
  <1>9. DialPlace(r)
    <2>1. \A x \in BootServers : x \in r.servers <=> x \in r.asked \/ \E i \in DOMAIN r.plan : r.plan[i] = x
      BY <1>3, <1>6, <1>8
    <2>2. r.at \notin {"cache", "score"} /\ r.got # "failed"
      BY <1>5, <1>6
    <2> QED
      BY <1>7, <2>1, <2>2 DEF DialPlace
  <1>10. dial' \in [Dials -> DialRecord] /\ \A e \in Dials : DialPlace(dial'[e])
    BY <1>4, <1>6, <1>9 DEF BootKeeps
  <1>11. health' \in [BootServers -> [fails: Nat, cool: BOOLEAN]] /\ Boot!CoolMeansFailing'
    <2> DEFINE h == health[s]
               f == IF h.fails < CooldownFailures THEN h.fails + 1 ELSE h.fails
               c == h.cool \/ h.fails + 1 >= CooldownFailures
               n == IF ok THEN [fails |-> 0, cool |-> FALSE] ELSE [fails |-> f, cool |-> c]
    <2>1. health' = [health EXCEPT ![s] = n]
      BY <1>2 DEF Boot!QueryBootstrapDNS, Boot!RecordResult, BootKeeps, s, p
    <2>2. h.fails \in Nat /\ h.cool \in BOOLEAN /\ (h.cool => h.fails >= CooldownFailures)
      BY <1>2 DEF BootKeeps, Boot!CoolMeansFailing
    <2>3. f \in Nat /\ (c => f >= CooldownFailures) /\ c \in BOOLEAN
      BY <2>2, BootFacts
    <2> HIDE DEF f, c, h
    <2>4. n \in [fails: Nat, cool: BOOLEAN] /\ (n.cool => n.fails >= CooldownFailures)
      BY <2>3
    <2> HIDE DEF n
    <2>5. health' \in [BootServers -> [fails: Nat, cool: BOOLEAN]]
      BY <1>2, <2>1, <2>4 DEF BootKeeps
    <2>6. ASSUME NEW x \in BootServers, health'[x].cool
          PROVE  health'[x].fails >= CooldownFailures
      BY <1>2, <2>1, <2>4, <2>6 DEF BootKeeps, Boot!CoolMeansFailing
    <2> QED
      BY <2>5, <2>6 DEF Boot!CoolMeansFailing
  <1> QED
    BY <1>4, <1>10, <1>11 DEF BootKeeps

LEMMA BootFails ==
  ASSUME BootKeeps, NEW d \in Dials, NEW expired \in BOOLEAN, Boot!ResolutionFails(d, expired)
  PROVE  BootKeeps'
  <1> DEFINE g == IF expired THEN "expired" ELSE "failed"
             r == [dial[d] EXCEPT !.at = "ended", !.got = g]
  <1>1. dial[d] \in DialRecord /\ DialPlace(dial[d]) /\ dial[d].at = "ask"
    BY DEF BootKeeps, Boot!ResolutionFails
  <1>2. dial' = [dial EXCEPT ![d] = r] /\ UNCHANGED <<bootConf, health>>
    BY DEF Boot!ResolutionFails, BootKeeps
  <1>3. g = "failed" => dial[d].plan = <<>>
    BY DEF Boot!ResolutionFails
  <1>4. g \in {"expired", "failed"}
    OBVIOUS
  <1> HIDE DEF g
  <1>5. r \in DialRecord /\ r.at = "ended" /\ r.got = g /\ r.asked = dial[d].asked /\ r.servers = dial[d].servers
    BY <1>1, <1>4 DEF DialRecord
  <1>6. ASSUME g = "failed" PROVE dial[d].asked = dial[d].servers
    <2>1. DOMAIN dial[d].plan = {}
      BY <1>3, <1>6
    <2>2. dial[d].asked \subseteq BootServers /\ dial[d].servers \subseteq BootServers
      BY <1>1 DEF DialRecord
    <2> QED
      BY <1>1, <2>1, <2>2 DEF DialPlace
  <1> HIDE DEF r
  <1>7. DialPlace(r)
    BY <1>5, <1>6 DEF DialPlace
  <1> QED
    BY <1>2, <1>5, <1>7, DialMoves

LEMMA BootConfigures ==
  ASSUME BootKeeps,
         \/ Boot!UpdateServers \/ Boot!DropCache \/ Boot!AddressExpires
         \/ \E s \in BootServers : Boot!CooldownEnds(s)
  PROVE  BootKeeps'
  <1>1. CASE Boot!UpdateServers \/ Boot!DropCache \/ Boot!AddressExpires
    <2>1. UNCHANGED <<health, dial>> /\ bootConf' \in BootConfigs
      BY <1>1 DEF Boot!UpdateServers, Boot!DropCache, Boot!AddressExpires, BootKeeps
    <2> QED
      BY <2>1 DEF BootKeeps, Boot!CoolMeansFailing
  <1>2. ASSUME NEW s \in BootServers, Boot!CooldownEnds(s)
        PROVE  BootKeeps'
    <2>1. UNCHANGED <<bootConf, dial>> /\ health' = [health EXCEPT ![s].cool = FALSE]
      BY <1>2 DEF Boot!CooldownEnds
    <2>2. health' \in [BootServers -> [fails: Nat, cool: BOOLEAN]]
      BY <2>1 DEF BootKeeps
    <2>3. \A x \in BootServers : health'[x].fails = health[x].fails /\ (health'[x].cool => health[x].cool)
      BY <2>1 DEF BootKeeps
    <2> QED
      BY <2>1, <2>2, <2>3 DEF BootKeeps, Boot!CoolMeansFailing
  <1> QED
    BY <1>1, <1>2

LEMMA BootNext ==
  ASSUME BootKeeps, Boot!BootNext
  PROVE  BootKeeps'
  BY BootReads, BootScores, BootPlans, BootAsks, BootFails, BootConfigures DEF Boot!BootNext

LEMMA BootGives ==
  ASSUME BootKeeps
  PROVE  Boot!FailedMeansAllAsked /\ Boot!CoolMeansFailing
  BY DEF BootKeeps, Boot!FailedMeansAllAsked, DialPlace

-----------------------------------------------------------------------------
(* The names of clients.                                                   *)

LEMMA ClientFacts ==
  /\ IsFiniteSet(Ips) /\ IsFiniteSet(Slots) /\ MaxClientCache \in Nat
  /\ Absent \notin LookupRecord /\ Absent \notin [name: {"rdns", "none"}, fresh: BOOLEAN]
  BY PartsAssumption DEF PartsAssumption, LookupRecord

LEMMA ClientUnchanged ==
  ASSUME ClientKeeps, UNCHANGED clientVars
  PROVE  ClientKeeps'
  BY DEF ClientKeeps, clientVars, Looking, Client!NamesBounded, Client!Cached

LEMMA ClientStarts ==
  ASSUME Client!TrackInit
  PROVE  ClientKeeps
  <1>1. Client!Cached = {}
    BY DEF Client!TrackInit, Client!Cached
  <1>2. Client!NamesBounded
    BY <1>1, ClientFacts, SameCardinality, FS_EmptySet DEF Client!NamesBounded
  <1>3. asked \in [Namings -> [at: {"idle", "alias", "local", "cache", "launch", "update"},
                               ip: Ips \cup {Absent}, name: Client!Sources \cup {Absent}]]
    BY DEF Client!TrackInit, Client!Idle
  <1>4. \A q \in Namings : asked[q].at = "idle"
    BY DEF Client!TrackInit, Client!Idle
  <1>5. \A s \in Slots : ~Looking(s)
    BY DEF Client!TrackInit, Looking
  <1>6. slot \in [Slots -> LookupRecord \cup {Absent}] /\ inFlight = {}
    BY DEF Client!TrackInit
  <1>7. names \in [Ips -> [name: {"rdns", "none"}, fresh: BOOLEAN] \cup {Absent}]
    BY DEF Client!TrackInit
  <1> QED
    BY <1>2, <1>3, <1>4, <1>5, <1>6, <1>7 DEF ClientKeeps

NamingRecord ==
  {r \in [at: {"idle", "alias", "local", "cache", "launch", "update"},
          ip: Ips \cup {Absent}, name: Client!Sources \cup {Absent}] :
     r.at # "idle" => r.ip \in Ips}

LEMMA NamingIsRecord ==
  ASSUME ClientKeeps, NEW q \in Namings
  PROVE  asked[q] \in NamingRecord
  BY DEF ClientKeeps, NamingRecord

(* A query goes on, and the tables stay.                                   *)
LEMMA NamingMoves ==
  ASSUME ClientKeeps, NEW q \in Namings, NEW r \in NamingRecord,
         asked' = [asked EXCEPT ![q] = r], UNCHANGED <<names, inFlight, slot>>
  PROVE  ClientKeeps'
  <1>1. /\ asked' \in [Namings -> [at: {"idle", "alias", "local", "cache", "launch", "update"},
                                   ip: Ips \cup {Absent}, name: Client!Sources \cup {Absent}]]
        /\ \A k \in Namings : asked'[k].at # "idle" => asked'[k].ip \in Ips
    BY DEF ClientKeeps, NamingRecord
  <1> QED
    BY <1>1 DEF ClientKeeps, Looking, Client!NamesBounded, Client!Cached

LEMMA IdleIsRecord == Client!Idle \in NamingRecord
  BY DEF Client!Idle, NamingRecord

LEMMA NamingGoes ==
  ASSUME ClientKeeps, NEW q \in Namings, asked[q].at # "idle",
         NEW place \in {"local", "cache", "launch", "update"},
         NEW name \in Client!Sources \cup {Absent}, Client!Goes(q, place, name),
         UNCHANGED <<names, inFlight, slot>>
  PROVE  ClientKeeps'
  <1> DEFINE r == [asked[q] EXCEPT !.at = place, !.name = name]
  <1>1. asked[q] \in NamingRecord
    BY NamingIsRecord
  <1>2. r \in NamingRecord
    BY <1>1 DEF NamingRecord
  <1>3. asked' = [asked EXCEPT ![q] = r]
    BY DEF Client!Goes, ClientKeeps
  <1> HIDE DEF r
  <1> QED
    BY <1>2, <1>3, NamingMoves

LEMMA ClientQueries ==
  ASSUME ClientKeeps, NEW q \in Namings,
         \/ \E ip \in Ips : Client!Count(q, ip)
         \/ Client!ReadAlias(q) \/ Client!LookupReverse(q) \/ Client!ReadCache(q)
         \/ Client!UpdateInfoName(q)
  PROVE  ClientKeeps'
  <1>1. UNCHANGED <<names, inFlight, slot>>
    BY DEF Client!Count, Client!ReadAlias, Client!LookupReverse, Client!ReadCache, Client!UpdateInfoName
  <1>2. CASE asked' = [asked EXCEPT ![q] = Client!Idle]
    BY <1>1, <1>2, IdleIsRecord, NamingMoves
  <1>3. CASE \E ip \in Ips : Client!Count(q, ip)
    <2>1. PICK ip \in Ips : Client!Count(q, ip)
      BY <1>3
    <2> DEFINE r == [at |-> "alias", ip |-> ip, name |-> Absent]
    <2>2. r \in NamingRecord
      BY DEF NamingRecord
    <2>3. asked' = [asked EXCEPT ![q] = r] \/ asked' = [asked EXCEPT ![q] = Client!Idle]
      BY <2>1 DEF Client!Count
    <2> HIDE DEF r
    <2> QED
      BY <1>1, <1>2, <2>2, <2>3, NamingMoves
  <1>4. CASE Client!ReadAlias(q)
    <2>1. asked[q].at # "idle" /\ (Client!Goes(q, "update", "alias") \/ Client!Goes(q, "local", Absent))
      BY <1>4 DEF Client!ReadAlias
    <2>2. "alias" \in Client!Sources
      BY DEF Client!Sources
    <2> QED
      BY <1>1, <2>1, <2>2, NamingGoes
  <1>5. CASE Client!LookupReverse(q)
    <2>1. asked[q].at # "idle" /\ (Client!Goes(q, "update", "hosts") \/ Client!Goes(q, "cache", Absent))
      BY <1>5 DEF Client!LookupReverse
    <2>2. "hosts" \in Client!Sources
      BY DEF Client!Sources
    <2> QED
      BY <1>1, <2>1, <2>2, NamingGoes
  <1>6. CASE Client!ReadCache(q)
    <2> DEFINE n == names[asked[q].ip]
    <2>1. asked[q].at # "idle" /\ asked[q].ip \in Ips
      BY <1>6 DEF Client!ReadCache, ClientKeeps
    <2>2. n = Absent \/ n.name \in Client!Sources
      BY <2>1 DEF ClientKeeps, Client!Sources
    <2>3. \/ Client!Goes(q, "launch", Absent)
          \/ n # Absent /\ (Client!Goes(q, "launch", n.name) \/ Client!Goes(q, "update", n.name))
          \/ asked' = [asked EXCEPT ![q] = Client!Idle]
      BY <1>6 DEF Client!ReadCache, Client!Ends
    <2> HIDE DEF n
    <2> QED
      BY <1>1, <1>2, <2>1, <2>2, <2>3, NamingGoes
  <1>7. CASE Client!UpdateInfoName(q)
    BY <1>2, <1>7 DEF Client!UpdateInfoName, Client!Ends
  <1> QED
    BY <1>3, <1>4, <1>5, <1>6, <1>7

(* The mark and the slot are taken together.                               *)
LEMMA ClientLaunches ==
  ASSUME ClientKeeps, NEW q \in Namings, Client!Launch(q)
  PROVE  ClientKeeps'
  <1> DEFINE i == asked[q].ip
             r == [ip |-> i, at |-> "asking"]
  <1>1. asked' = [asked EXCEPT ![q] = Client!Idle] /\ UNCHANGED names
    BY DEF Client!Launch, Client!Ends
  <1>2. CASE UNCHANGED <<inFlight, slot>>
    BY <1>1, <1>2, IdleIsRecord, NamingMoves
  <1>3. ASSUME NEW s \in Slots, slot[s] = Absent, i \notin inFlight, inFlight' = inFlight \cup {i},
               slot' = [slot EXCEPT ![s] = r]
        PROVE  ClientKeeps'
    <2>1. i \in Ips
      BY DEF Client!Launch, ClientKeeps
    <2>2. r \in LookupRecord /\ r # Absent /\ r.ip = i /\ r.at = "asking"
      BY <2>1, ClientFacts DEF LookupRecord
    <2>3. /\ asked' \in [Namings -> [at: {"idle", "alias", "local", "cache", "launch", "update"},
                                     ip: Ips \cup {Absent}, name: Client!Sources \cup {Absent}]]
          /\ \A k \in Namings : asked'[k].at # "idle" => asked'[k].ip \in Ips
      BY <1>1, IdleIsRecord DEF ClientKeeps, NamingRecord
    <2> HIDE DEF r, i
    <2>4. /\ slot' \in [Slots -> LookupRecord \cup {Absent}]
          /\ \A t \in Slots : slot'[t] = IF t = s THEN r ELSE slot[t]
      BY <1>3, <2>2 DEF ClientKeeps
    <2>5. /\ \A t \in Slots : Looking(t)' <=> t = s \/ Looking(t)
          /\ \A t \in Slots : Looking(t) => t # s
      BY <1>3, <2>2, <2>4 DEF Looking
    <2>6. \A t \in Slots : Looking(t)' => slot'[t].ip \in inFlight'
      BY <1>3, <2>2, <2>4, <2>5 DEF ClientKeeps
    <2>7. \A t, u \in Slots : Looking(t)' /\ Looking(u)' /\ slot'[t].ip = slot'[u].ip => t = u
      BY <1>3, <2>2, <2>4, <2>5 DEF ClientKeeps
    <2>8. \A j \in inFlight' : \E t \in Slots : Looking(t)' /\ slot'[t].ip = j
      BY <1>3, <2>2, <2>4, <2>5 DEF ClientKeeps
    <2>9. inFlight' \subseteq Ips
      BY <1>3, <2>1 DEF ClientKeeps
    <2>10. Client!NamesBounded'
      BY <1>1 DEF ClientKeeps, Client!NamesBounded, Client!Cached
    <2> QED
      BY <1>1, <2>3, <2>4, <2>6, <2>7, <2>8, <2>9, <2>10 DEF ClientKeeps
  <1> QED
    BY <1>2, <1>3 DEF Client!Launch

(* A lookup ends in three steps.                                           *)
LEMMA ClientStores ==
  ASSUME ClientKeeps, NEW s \in Slots, Client!Store(s)
  PROVE  ClientKeeps'
  <1> DEFINE i == slot[s].ip
             C == Client!Cached
  <1>1. slot[s] \in LookupRecord /\ slot[s].at = "asking" /\ i \in Ips
    BY DEF Client!Store, ClientKeeps, LookupRecord
  <1>2. slot' = [slot EXCEPT ![s].at = "stored"] /\ UNCHANGED <<inFlight, asked>>
    BY DEF Client!Store
  <1>3. PICK name \in {"rdns", "none"}, out \in Client!Evicted :
          names' = [x \in Ips |-> IF x = i THEN [name |-> name, fresh |-> TRUE]
                                  ELSE IF x \in out THEN Absent ELSE names[x]]
    BY DEF Client!Store
  <1>4. /\ [name |-> name, fresh |-> TRUE] \in [name: {"rdns", "none"}, fresh: BOOLEAN]
        /\ [name |-> name, fresh |-> TRUE] # Absent
    <2>1. [name |-> name, fresh |-> TRUE] \in [name: {"rdns", "none"}, fresh: BOOLEAN]
      OBVIOUS
    <2> QED
      BY <2>1, ClientFacts
  <1>5. names' \in [Ips -> [name: {"rdns", "none"}, fresh: BOOLEAN] \cup {Absent}]
    BY <1>3, <1>4 DEF ClientKeeps
  <1>6. Client!Cached' = (C \ out) \cup {i}
    BY <1>1, <1>3, <1>4 DEF Client!Cached
  <1>7. IsFiniteSet(C) /\ Cardinality(C) <= MaxClientCache /\ Cardinality(C) \in Nat
    <2>1. C \subseteq Ips /\ Cardinality(C) <= MaxClientCache
      BY SameCardinality DEF Client!Cached, ClientKeeps, Client!NamesBounded
    <2> QED
      BY <2>1, ClientFacts, FS_Subset, FS_CardinalityType
  <1>8. (Cardinality(C) < MaxClientCache /\ out = {}) \/ \E x \in C : out = {x}
    BY <1>3, SameCardinality DEF Client!Evicted
  <1> HIDE DEF C, i
  <1>9. Cardinality(Client!Cached') <= MaxClientCache
    <2>1. CASE Cardinality(C) < MaxClientCache /\ out = {}
      <3>1. Client!Cached' = C \cup {i}
        BY <1>6, <2>1
      <3> QED
        BY <1>7, <2>1, <3>1, ClientFacts, AddedIsNoLarger
    <2>2. ASSUME NEW x \in C, out = {x}
          PROVE  Cardinality(Client!Cached') <= MaxClientCache
      <3>1. Client!Cached' = (C \ {x}) \cup {i}
        BY <1>6, <2>2
      <3> QED
        BY <1>7, <3>1, ClientFacts, ReplacedIsNoLarger
    <2> QED
      BY <1>8, <2>1, <2>2
  <1>10. Client!NamesBounded'
    BY <1>9, SameCardinality DEF Client!NamesBounded
  <1>11. /\ slot' \in [Slots -> LookupRecord \cup {Absent}]
         /\ slot'[s] \in LookupRecord /\ slot'[s].ip = slot[s].ip /\ slot'[s].at = "stored"
         /\ \A t \in Slots : t # s => slot'[t] = slot[t]
    BY <1>1, <1>2 DEF ClientKeeps, LookupRecord
  <1>12. \A t \in Slots : (Looking(t)' <=> Looking(t)) /\ (Looking(t) => slot'[t].ip = slot[t].ip)
    BY <1>1, <1>11, ClientFacts DEF Looking
  <1> QED
    BY <1>2, <1>5, <1>10, <1>11, <1>12 DEF ClientKeeps

LEMMA ClientUnmarks ==
  ASSUME ClientKeeps, NEW s \in Slots, Client!Unmark(s) \/ Client!ReleaseSlot(s)
  PROVE  ClientKeeps'
  <1>1. slot[s] \in LookupRecord /\ UNCHANGED <<names, asked>>
    BY DEF Client!Unmark, Client!ReleaseSlot, ClientKeeps
  <1>2. Client!NamesBounded'
    BY <1>1 DEF ClientKeeps, Client!NamesBounded, Client!Cached
  <1>3. CASE Client!Unmark(s)
    <2>1. /\ slot[s].at = "stored" /\ inFlight' = inFlight \ {slot[s].ip}
          /\ slot' = [slot EXCEPT ![s].at = "done"]
      BY <1>3 DEF Client!Unmark
    <2>2. /\ slot' \in [Slots -> LookupRecord \cup {Absent}] /\ slot'[s].at = "done"
          /\ \A t \in Slots : t # s => slot'[t] = slot[t]
      BY <1>1, <2>1 DEF ClientKeeps, LookupRecord
    <2>3. Looking(s) /\ ~Looking(s)' /\ \A t \in Slots : t # s => (Looking(t)' <=> Looking(t))
      BY <1>1, <2>1, <2>2, ClientFacts DEF Looking
    <2>4. \A t \in Slots : Looking(t)' => slot'[t].ip \in inFlight'
      BY <2>1, <2>2, <2>3 DEF ClientKeeps
    <2>5. \A t, u \in Slots : Looking(t)' /\ Looking(u)' /\ slot'[t].ip = slot'[u].ip => t = u
      BY <2>2, <2>3 DEF ClientKeeps
    <2>6. \A j \in inFlight' : \E t \in Slots : Looking(t)' /\ slot'[t].ip = j
      BY <2>1, <2>2, <2>3 DEF ClientKeeps
    <2> QED
      BY <1>1, <1>2, <2>1, <2>2, <2>4, <2>5, <2>6 DEF ClientKeeps
  <1>4. CASE Client!ReleaseSlot(s)
    <2>1. slot[s].at = "done" /\ inFlight' = inFlight /\ slot' = [slot EXCEPT ![s] = Absent]
      BY <1>4 DEF Client!ReleaseSlot
    <2>2. /\ slot' \in [Slots -> LookupRecord \cup {Absent}] /\ slot'[s] = Absent
          /\ \A t \in Slots : t # s => slot'[t] = slot[t]
      BY <2>1 DEF ClientKeeps
    <2>3. \A t \in Slots : (Looking(t)' <=> Looking(t)) /\ (Looking(t) => slot'[t] = slot[t])
      BY <2>1, <2>2 DEF Looking
    <2> QED
      BY <1>1, <1>2, <2>1, <2>2, <2>3 DEF ClientKeeps
  <1> QED
    BY <1>3, <1>4

LEMMA ClientExpires ==
  ASSUME ClientKeeps, NEW ip \in Ips, Client!SetAlias(ip) \/ Client!NameExpires(ip)
  PROVE  ClientKeeps'
  <1>1. UNCHANGED <<inFlight, slot, asked>>
    BY DEF Client!SetAlias, Client!NameExpires
  <1>2. CASE UNCHANGED names
    BY <1>1, <1>2 DEF ClientKeeps, Looking, Client!NamesBounded, Client!Cached
  <1>3. CASE Client!NameExpires(ip)
    <2>1. names[ip] # Absent /\ names' = [names EXCEPT ![ip].fresh = FALSE]
      BY <1>3 DEF Client!NameExpires
    <2>2. names[ip] \in [name: {"rdns", "none"}, fresh: BOOLEAN]
      BY <2>1 DEF ClientKeeps
    <2>3. /\ names' \in [Ips -> [name: {"rdns", "none"}, fresh: BOOLEAN] \cup {Absent}]
          /\ names'[ip] \in [name: {"rdns", "none"}, fresh: BOOLEAN]
          /\ \A x \in Ips : x # ip => names'[x] = names[x]
      BY <2>1, <2>2 DEF ClientKeeps
    <2>4. Client!Cached' = Client!Cached
      BY <2>1, <2>3, ClientFacts DEF Client!Cached
    <2>5. Client!NamesBounded'
      BY <2>4 DEF ClientKeeps, Client!NamesBounded
    <2> QED
      BY <1>1, <2>3, <2>5 DEF ClientKeeps, Looking
  <1> QED
    BY <1>2, <1>3 DEF Client!SetAlias

LEMMA ClientNext ==
  ASSUME ClientKeeps, Client!TrackNext
  PROVE  ClientKeeps'
  BY ClientQueries, ClientLaunches, ClientStores, ClientUnmarks, ClientExpires DEF Client!TrackNext

LEMMA ClientGives ==
  ASSUME ClientKeeps
  PROVE  Client!MarkedIsRunning /\ Client!NamesBounded
  <1>1. ASSUME NEW i \in Ips
        PROVE  Client!Cardinality({s \in Slots : slot[s] # Absent /\ slot[s].ip = i /\ slot[s].at # "done"})
                 = IF i \in inFlight THEN 1 ELSE 0
    <2> DEFINE S == {s \in Slots : slot[s] # Absent /\ slot[s].ip = i /\ slot[s].at # "done"}
    <2>1. S = {s \in Slots : Looking(s) /\ slot[s].ip = i}
      BY DEF Looking
    <2>2. ASSUME i \notin inFlight PROVE Cardinality(S) = 0
      <3>1. S = {}
        BY <2>1, <2>2 DEF ClientKeeps
      <3> QED
        BY <3>1, FS_EmptySet
    <2>3. ASSUME i \in inFlight PROVE Cardinality(S) = 1
      <3>1. PICK s \in Slots : Looking(s) /\ slot[s].ip = i
        BY <2>3 DEF ClientKeeps
      <3>2. S = {s}
        BY <2>1, <3>1 DEF ClientKeeps
      <3> QED
        BY <3>2, FS_Singleton
    <2>4. Cardinality(S) = IF i \in inFlight THEN 1 ELSE 0
      BY <2>2, <2>3
    <2>5. Client!Cardinality(S) = Cardinality(S)
      BY SameCardinality
    <2> HIDE DEF S
    <2>6. Client!Cardinality(S) = IF i \in inFlight THEN 1 ELSE 0
      BY <2>4, <2>5
    <2> QED
      BY <2>6 DEF S
  <1>2. Client!MarkedIsRunning
    BY <1>1 DEF Client!MarkedIsRunning
  <1> QED
    BY <1>2 DEF ClientKeeps

-----------------------------------------------------------------------------
(* The console.                                                            *)

ServerRecord == [addr: Addresses, state: {"listening", "shut"}]

LEMMA WebUnchanged ==
  ASSUME WebKeeps, UNCHANGED webVars
  PROVE  WebKeeps'
  BY DEF WebKeeps, webVars, Web!ConsoleFollowsConfig, Web!Busy, Web!Listening, Replacing, Replaces

LEMMA WebStarts ==
  ASSUME Web!WebInit
  PROVE  WebKeeps
  <1> DEFINE r == [addr |-> webCfg, state |-> "listening"]
  <1>1. webCfg \in Addresses /\ servers = <<r>> /\ ipcServer = 1 /\ overlap = FALSE /\ bindFaults = 0
    BY DEF Web!WebInit
  <1>2. r \in ServerRecord /\ r.state = "listening" /\ r.addr = webCfg
    BY <1>1 DEF ServerRecord
  <1> HIDE DEF r
  <1>3. servers \in Seq(ServerRecord) /\ DOMAIN servers = {1} /\ servers[1] = r
    BY <1>1, <1>2
  <1>4. Web!Listening = {1}
    BY <1>2, <1>3 DEF Web!Listening
  <1>5. Web!NewTask \in TaskRecord /\ Web!NewTask.pc = "idle"
    <2>1. (CHOOSE a \in Addresses : TRUE) \in Addresses
      BY <1>1
    <2> QED
      BY <2>1 DEF Web!NewTask, TaskRecord
  <1>6. task \in [Tasks -> TaskRecord] /\ \A t \in Tasks : task[t] = Web!NewTask
    BY <1>5 DEF Web!WebInit
  <1>7. Web!Busy = {}
    BY <1>5, <1>6 DEF Web!Busy
  <1>8. Web!ConsoleFollowsConfig
    BY <1>1, <1>2, <1>3, <1>4 DEF Web!ConsoleFollowsConfig
  <1>9. servers \in Seq([addr: Addresses, state: {"listening", "shut"}])
    BY <1>3 DEF ServerRecord
  <1> QED
    BY <1>1, <1>6, <1>7, <1>8, <1>9 DEF WebKeeps

(* A call that is the only one makes a step and goes to the record r.      *)
LEMMA TaskMoves ==
  ASSUME WebKeeps, NEW t \in Tasks, t \in Web!Busy, NEW r \in TaskRecord, r.pc # "idle",
         task' = [task EXCEPT ![t] = r],
         servers' \in Seq([addr: Addresses, state: {"listening", "shut"}]),
         bindFaults' \in Nat, bindFaults' = 0 => bindFaults = 0, ipcServer' \in Nat,
         UNCHANGED <<webCfg, overlap>>,
         ~overlap /\ bindFaults' = 0 /\ Replacing(task[t]) =>
           IF r.pc = "done" THEN Web!Listening' = {ipcServer'} /\ servers'[ipcServer'].addr = webCfg
           ELSE Replaces(r, webCfg', Web!Listening', ipcServer', servers')
  PROVE  WebKeeps'
  <1>1. task' \in [Tasks -> TaskRecord] /\ \A u \in Tasks : task'[u] = IF u = t THEN r ELSE task[u]
    BY DEF WebKeeps
  <1>2. Web!Busy' = IF r.pc = "done" THEN Web!Busy \ {t} ELSE Web!Busy
    BY <1>1 DEF Web!Busy
  <1>3. ASSUME ~overlap', bindFaults' = 0
        PROVE  /\ \A u \in Web!Busy : u = t
               /\ IF r.pc = "done" THEN Web!Listening' = {ipcServer'} /\ servers'[ipcServer'].addr = webCfg
                  ELSE Replaces(r, webCfg', Web!Listening', ipcServer', servers')
    <2>1. ~overlap /\ bindFaults = 0
      BY <1>3
    <2>2. (\A u, v \in Web!Busy : u = v) /\ Replacing(task[t])
      BY <2>1 DEF WebKeeps
    <2> QED
      BY <1>3, <2>1, <2>2
  <1>4. Web!ConsoleFollowsConfig'
    BY <1>2, <1>3 DEF Web!ConsoleFollowsConfig
  <1>5. ASSUME ~overlap', bindFaults' = 0
        PROVE  /\ \A u, v \in Web!Busy' : u = v
               /\ \A u \in Web!Busy' : Replacing(task[u])'
    <2>1. \A u \in Web!Busy' : u = t /\ r.pc # "done"
      BY <1>2, <1>3, <1>5
    <2> QED
      BY <1>1, <1>3, <1>5, <2>1 DEF Replacing
  <1> QED
    BY <1>1, <1>4, <1>5 DEF WebKeeps

LEMMA WebConfigures ==
  ASSUME WebKeeps, NEW t \in Tasks, NEW a \in Addresses, Web!ConfigureWeb(t, a)
  PROVE  WebKeeps'
  <1> DEFINE m == a # webCfg
             r == [pc |-> "capture", old |-> 0, addr |-> a, moved |-> m]
  <1>1. /\ task[t].pc = "idle" /\ webCfg' = a /\ overlap' = (overlap \/ Web!Busy # {})
        /\ task' = [task EXCEPT ![t] = r] /\ UNCHANGED <<servers, ipcServer, bindFaults>>
    BY DEF Web!ConfigureWeb
  <1>2. m \in BOOLEAN
    OBVIOUS
  <1>3. m \/ a = webCfg
    OBVIOUS
  <1> HIDE DEF m
  <1>4. r \in TaskRecord /\ r.pc = "capture" /\ r.addr = a /\ r.moved = m
    BY <1>2 DEF TaskRecord
  <1> HIDE DEF r
  <1>5. task' \in [Tasks -> TaskRecord] /\ \A u \in Tasks : task'[u] = IF u = t THEN r ELSE task[u]
    BY <1>1, <1>4 DEF WebKeeps
  <1>6. Web!Busy' = Web!Busy \cup {t} /\ Web!Listening' = Web!Listening
    BY <1>1, <1>4, <1>5 DEF Web!Busy, Web!Listening
  <1>7. ASSUME ~overlap', bindFaults' = 0
        PROVE  /\ \A u, v \in Web!Busy' : u = v
               /\ \A u \in Web!Busy' : Replacing(task[u])'
    <2>1. Web!Busy = {} /\ ~overlap /\ bindFaults = 0
      BY <1>1, <1>7
    <2>2. Web!Listening = {ipcServer} /\ servers[ipcServer].addr = webCfg
      BY <2>1 DEF WebKeeps, Web!ConsoleFollowsConfig
    <2>3. Web!Listening' = {ipcServer'} /\ (r.moved \/ servers'[ipcServer'].addr = webCfg')
      BY <1>1, <1>3, <1>4, <1>6, <2>2
    <2>4. Replaces(r, webCfg', Web!Listening', ipcServer', servers')
      BY <1>1, <1>4, <2>3 DEF Replacing, Replaces
    <2>5. Web!Busy' = {t}
      BY <1>6, <2>1
    <2> QED
      BY <1>5, <2>4, <2>5 DEF Replacing
  <1>8. Web!ConsoleFollowsConfig'
    BY <1>6 DEF Web!ConsoleFollowsConfig
  <1>9. overlap' \in BOOLEAN
    BY <1>1 DEF WebKeeps
  <1> QED
    BY <1>1, <1>5, <1>7, <1>8, <1>9 DEF WebKeeps

LEMMA WebCaptures ==
  ASSUME WebKeeps, NEW t \in Tasks, Web!Capture(t)
  PROVE  WebKeeps'
  <1> DEFINE pc == IF task[t].moved THEN "shutdown" ELSE "done"
             r == [task[t] EXCEPT !.old = ipcServer, !.pc = pc]
  <1>1. /\ task[t].pc = "capture" /\ UNCHANGED <<webCfg, servers, ipcServer, overlap, bindFaults>>
        /\ task' = [task EXCEPT ![t].old = ipcServer, ![t].pc = pc]
    BY DEF Web!Capture
  <1>2. task[t] \in TaskRecord /\ t \in Web!Busy
    BY <1>1 DEF WebKeeps, Web!Busy
  <1>3. task' = [task EXCEPT ![t] = r]
    BY <1>1 DEF WebKeeps
  <1>4. pc \in {"shutdown", "done"} /\ (pc = "done" => ~task[t].moved)
    OBVIOUS
  <1>5. ipcServer \in Nat
    BY DEF WebKeeps
  <1> HIDE DEF pc
  <1>6. r \in TaskRecord /\ r.pc = pc /\ r.old = ipcServer /\ r.addr = task[t].addr
    BY <1>2, <1>4, <1>5 DEF TaskRecord
  <1> HIDE DEF r
  <1>7. Web!Listening' = Web!Listening
    BY <1>1 DEF Web!Listening
  <1>8. ASSUME Replacing(task[t])
        PROVE  IF r.pc = "done" THEN Web!Listening' = {ipcServer'} /\ servers'[ipcServer'].addr = webCfg
               ELSE Replaces(r, webCfg', Web!Listening', ipcServer', servers')
    <2>1. Web!Listening = {ipcServer} /\ (task[t].moved \/ servers[ipcServer].addr = webCfg) /\ task[t].addr = webCfg
      BY <1>1, <1>8 DEF Replacing, Replaces
    <2>2. CASE r.pc = "done"
      BY <1>1, <1>4, <1>6, <1>7, <2>1, <2>2
    <2>3. CASE r.pc = "shutdown"
      BY <1>1, <1>6, <1>7, <2>1, <2>3 DEF Replacing, Replaces
    <2> QED
      BY <1>4, <1>6, <2>2, <2>3
  <1>9. r.pc # "idle" /\ bindFaults' \in Nat /\ ipcServer' \in Nat /\ servers' \in Seq([addr: Addresses, state: {"listening", "shut"}])
    BY <1>1, <1>4, <1>6 DEF WebKeeps
  <1> QED
    BY <1>1, <1>2, <1>3, <1>6, <1>8, <1>9, TaskMoves

LEMMA WebShuts ==
  ASSUME WebKeeps, NEW t \in Tasks, Web!ShutdownOld(t)
  PROVE  WebKeeps'
  <1> DEFINE o == task[t].old
             r == [task[t] EXCEPT !.pc = "start"]
  <1>1. /\ task[t].pc = "shutdown" /\ UNCHANGED <<webCfg, ipcServer, overlap, bindFaults>>
        /\ task' = [task EXCEPT ![t].pc = "start"]
        /\ servers' = [servers EXCEPT ![o].state = "shut"]
    BY DEF Web!ShutdownOld, Web!TaskStep
  <1>2. task[t] \in TaskRecord /\ t \in Web!Busy
    BY <1>1 DEF WebKeeps, Web!Busy
  <1>3. task' = [task EXCEPT ![t] = r]
    BY <1>1 DEF WebKeeps
  <1>4. r \in TaskRecord /\ r.pc = "start" /\ r.addr = task[t].addr
    BY <1>2 DEF TaskRecord
  <1> HIDE DEF r
  <1>5. /\ servers' \in Seq([addr: Addresses, state: {"listening", "shut"}]) /\ DOMAIN servers' = DOMAIN servers
        /\ \A i \in DOMAIN servers : servers'[i].state = IF i = o THEN "shut" ELSE servers[i].state
    <2> DEFINE R == [addr: Addresses, state: {"listening", "shut"}]
    <2>1. servers \in Seq(R)
      BY DEF WebKeeps
    <2>2. \A s \in R : [s EXCEPT !.state = "shut"] \in R /\ [s EXCEPT !.state = "shut"].state = "shut"
      OBVIOUS
    <2>3. servers' = [i \in DOMAIN servers |-> IF i = o THEN [servers[i] EXCEPT !.state = "shut"] ELSE servers[i]]
      BY <1>1, <2>1
    <2> HIDE DEF R
    <2>4. \A i \in DOMAIN servers : servers'[i] \in R
      BY <2>1, <2>2, <2>3, ElementOfSeq
    <2>5. DOMAIN servers' = 1..Len(servers) /\ Len(servers) \in Nat /\ DOMAIN servers = 1..Len(servers)
      BY <2>1, <2>3
    <2>6. servers' \in Seq(R)
      <3>1. servers' \in [1..Len(servers) -> R]
        BY <2>3, <2>4, <2>5
      <3> QED
        BY <2>5, <3>1
    <2>7. \A i \in DOMAIN servers : servers'[i].state = IF i = o THEN "shut" ELSE servers[i].state
      BY <2>1, <2>2, <2>3, ElementOfSeq
    <2> QED
      BY <2>5, <2>6, <2>7 DEF R
  <1>6. Web!Listening' = Web!Listening \ {o}
    BY <1>5 DEF Web!Listening
  <1>7. ASSUME Replacing(task[t]) PROVE Replaces(r, webCfg', Web!Listening', ipcServer', servers')
    <2>1. Web!Listening = {o} /\ task[t].addr = webCfg
      BY <1>1, <1>7 DEF Replacing, Replaces
    <2>2. Web!Listening' = {}
      BY <1>6, <2>1
    <2> QED
      BY <1>1, <1>4, <2>1, <2>2 DEF Replacing, Replaces
  <1>8. r.pc # "idle" /\ r.pc # "done" /\ bindFaults' \in Nat /\ ipcServer' \in Nat
    BY <1>1, <1>4 DEF WebKeeps
  <1> QED
    BY <1>1, <1>2, <1>3, <1>4, <1>5, <1>7, <1>8, TaskMoves

LEMMA WebListens ==
  ASSUME WebKeeps, NEW t \in Tasks, Web!StartNew(t)
  PROVE  WebKeeps'
  <1> DEFINE a == task[t].addr
             n == Len(servers) + 1
             s == [addr |-> a, state |-> "listening"]
             inUse == \E i \in Web!Listening : servers[i].addr.port = a.port
  <1>1. task[t].pc = "start" /\ UNCHANGED <<webCfg, ipcServer, overlap>>
    BY DEF Web!StartNew
  <1>2. task[t] \in TaskRecord /\ t \in Web!Busy
    BY <1>1 DEF WebKeeps, Web!Busy
  <1>3. /\ n \in Nat /\ servers \in Seq([addr: Addresses, state: {"listening", "shut"}])
        /\ bindFaults \in Nat /\ ipcServer' \in Nat
    BY <1>1 DEF WebKeeps
  <1>4. CASE servers' = Append(servers, s) /\ task' = [task EXCEPT ![t].pc = "publish", ![t].old = n]
             /\ bindFaults' = bindFaults
    <2> DEFINE r == [task[t] EXCEPT !.pc = "publish", !.old = n]
    <2>1. task' = [task EXCEPT ![t] = r]
      BY <1>4 DEF WebKeeps
    <2>2. r \in TaskRecord /\ r.pc = "publish" /\ r.old = n /\ r.addr = a
      BY <1>2, <1>3 DEF TaskRecord
    <2>3. s.addr = a /\ s.state = "listening"
      OBVIOUS
    <2>4. a \in Addresses => s \in [addr: Addresses, state: {"listening", "shut"}]
      OBVIOUS
    <2> HIDE DEF r, s
    <2>5. /\ DOMAIN servers' = DOMAIN servers \cup {n} /\ n \notin DOMAIN servers
          /\ servers'[n] = s /\ \A i \in DOMAIN servers : servers'[i] = servers[i]
      BY <1>3, <1>4
    <2>6. Web!Listening' = Web!Listening \cup {n}
      BY <2>3, <2>5 DEF Web!Listening
    <2>7. a \in Addresses
      BY <1>2 DEF TaskRecord
    <2>8. servers' \in Seq([addr: Addresses, state: {"listening", "shut"}])
      BY <1>3, <1>4, <2>4, <2>7
    <2>9. ASSUME Replacing(task[t]) PROVE Replaces(r, webCfg', Web!Listening', ipcServer', servers')
      <3>1. Web!Listening = {} /\ a = webCfg
        BY <1>1, <2>9 DEF Replacing, Replaces
      <3>2. Web!Listening' = {n}
        BY <2>6, <3>1
      <3> QED
        BY <1>1, <2>2, <2>3, <2>5, <3>1, <3>2 DEF Replacing, Replaces
    <2> QED
      BY <1>1, <1>2, <1>3, <1>4, <2>1, <2>2, <2>8, <2>9, TaskMoves
  <1>5. CASE /\ servers' = servers /\ task' = [task EXCEPT ![t].pc = "done"]
             /\ inUse \/ bindFaults' = bindFaults + 1
             /\ bindFaults' \in {bindFaults, bindFaults + 1}
    <2> DEFINE r == [task[t] EXCEPT !.pc = "done"]
    <2>1. task' = [task EXCEPT ![t] = r]
      BY <1>5 DEF WebKeeps
    <2>2. r \in TaskRecord /\ r.pc = "done"
      BY <1>2 DEF TaskRecord
    <2> HIDE DEF r
    <2>3. Replacing(task[t]) => ~inUse
      BY <1>1 DEF Replacing, Replaces
    <2>4. bindFaults' \in Nat /\ (bindFaults' = 0 => bindFaults = 0 /\ inUse)
      BY <1>3, <1>5
    <2> HIDE DEF inUse
    <2>5. ~(bindFaults' = 0 /\ Replacing(task[t]))
      BY <2>3, <2>4
    <2>6. servers' \in Seq([addr: Addresses, state: {"listening", "shut"}])
      BY <1>3, <1>5
    <2> QED
      BY <1>1, <1>2, <1>3, <2>1, <2>2, <2>4, <2>5, <2>6, TaskMoves
  <1>6. \/ servers' = Append(servers, s) /\ task' = [task EXCEPT ![t].pc = "publish", ![t].old = n]
             /\ bindFaults' = bindFaults
        \/ /\ servers' = servers /\ task' = [task EXCEPT ![t].pc = "done"]
           /\ inUse \/ bindFaults' = bindFaults + 1
           /\ bindFaults' \in {bindFaults, bindFaults + 1}
    BY DEF Web!StartNew, Web!TaskStep
  <1> QED
    BY <1>4, <1>5, <1>6

LEMMA WebPublishes ==
  ASSUME WebKeeps, NEW t \in Tasks, Web!Publish(t)
  PROVE  WebKeeps'
  <1> DEFINE r == [task[t] EXCEPT !.pc = "done"]
  <1>1. /\ task[t].pc = "publish" /\ UNCHANGED <<webCfg, servers, overlap, bindFaults>>
        /\ task' = [task EXCEPT ![t].pc = "done"] /\ ipcServer' = task[t].old
    BY DEF Web!Publish, Web!TaskStep
  <1>2. task[t] \in TaskRecord /\ t \in Web!Busy
    BY <1>1 DEF WebKeeps, Web!Busy
  <1>3. task' = [task EXCEPT ![t] = r]
    BY <1>1 DEF WebKeeps
  <1>4. r \in TaskRecord /\ r.pc = "done"
    BY <1>2 DEF TaskRecord
  <1> HIDE DEF r
  <1>5. Web!Listening' = Web!Listening
    BY <1>1 DEF Web!Listening
  <1>6. Replacing(task[t]) => Web!Listening' = {ipcServer'} /\ servers'[ipcServer'].addr = webCfg
    BY <1>1, <1>5 DEF Replacing, Replaces
  <1>7. bindFaults' \in Nat /\ ipcServer' \in Nat /\ servers' \in Seq([addr: Addresses, state: {"listening", "shut"}])
    BY <1>1, <1>2 DEF WebKeeps, TaskRecord
  <1> QED
    BY <1>1, <1>2, <1>3, <1>4, <1>6, <1>7, TaskMoves

LEMMA WebNext ==
  ASSUME WebKeeps, Web!RestartNext
  PROVE  WebKeeps'
  BY WebConfigures, WebCaptures, WebShuts, WebListens, WebPublishes DEF Web!RestartNext, Web!RestartStep

-----------------------------------------------------------------------------
(* The account.                                                            *)

LEMMA AuthUnchanged ==
  ASSUME AuthKeeps, UNCHANGED authVars
  PROVE  AuthKeeps'
  BY DEF AuthKeeps, Account, Counters, authVars, Auth!SessionsAreCurrent, Auth!TrackedBounded, Tallied

LEMMA AuthStarts ==
  ASSUME Auth!AuthInit
  PROVE  AuthKeeps
  <1>1. /\ password \in {0, 1} /\ sessions = {} /\ attempts = << >> /\ aged = {} /\ locks = << >>
        /\ guesses = [c \in Clients |-> 0]
    BY DEF Auth!AuthInit
  <1>2. Account
    BY <1>1, PartsAssumption DEF Account, Auth!SessionsAreCurrent
  <1>3. DOMAIN attempts = {} /\ DOMAIN locks = {}
    BY <1>1
  <1>4. Cardinality(DOMAIN attempts \ DOMAIN locks) = 0
    BY <1>3, FS_EmptySet
  <1>5. Auth!TrackedBounded
    BY <1>4, PartsAssumption, SameCardinality DEF Auth!TrackedBounded
  <1>6. \A c \in Clients : Tallied(c)
    BY <1>1, <1>3, PartsAssumption DEF Tallied
  <1> QED
    BY <1>1, <1>2, <1>3, <1>5, <1>6 DEF AuthKeeps, Counters

(* Pruning keeps counters as they are, of clients whose lock is not over,  *)
(* and at most MaxTracked of clients that are not locked.                  *)
LEMMA PrunedIsBounded ==
  ASSUME Counters, NEW k \in Auth!Pruned
  PROVE  Unforgotten(k)
  <1> DEFINE D == DOMAIN attempts \ (Auth!Over \cup aged)
             L == DOMAIN locks \ Auth!Over
             loose == D \ L
             size == Cardinality(D)
             excess == size - MaxTracked
             n == IF excess > Cardinality(loose) THEN Cardinality(loose) ELSE excess
  <1>1. DOMAIN Auth!Fresh = D /\ \A c \in D : Auth!Fresh[c] = attempts[c]
    BY DEF Auth!Fresh, Auth!Without, Auth!Restrict
  <1>2. IsFiniteSet(D) /\ IsFiniteSet(loose)
    BY PartsAssumption, FS_Subset DEF Counters
  <1>3. size \in Nat /\ Cardinality(loose) \in Nat /\ Cardinality(loose) <= size /\ MaxTracked \in Nat
    BY <1>2, FS_CardinalityType, FS_Subset, PartsAssumption
  <1>4. \/ size <= MaxTracked /\ k = Auth!Fresh
        \/ /\ ~(size <= MaxTracked)
           /\ \E S \in SUBSET loose : Cardinality(S) = n /\ k = Auth!Without(Auth!Fresh, S)
    BY <1>1, SameCardinality DEF Auth!Pruned
  <1>5. CASE size <= MaxTracked /\ k = Auth!Fresh
    <2>1. DOMAIN k = D /\ \A c \in D : k[c] = attempts[c]
      BY <1>1, <1>5
    <2>2. Cardinality(DOMAIN k \ L) <= MaxTracked
      BY <1>3, <1>5, <2>1
    <2> QED
      BY <2>1, <2>2 DEF Unforgotten
  <1>6. ASSUME ~(size <= MaxTracked), NEW S \in SUBSET loose, Cardinality(S) = n,
               k = Auth!Without(Auth!Fresh, S)
        PROVE  Unforgotten(k)
    <2>1. DOMAIN k = D \ S /\ \A c \in D \ S : k[c] = attempts[c]
      BY <1>1, <1>6 DEF Auth!Without, Auth!Restrict
    <2>2. DOMAIN k \ L = loose \ S
      BY <2>1
    <2>3. Cardinality(loose \ S) = Cardinality(loose) - Cardinality(loose \cap S)
      BY <1>2, FS_Difference, FS_Subset
    <2>4. loose \cap S = S
      BY <1>6
    <2>5. Cardinality(loose \ S) = Cardinality(loose) - n
      BY <1>6, <2>3, <2>4
    <2> HIDE DEF loose, size, D, L
    <2>6. Cardinality(loose) - n <= MaxTracked
      BY <1>3, <1>6
    <2>7. Cardinality(DOMAIN k \ L) <= MaxTracked
      BY <2>2, <2>5, <2>6
    <2> QED
      BY <2>1, <2>7 DEF Unforgotten, D, L
  <1> QED
    BY <1>4, <1>5, <1>6

(* What of the counters a step keeps decides what it may leave.            *)
LEMMA Looser ==
  ASSUME Counters, NEW k, Unforgotten(k), NEW A, NEW L, NEW c,
         A \subseteq DOMAIN k \cup {c}, DOMAIN locks \ Auth!Over \subseteq L \cup {c}
  PROVE  Cardinality(A \ L) <= MaxTracked + 1
  <1> DEFINE U == DOMAIN k \ (DOMAIN locks \ Auth!Over)
  <1>1. IsFiniteSet(U) /\ Cardinality(U) <= MaxTracked
    <2>1. U \subseteq Clients
      BY DEF Counters, Unforgotten
    <2> QED
      BY <2>1, FS_Subset, PartsAssumption DEF Unforgotten
  <1>2. A \ L \subseteq U \cup {c}
    OBVIOUS
  <1> HIDE DEF U
  <1>3. IsFiniteSet(U \cup {c}) /\ Cardinality(U \cup {c}) <= Cardinality(U) + 1 /\ Cardinality(U) \in Nat
    <2>1. Cardinality(U) \in Nat
      BY <1>1, FS_CardinalityType
    <2>2. IsFiniteSet(U \cup {c}) /\ Cardinality(U \cup {c}) = IF c \in U THEN Cardinality(U) ELSE Cardinality(U) + 1
      BY <1>1, FS_AddElement
    <2> QED
      BY <2>1, <2>2
  <1>4. Cardinality(A \ L) <= Cardinality(U \cup {c}) /\ Cardinality(A \ L) \in Nat /\ Cardinality(U \cup {c}) \in Nat
    BY <1>2, <1>3, FS_Subset, FS_CardinalityType
  <1> QED
    BY <1>1, <1>3, <1>4, PartsAssumption

(* The tally of a client whose counter was kept, or not.                   *)
LEMMA ResetTally ==
  ASSUME Counters, NEW k, Unforgotten(k), NEW S
  PROVE  /\ Auth!Reset(k, S) \in [Clients -> Nat]
         /\ \A c \in Clients : Auth!Reset(k, S)[c] = IF c \in S \/ c \notin DOMAIN k THEN 0 ELSE guesses[c]
         /\ \A c \in Clients : c \in DOMAIN k => /\ c \in DOMAIN attempts /\ c \notin Auth!Over /\ k[c] = attempts[c]
                                                 /\ Tallied(c)
         /\ DOMAIN k \subseteq Clients
  BY DEF Counters, Unforgotten, Auth!Reset

LEMMA CountersPruned ==
  ASSUME Counters, NEW k \in Auth!Pruned, Auth!OnlyPruned(k)
  PROVE  Counters'
  <1>1. Unforgotten(k)
    BY PrunedIsBounded
  <1>2. /\ attempts' = k /\ guesses' = Auth!Reset(k, {}) /\ aged' = aged \cap DOMAIN k
        /\ DOMAIN locks' = DOMAIN locks \ Auth!Over
    BY DEF Auth!OnlyPruned, Auth!Without, Auth!Restrict
  <1>3. Cardinality(DOMAIN attempts' \ DOMAIN locks') <= MaxTracked + 1
    <2>1. CASE DOMAIN k = {}
      <3>1. DOMAIN attempts' \ DOMAIN locks' = {}
        BY <1>2, <2>1
      <3>2. Cardinality(DOMAIN attempts' \ DOMAIN locks') = 0
        BY <3>1, FS_EmptySet
      <3> QED
        BY <3>2, PartsAssumption
    <2>2. ASSUME NEW c \in DOMAIN k PROVE Cardinality(DOMAIN attempts' \ DOMAIN locks') <= MaxTracked + 1
      BY <1>1, <1>2, Looser
    <2> QED
      BY <2>1, <2>2
  <1>4. \A c \in Clients : Tallied(c)'
    <2> TAKE c \in Clients
    <2>1. guesses'[c] = IF c \notin DOMAIN k THEN 0 ELSE guesses[c]
      BY <1>1, <1>2, ResetTally
    <2>2. CASE c \notin DOMAIN k
      BY <1>2, <2>1, <2>2, PartsAssumption DEF Tallied
    <2>3. CASE c \in DOMAIN k
      <3>1. c \in DOMAIN attempts /\ c \notin Auth!Over /\ k[c] = attempts[c] /\ Tallied(c)
        BY <1>1, <2>3, ResetTally
      <3> QED
        BY <1>2, <2>1, <2>3, <3>1 DEF Tallied
    <2> QED
      BY <2>2, <2>3
  <1>5. Auth!TrackedBounded'
    BY <1>3, SameCardinality DEF Auth!TrackedBounded
  <1>6. guesses' \in [Clients -> Nat] /\ DOMAIN attempts' \subseteq Clients /\ DOMAIN locks' \subseteq Clients
    BY <1>1, <1>2, ResetTally DEF Counters
  <1> QED
    BY <1>2, <1>4, <1>5, <1>6 DEF Counters

LEMMA CountersCleared ==
  ASSUME Counters, NEW c \in Clients, NEW k \in Auth!Pruned, Auth!Passed(c, k)
  PROVE  Counters'
  <1>1. Unforgotten(k)
    BY PrunedIsBounded
  <1>2. /\ DOMAIN attempts' = DOMAIN k \ {c} /\ (\A x \in DOMAIN k \ {c} : attempts'[x] = k[x])
        /\ guesses' = Auth!Reset(k, {c}) /\ aged' = (aged \cap DOMAIN k) \ {c}
        /\ DOMAIN locks' = DOMAIN locks \ (Auth!Over \cup {c})
    BY DEF Auth!Passed, Auth!Without, Auth!Restrict
  <1>3. Cardinality(DOMAIN attempts' \ DOMAIN locks') <= MaxTracked + 1
    BY <1>1, <1>2, Looser
  <1>4. \A x \in Clients : Tallied(x)'
    <2> TAKE x \in Clients
    <2>1. guesses'[x] = IF x = c \/ x \notin DOMAIN k THEN 0 ELSE guesses[x]
      BY <1>1, <1>2, ResetTally
    <2>2. CASE x = c \/ x \notin DOMAIN k
      BY <1>2, <2>1, <2>2, PartsAssumption DEF Tallied
    <2>3. CASE x # c /\ x \in DOMAIN k
      <3>1. x \in DOMAIN attempts /\ x \notin Auth!Over /\ k[x] = attempts[x] /\ Tallied(x)
        BY <1>1, <2>3, ResetTally
      <3> QED
        BY <1>2, <2>1, <2>3, <3>1 DEF Tallied
    <2> QED
      BY <2>2, <2>3
  <1>5. Auth!TrackedBounded'
    BY <1>3, SameCardinality DEF Auth!TrackedBounded
  <1>6. guesses' \in [Clients -> Nat] /\ DOMAIN attempts' \subseteq Clients /\ DOMAIN locks' \subseteq Clients
    BY <1>1, <1>2, ResetTally DEF Counters
  <1> QED
    BY <1>2, <1>4, <1>5, <1>6 DEF Counters

(* A wrong password is counted in the tally and in the counter alike; the  *)
(* one that fills the counter locks the client.                            *)
LEMMA CountersFail ==
  ASSUME Counters, NEW c \in Clients, NEW k \in Auth!Pruned, Auth!Checked(c), Auth!RecordFailure(c, k)
  PROVE  Counters'
  <1> DEFINE n == (IF c \in DOMAIN k THEN k[c] ELSE 0) + 1
             locked == n >= MaxFailed
             left == DOMAIN locks \ Auth!Over
  <1>1. Unforgotten(k)
    BY PrunedIsBounded
  <1>2. /\ DOMAIN attempts' = DOMAIN k \cup {c}
        /\ \A x \in DOMAIN k \cup {c} :
             attempts'[x] = IF x = c THEN (IF locked THEN 0 ELSE n) ELSE k[x]
        /\ guesses' = [Auth!Reset(k, {}) EXCEPT ![c] = @ + 1]
        /\ aged' = (aged \cap DOMAIN k) \ {c}
    BY DEF Auth!RecordFailure, Auth!With
  <1>3. DOMAIN locks' = IF locked THEN left \cup {c} ELSE left
    BY DEF Auth!RecordFailure, Auth!With, Auth!Without, Auth!Restrict
  <1>4. /\ Auth!Reset(k, {}) \in [Clients -> Nat]
        /\ \A x \in Clients : Auth!Reset(k, {})[x] = IF x \notin DOMAIN k THEN 0 ELSE guesses[x]
    BY <1>1, ResetTally
  <1>5. /\ guesses' \in [Clients -> Nat]
        /\ \A x \in Clients : guesses'[x] = (IF x \notin DOMAIN k THEN 0 ELSE guesses[x]) + (IF x = c THEN 1 ELSE 0)
    BY <1>2, <1>4 DEF Counters
  <1>6. n \in Nat /\ n <= MaxFailed /\ guesses'[c] = n /\ MaxFailed \in Nat \ {0}
    <2>1. MaxFailed \in Nat \ {0} /\ guesses[c] \in Nat
      BY PartsAssumption DEF Counters
    <2>2. CASE c \notin DOMAIN k
      BY <1>5, <2>1, <2>2
    <2>3. CASE c \in DOMAIN k
      <3>1. c \in DOMAIN attempts /\ c \notin Auth!Over /\ k[c] = attempts[c] /\ Tallied(c)
        BY <1>1, <2>3, ResetTally
      <3>2. c \notin DOMAIN locks
        BY <3>1 DEF Auth!Checked
      <3>3. guesses[c] = k[c] /\ k[c] < MaxFailed
        BY <3>1, <3>2 DEF Tallied
      <3> QED
        BY <1>5, <2>1, <2>3, <3>3
    <2> QED
      BY <2>2, <2>3
  <1> HIDE DEF n
  <1>7. Cardinality(DOMAIN attempts' \ DOMAIN locks') <= MaxTracked + 1
    <2>1. left \subseteq DOMAIN locks' \cup {c}
      BY <1>3
    <2> QED
      BY <1>1, <1>2, <2>1, Looser
  <1>8. \A x \in Clients : Tallied(x)'
    <2> TAKE x \in Clients
    <2>1. CASE x = c
      <3>1. x \in DOMAIN attempts' /\ guesses'[x] <= MaxFailed
        BY <1>2, <1>6, <2>1
      <3>2. ASSUME x \notin DOMAIN locks'
            PROVE  guesses'[x] = attempts'[x] /\ attempts'[x] < MaxFailed
        <4>1. ~locked
          BY <1>3, <2>1, <3>2
        <4> QED
          BY <1>2, <1>6, <2>1, <4>1
      <3> QED
        BY <3>1, <3>2 DEF Tallied
    <2>2. CASE x # c /\ x \notin DOMAIN k
      <3>1. guesses'[x] = 0 /\ x \notin DOMAIN attempts'
        BY <1>2, <1>5, <2>2
      <3> QED
        BY <1>6, <3>1 DEF Tallied
    <2>3. CASE x # c /\ x \in DOMAIN k
      <3>1. x \in DOMAIN attempts /\ x \notin Auth!Over /\ k[x] = attempts[x] /\ Tallied(x)
        BY <1>1, <2>3, ResetTally
      <3>2. guesses'[x] = guesses[x] /\ attempts'[x] = attempts[x] /\ x \in DOMAIN attempts'
        BY <1>2, <1>5, <2>3, <3>1 DEF Counters
      <3>3. x \notin DOMAIN locks' => x \notin DOMAIN locks
        BY <1>3, <2>3, <3>1
      <3> QED
        BY <3>1, <3>2, <3>3 DEF Tallied
    <2> QED
      BY <2>1, <2>2, <2>3
  <1>9. Auth!TrackedBounded'
    BY <1>7, SameCardinality DEF Auth!TrackedBounded
  <1>10. DOMAIN attempts' \subseteq Clients /\ DOMAIN locks' \subseteq Clients
    BY <1>1, <1>2, <1>3, ResetTally DEF Counters
  <1> QED
    BY <1>2, <1>5, <1>8, <1>9, <1>10 DEF Counters

LEMMA CountersAge ==
  ASSUME Counters, NEW c \in Clients, Auth!TimePasses(c)
  PROVE  Counters'
  <1>1. DOMAIN locks' = DOMAIN locks /\ UNCHANGED <<attempts, guesses>>
    BY DEF Auth!TimePasses
  <1>2. aged' \subseteq DOMAIN attempts
    BY DEF Auth!TimePasses, Counters
  <1> QED
    BY <1>1, <1>2 DEF Counters, Tallied, Auth!TrackedBounded

LEMMA AuthNext ==
  ASSUME AuthKeeps, Auth!AuthNext
  PROVE  AuthKeeps'
  <1>1. ASSUME Auth!SetupInitialCredentials PROVE AuthKeeps'
    <2>1. password = 0 /\ password' = 1 /\ UNCHANGED <<sessions, attempts, aged, locks, guesses>>
      BY <1>1 DEF Auth!SetupInitialCredentials
    <2>2. Account'
      BY <2>1, PartsAssumption DEF AuthKeeps, Account, Auth!SessionsAreCurrent
    <2> QED
      BY <2>1, <2>2 DEF AuthKeeps, Counters, Tallied, Auth!TrackedBounded
  <1>2. ASSUME Auth!UpdateCredentials PROVE AuthKeeps'
    <2>1. password < MaxPasswords /\ password' = password + 1 /\ sessions' = {} /\ UNCHANGED <<attempts, aged, locks, guesses>>
      BY <1>2 DEF Auth!UpdateCredentials
    <2>2. Account'
      BY <2>1, PartsAssumption DEF AuthKeeps, Account, Auth!SessionsAreCurrent
    <2> QED
      BY <2>1, <2>2 DEF AuthKeeps, Counters, Tallied, Auth!TrackedBounded
  <1>3. ASSUME NEW c \in Clients, Auth!Login(c) PROVE AuthKeeps'
    <2>1. PICK k \in Auth!Pruned :
            \/ Auth!Refused(c, k) /\ UNCHANGED <<password, sessions>>
            \/ Auth!Checked(c) /\ Auth!RecordFailure(c, k) /\ UNCHANGED <<password, sessions>>
            \/ /\ Auth!Checked(c) /\ Auth!Passed(c, k) /\ UNCHANGED password
               /\ \E n \in 1..MaxSessions : sessions' = sessions \cup {[n |-> n, with |-> password]}
      BY <1>3 DEF Auth!Login
    <2>2. Counters'
      BY <2>1, CountersPruned, CountersFail, CountersCleared DEF AuthKeeps, Auth!Refused
    <2>3. Account'
      <3>1. CASE UNCHANGED <<password, sessions>>
        BY <3>1 DEF AuthKeeps, Account, Auth!SessionsAreCurrent
      <3>2. ASSUME Auth!Checked(c), UNCHANGED password,
                   NEW n \in 1..MaxSessions, sessions' = sessions \cup {[n |-> n, with |-> password]}
            PROVE  Account'
        BY <3>2 DEF AuthKeeps, Account, Auth!SessionsAreCurrent, Auth!Checked
      <3> QED
        BY <2>1, <3>1, <3>2
    <2> QED
      BY <2>2, <2>3 DEF AuthKeeps
  <1>4. ASSUME NEW c \in Clients, Auth!VerifyPasswordWithIP(c) PROVE AuthKeeps'
    <2>1. PICK k \in Auth!Pruned :
            \/ Auth!Refused(c, k)
            \/ Auth!Checked(c) /\ (Auth!RecordFailure(c, k) \/ Auth!Passed(c, k))
      BY <1>4 DEF Auth!VerifyPasswordWithIP
    <2>2. Counters'
      BY <2>1, CountersPruned, CountersFail, CountersCleared DEF AuthKeeps, Auth!Refused
    <2>3. Account'
      BY <1>4 DEF AuthKeeps, Account, Auth!SessionsAreCurrent, Auth!VerifyPasswordWithIP
    <2> QED
      BY <2>2, <2>3 DEF AuthKeeps
  <1>5. ASSUME NEW c \in Clients, Auth!TimePasses(c) PROVE AuthKeeps'
    <2>1. Account'
      BY <1>5 DEF AuthKeeps, Account, Auth!SessionsAreCurrent, Auth!TimePasses
    <2> QED
      BY <1>5, <2>1, CountersAge DEF AuthKeeps
  <1>6. ASSUME NEW s \in sessions, Auth!RevokeSession(s) PROVE AuthKeeps'
    <2>1. sessions' = sessions \ {s} /\ UNCHANGED <<password, attempts, aged, locks, guesses>>
      BY <1>6 DEF Auth!RevokeSession
    <2>2. Account'
      BY <2>1 DEF AuthKeeps, Account, Auth!SessionsAreCurrent
    <2> QED
      BY <2>1, <2>2 DEF AuthKeeps, Counters, Tallied, Auth!TrackedBounded
  <1> QED
    BY <1>1, <1>2, <1>3, <1>4, <1>5, <1>6 DEF Auth!AuthNext

LEMMA AuthGives ==
  ASSUME AuthKeeps
  PROVE  /\ Auth!AuthTypeOK /\ Auth!SessionsAreCurrent /\ Auth!AtMostMaxGuesses
         /\ Auth!TrackedBounded
  BY DEF AuthKeeps, Account, Counters, Tallied, Auth!AuthTypeOK, Auth!AtMostMaxGuesses

-----------------------------------------------------------------------------
(* The parts together.                                                     *)

LEMMA WebGives ==
  ASSUME WebKeeps
  PROVE  Web!ConsoleFollowsConfig
  BY DEF WebKeeps

LEMMA PartsInvariant == PartsSpec => []PartsInductive
  <1>1. PartsInit => PartsInductive
    BY AuthStarts, WebStarts, ClientStarts, BootStarts, LimitStarts DEF PartsInit, PartsInductive
  <1>2. PartsInductive /\ [UNCHANGED part /\ PartsNext]_partVars => PartsInductive'
    <2> SUFFICES ASSUME PartsInductive, [UNCHANGED part /\ PartsNext]_partVars
                 PROVE  PartsInductive'
      OBVIOUS
    <2>1. CASE PartsNext
      <3>1. AuthKeeps'
        BY <2>1, AuthNext, AuthUnchanged DEF PartsNext, PartsInductive
      <3>2. WebKeeps'
        BY <2>1, WebNext, WebUnchanged DEF PartsNext, PartsInductive
      <3>3. ClientKeeps'
        BY <2>1, ClientNext, ClientUnchanged DEF PartsNext, PartsInductive
      <3>4. BootKeeps'
        BY <2>1, BootNext, BootUnchanged DEF PartsNext, PartsInductive
      <3>5. LimitKeeps'
        BY <2>1, LimitNext, LimitUnchanged DEF PartsNext, PartsInductive
      <3> QED
        BY <3>1, <3>2, <3>3, <3>4, <3>5 DEF PartsInductive
    <2>2. CASE UNCHANGED partVars
      <3>1. UNCHANGED authVars /\ UNCHANGED webVars /\ UNCHANGED clientVars /\ UNCHANGED bootVars /\ UNCHANGED limitVars
        BY <2>2 DEF partVars
      <3> QED
        BY <3>1, AuthUnchanged, WebUnchanged, ClientUnchanged, BootUnchanged, LimitUnchanged DEF PartsInductive
    <2> QED
      BY <2>1, <2>2
  <1> QED
    BY <1>1, <1>2, PTL DEF PartsSpec

(* The defences keep their limits whatever the number of clients, prefixes *)
(* and calls: a session ends with its password, between two resets a       *)
(* client has at most MaxFailed wrong passwords looked at, evictions       *)
(* included (auth.go), a prefix is granted no more than its burst and rate *)
(* since its bucket began, in a table of bounded size (rate_limiter.go),   *)
(* and when the calls of ConfigureWeb do not overlap the console listens   *)
(* at the configured address (controller_web.go).                          *)
THEOREM DefencesAreKept == PartsSpec => []DefencesHold
  <1>1. PartsInductive => DefencesHold
    BY AuthGives, LimitGives, WebGives DEF PartsInductive, DefencesHold
  <1> QED
    BY <1>1, PartsInvariant, PTL

(* The mark of an address has exactly one lookup running behind it, in a   *)
(* table of bounded size (client_resolver.go); a dial fails only once it   *)
(* has asked every server of its configuration, and a server is on a       *)
(* cooldown only after CooldownFailures failures in a row (bootstrap.go).  *)
THEOREM NamesAreFound == PartsSpec => []NamesHold
  <1>1. PartsInductive => NamesHold
    BY ClientGives, BootGives DEF PartsInductive, NamesHold
  <1> QED
    BY <1>1, PartsInvariant, PTL
=============================================================================
