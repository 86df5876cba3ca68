----------------------------- MODULE MCAndroid -----------------------------
(***************************************************************************)
(* The Android engine for TLC: two of each thing that may overlap.         *)
(***************************************************************************)
EXTENDS Android, TLC

CONSTANTS c1, c2, s1, s2, h1, h2, h3, q1, q2, w1, f1, f2

MCStartOrder == <<"agg">>
MCProvs == <<"p1", "p2">>
MCProtos == {("p1" :> "dot") @@ ("p2" :> "plain"), ("p1" :> "doq") @@ ("p2" :> "doh")}
MCTarget == ("cl" :> "ad")
MCAllowlists == {("u1" :> {"cl"}) @@ ("u2" :> {"cl"}), ("u1" :> {})}
MCKindsOf == (f1 :> {"udp", "mitm"}) @@ (f2 :> {"tcp", "mitm"})

\* One initial value for the parts that a behaviour does not follow.
MCInit ==
  /\ Init
  /\ part # "engine"    => mode = "full"
  /\ part # "telemetry" => focus = "log"
  /\ part # "resolver"  => proto["p1"] = "dot"
  /\ part # "dns"       => rules = {} /\ allow["u1"] = {}
  /\ part # "flow"      => gate = {}
  /\ route = "http" <=> gate = {}

\* The calls have no identity: c1 is the first start, s1 the first stop.
NamedInOrder ==
  /\ call'[c2].pc # "idle" => call[c1].pc # "idle"
  /\ stop'[s2].pc # "idle" => stop[s1].pc # "idle"

MCNext == Next /\ NamedInOrder

MCSpec == MCInit /\ [][MCNext]_vars /\ Fairness
=============================================================================
