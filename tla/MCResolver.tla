----------------------------- MODULE MCResolver -----------------------------
(* The resolver for TLC: one provider of every protocol.                   *)
EXTENDS Resolver

MCNames   == {"a", "b", "c", "r"}
MCProto   == [a |-> "dot", b |-> "plain", c |-> "doh3", r |-> "doh"]
MCLatency == [a |-> 1, b |-> 1, c |-> 2, r |-> 1]
MCWeight  == [a |-> 2, b |-> 1, c |-> 1, r |-> 1]
Base      == [mode |-> "primary_backup", main |-> <<"a", "b">>, fallback |-> <<"c">>, stamps |-> {},
              onRcode |-> {"servfail"}, onError |-> TRUE, routes |-> <<>>, valid |-> TRUE]
MCConfigs == {Base,
              [Base EXCEPT !.mode = "parallel_race", !.fallback = <<>>],
              [Base EXCEPT !.mode = "smart_prediction", !.stamps = {"b"}, !.onRcode = {"nx"}, !.onError = FALSE],
              [Base EXCEPT !.mode = "single", !.main = <<"b">>,
                           !.routes = (<<"lan">> :> "r" @@ <<"x", "lan">> :> "a")],
              [Base EXCEPT !.valid = FALSE]}
MCGroups  == {[g \in {"kids"} |-> <<"c", "a", "a">>]}
MCDomains == {<<"com">>, <<"x", "lan">>}
=============================================================================
