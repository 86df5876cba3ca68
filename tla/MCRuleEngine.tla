---------------------------- MODULE MCRuleEngine ----------------------------
(* Two subscriptions and two URLs; the first list also excepts the name the *)
(* second blocks, and the service blocks what an answer leads to.           *)
EXTENDS RuleEngine
R(n, k) == [name |-> n, kind |-> k]
MCContent == [u1 |-> <<{R("x", "block")}, {R("x", "block"), R("y", "block")}>>,
              u2 |-> <<{R("x", "block"), R("y", "block")}>>]
MCCustom  == {R("x", "allow")}
MCService == {R("y", "iblock")}
MCDefault == [list |-> "l1", url |-> "u1"]
MCAsked   == {[name |-> "x", alias |-> "x"], [name |-> "x", alias |-> "y"]}
MCGroups  == {[enabled |-> TRUE, on |-> TRUE, allowOnly |-> TRUE, window |-> {}],
              [enabled |-> TRUE, on |-> FALSE, allowOnly |-> FALSE, window |-> {0}]}
MCWindows == {{0}}
=============================================================================
