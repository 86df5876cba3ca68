---------------------------- MODULE MCDnsServer ----------------------------
(* Two servers in a row, two callers and two configurations of the         *)
(* encrypted entries that share a port; DoQ's port is taken by another     *)
(* program under the second.                                               *)
EXTENDS DnsServer, TLC
MCConfigs == {NoCfg, [protos |-> {"dot", "doh"}, port |-> 1], [protos |-> {"dot", "doq"}, port |-> 2]}
MCBusy    == {<<"doq", 2>>}
MCSymmetry == Permutations(Conns)
=============================================================================
