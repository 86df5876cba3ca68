----------------------------- MODULE MCDnsCache -----------------------------
(* DnsCache for TLC: queries are interchangeable.                          *)
EXTENDS DnsCache, TLC

Symmetry == Permutations(Queries)
=============================================================================
