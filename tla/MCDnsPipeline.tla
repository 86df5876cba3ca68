---------------------------- MODULE MCDnsPipeline ----------------------------
(* DnsPipeline for TLC: a name of every kind the chain tells apart, asked   *)
(* with the types for which the kind matters.                               *)
EXTENDS DnsPipeline, TLC

MCNameIs == [lh |-> {"localhost"}, dn |-> {"resolverArpa", "ddrName"}, on |-> {"special"},
             zn |-> {"zone"}, hs |-> {"hosts", "singleLabel"}, rw |-> {"rewrite"},
             ss |-> {"safesearch"}, rp |-> {"privateReverse"}, sl |-> {"singleLabel"},
             bl |-> {"blocked", "rebindAllowed"}, sv |-> {"serviceOff"}, dr |-> {"dnsrewrite"},
             ml |-> {"malicious", "cacheExcluded"}, wb |-> {}]
MCNames == DOMAIN MCNameIs
MCQuestions == {<<"lh", "A", TRUE>>, <<"dn", "SVCB", TRUE>>, <<"on", "A", TRUE>>,
                <<"zn", "A", TRUE>>, <<"hs", "A", TRUE>>,
                <<"rw", "A", TRUE>>, <<"ss", "A", TRUE>>, <<"rp", "PTR", TRUE>>,
                <<"sl", "A", FALSE>>, <<"bl", "A", TRUE>>, <<"sv", "A", TRUE>>,
                <<"dr", "A", TRUE>>, <<"ml", "A", TRUE>>, <<"wb", "A", TRUE>>,
                <<"wb", "AAAA", TRUE>>, <<"wb", "HTTPS", TRUE>>, <<"wb", "ANY", TRUE>>}
MCFirstGroups == {[c \in Clients |-> IF c \in Movers THEN "g1" ELSE Default]}
MCFirstCached == {<<<<"wb", "A", "g1">>, {"addr", "private", "badalias"}>>}
MCFirstConfigs == {Features \ {"ipv6", "rebind"}, Features \ {"filterResponse", "any", "ptr"}}
=============================================================================
