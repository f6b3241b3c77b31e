------------------------------- MODULE MC_AAP -------------------------------
EXTENDS AAP

\* All four tools.
MCTools == {"aap_send", "aap_receive", "aap_test", "aap_config"}

\* An empty EID and a one-character EID: the length field at 0 and 1.
MCEids == {<<>>, <<97>>}

\* An empty payload and a two-byte one.
MCPayloads == {<<>>, <<52, 50>>}

\* A bundle id of one byte and one of two bytes.
MCBundleIds == {0, 300}

\* aap_config's argv.  The contact EID "d:1", or "d:)", which __str__
\* refuses; the CLA address "t:[1]" and the reachable EID "d:,]" hold the
\* list delimiters that only the parentheses around them keep apart.
MCConfigEids == {<<100, 58, 49>>, <<100, 58, 41>>}
MCClaAddresses == {<<116, 58, 91, 49, 93>>}
MCReachableLists == {<<>>, <<<<100, 58, 44, 93>>>>}

\* No -s (exit 1), or two contacts; the first with an odd duration.
MCContactArgs == {<<>>, <<<<2, 3, 500>>, <<5, 5, 500>>>>}

\* time.time() 7.5 s after the DTN epoch: the contacts start at 9.5 and
\* 12.5 s, which round() takes up and down, to the even second.
MCClocks == {[sec |-> 946684807, half |-> 1]}

====
