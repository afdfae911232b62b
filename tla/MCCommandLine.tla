--------------------------- MODULE MCCommandLine ---------------------------
(* Up to two phrases after one of a few beginnings, with files of every kind. *)
EXTENDS CommandLine

Phrases ==
  { <<"--broker", "url2">>, <<"--broker">>, <<"--username", "-h">>, <<"--password", "x">>,
    <<"--mqtt-ca", "pem">>, <<"--mqtt-cert", "lost">>, <<"--mqtt-insecure">>,
    <<"--mqtt-servername", "name">>, <<"--interval", "0">>, <<"--interval", "5">>,
    <<"--interval", "soon">>, <<"--log-level", "info">>, <<"--log-level", "debug">>,
    <<"--log-level", "loud">>, <<"--once">>, <<"-h">>, <<"--help">>, <<"AA-01">>, <<"aa02">>,
    <<"--unknown">>, <<"--config", "file">>, <<"">>, <<"--broker", "">> }

Beginnings ==
  { <<>>, <<"--config", "file">>, <<"--broker", "url", "AA:01">>,
    <<"--config", "file", "--broker", "url">> }

MCArguments ==
  {start \o tail : start \in Beginnings,
                   tail \in {<<>>} \cup Phrases \cup {p \o q : p \in Phrases, q \in Phrases}}

\* An empty object, which an array also counts as, and a file with every member.
Empty == [member \in Members |-> Unset]
Full ==
  [Empty EXCEPT !.brokerUrl = <<"url3">>, !.username = <<"me">>, !.tlsCaPath = <<"pem">>,
                !.tlsKeyPath = <<"pem2">>, !.tlsServername = <<"name2">>,
                !.rejectUnauthorized = <<"yes">>, !.interval = <<7>>, !.runOnce = <<"yes">>,
                !.addresses = << <<"aa02", "AA:01">> >>, !.logLevel = <<"warn">>]

MCFiles ==
  { BadFile, Empty, Full, [Full EXCEPT !.runOnce = <<"no">>, !.tlsKeyPath = <<"lost">>],
    [Full EXCEPT !.password = Wrong], [Full EXCEPT !.addresses = << <<"bad">> >>],
    [Empty EXCEPT !.addresses = << <<>> >>, !.rejectUnauthorized = <<"no">>] }

MCSeconds == [word \in {"", "0", "5"} |-> IF word = "5" THEN 5 ELSE 0]
MCAddress ==
  [word \in {"AA:01", "AA-01", "aa02"} |-> IF word = "aa02" THEN "AA:02" ELSE "AA:01"]
=============================================================================
