------------------------------- MODULE MCNet -------------------------------
(***************************************************************************)
(* One TCP connection, a name query and a second datagram flow compete for *)
(* two slots of the flow table.                                            *)
(***************************************************************************)
EXTENDS Net

MCDst == [web |-> "net", dns |-> "dns", ntp |-> "net"]
MCAsks == {<<"arp", "dns">>, <<"arp", "net">>, <<"ping", "gw">>, <<"ping", "dns">>,
           <<"discover", "gw">>, <<"request", "gw">>, <<"inform", "gw">>,
           <<"udp", "gw">>, <<"tcp", "gw">>}

\* A long download; a short one, an upload and both directions at once, each
\* with one disturbance; the table filling up; both directions undisturbed.
MCPlans == {<<4, 0, 0>>, <<2, 0, 1>>, <<0, 2, 1>>, <<1, 1, 1>>, <<0, 0, 2>>, <<2, 2, 0>>}
=============================================================================
