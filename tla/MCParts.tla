------------------------------- MODULE MCParts -------------------------------
(***************************************************************************)
(* Four parts that share no state, checked in one run: a behaviour is one  *)
(* of the part it starts with, and leaves the others as they begin.        *)
(***************************************************************************)
EXTENDS MCSyncStream, QueryScan, Highscores, AccessNets

VARIABLE part

(* QueryScan: every query of up to three of these pieces, or of four plain ones, and another word behind it. *)
MCkeywords_announce == <<"unknown", "left", "info_hash", "numwant", "port", "event", "compact", "peer_id">>
MCkeywords_event == <<"STOPPED">>
MCBefore_query == <<3>>
Pieces == {<<3>>, <<EQ>>, <<AMP>>, <<0, 1>>, <<3, EQ, 0, 1>>, <<PCT, 1, 0>>, <<PCT>>, <<2, EQ, 0>>,
           <<4, EQ>>, <<5, EQ>>, <<6, EQ, 1>>, <<7, EQ>>, <<8, EQ>>, <<MINUS>>, <<BAD>>, <<ODD>>}
Plain == Pieces \ {<<PCT>>, <<MINUS>>, <<BAD>>, <<ODD>>}
Then(S, P) == {s \o p : s \in S, p \in P}
One == {<<>>} \cup Pieces
MCTexts == Then(Then(Then(One, One), One) \cup Then(Then(Then(Plain, Plain), Plain), Plain), {<<END, 3, END>>})

(* Highscores: the torrent in the middle has one peer at most to begin with. *)
MCBuckets == <<<<"t1", "t2">>, <<"t3">>>>
MCSeeders == {<<0, 0, 0, 0>>, <<1, 0, 0, 0>>}
MCAddresses_of == MCSeeders \cup {<<0, 0, 0, 1>>, <<0, 0, 1, 0>>}

(* AccessNets: neighbours in the upper half of a byte's values, and what holds them. *)
MCGiven == {net \in Nets : net.address[1] \in {2, 3} \/ net.bits < 2}

StreamIdle == StreamInit /\ torrents["proxyA"] = << >>
ScanIdle == page = "scrape" /\ text = <<END, 3, END>> /\ ScanInit
NoStats == StatsIdle /\ peers = [t \in Torrents_of |-> {}]

Init ==
    \/ part = "stream" /\ StreamInit /\ ScanIdle /\ NoStats /\ NetsInit
    \/ part = "scan" /\ StreamIdle /\ ScanInit /\ NoStats /\ NetsInit
    \/ part = "stats" /\ StreamIdle /\ ScanIdle /\ StatsInit /\ Cardinality(peers["t2"]) <= 1 /\ NetsInit
    \/ part = "nets" /\ StreamIdle /\ ScanIdle /\ NoStats /\ NetsInit

Next ==
    /\ UNCHANGED part
    /\ \/ part = "stream" /\ StreamNext /\ UNCHANGED <<scanVars, statsVars, netVars>>
       \/ part = "scan" /\ ScanNext /\ UNCHANGED <<streamVars, statsVars, netVars>>
       \/ part = "stats" /\ StatsNext /\ UNCHANGED <<streamVars, scanVars, netVars>>
       \/ part = "nets" /\ NetsNext /\ UNCHANGED <<streamVars, scanVars, statsVars>>

Spec == Init /\ [][Next]_<<part, streamVars, scanVars, statsVars, netVars>>

(* The types of the parts. *)
PartsTypeOK == StreamTypeOK /\ ScanTypeOK /\ StatsTypeOK /\ NetsTypeOK
=============================================================================
