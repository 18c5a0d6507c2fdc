------------------------------- MODULE MCPeers -------------------------------
(***************************************************************************)
(* Instances of PeerSelection, PeerVector and Fullscrape for TLC.  They    *)
(* share no state and are checked in one run: a behaviour is one of the    *)
(* part it starts with and leaves the others as they begin.                *)
(***************************************************************************)
EXTENDS PeerSelection, PeerVector, Fullscrape

VARIABLE part

\* One vector; buckets of different sizes, empty ones in every place.
SomeLayouts == {<<6>>, <<2, 3>>, <<0, 4, 1>>, <<3, 0, 0, 2>>, <<1, 1, 1, 0>>}

\* The precision of the code.
TwoTo29 == 2^29

\* Five peers; their hashes fill the buckets unevenly.
FivePeers == 1..5
UnevenHash == <<3, 0, 1, 0, 4>>

\* The limits of the code, scaled to five peers.
SmallLimits == <<1, 2, 3, 4>>

\* Two torrents in each bucket; the first two chunks can fill to the last byte.
FourTorrents == 1..4
TwoBuckets == <<1, 1, 2, 2>>
ShortAndLong == <<2, 1, 2, 2>>

NothingWanted == SelectionInit /\ wanted = 0 /\ seeders = {} /\ size = <<6>>
NothingScraped == ScrapeInit /\ torrents = {}

PeersInit ==
    \/ part = "selection" /\ SelectionInit /\ Init /\ NothingScraped
    \/ part = "vectors" /\ NothingWanted /\ Init /\ NothingScraped
    \/ part = "scrape" /\ NothingWanted /\ Init /\ ScrapeInit

PeersNext ==
    /\ UNCHANGED part
    /\ \/ part = "selection" /\ SelectionNext /\ UNCHANGED <<vars, scrapeVars>>
       \/ part = "vectors" /\ Next /\ UNCHANGED <<selectionVars, scrapeVars>>
       \/ part = "scrape" /\ ScrapeNext /\ UNCHANGED <<selectionVars, vars>>

PeersSpec ==
    PeersInit /\ [][PeersNext]_<<part, selectionVars, vars, scrapeVars>> /\ SelectionRunsOn
=============================================================================
