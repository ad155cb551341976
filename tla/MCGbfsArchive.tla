----------------------------- MODULE MCGbfsArchive -----------------------------
(***************************************************************************)
(* Two feeds, each with one body, so that what is fetched again is there   *)
(* already.  One was published on day 1, the other gives no time.          *)
(***************************************************************************)
EXTENDS GbfsArchive

MCBodies ==
  {[feed |-> "station_status", published |-> 1, hash |-> 1],
   [feed |-> "station_information", published |-> None, hash |-> 2]}

MCFeeds == {"station_information", "station_status"}

MCRank == [station_information |-> 1, station_status |-> 2]

MCBytes == [manifest |-> 1, object |-> 2]

=============================================================================
