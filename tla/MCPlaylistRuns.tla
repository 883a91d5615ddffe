--------------------------- MODULE MCPlaylistRuns ---------------------------
(* Instances of PlaylistRuns for TLC.                                      *)
EXTENDS PlaylistRuns

\* A list of two pages and two batches; "c2" is another release of "c", and
\* "b" is banned.
MCTracks == {"b", "c", "c2"}
MCKeyOf == [x \in MCTracks |-> IF x = "c2" THEN "c" ELSE x]
MCStartList == <<"b", "c", "c2">>

\* A tool run next to a purge, or to another tool's.
ToolAndAnother == [r \in Runs |-> IF r = "t1" THEN {"reverse"} ELSE {"purge", "scan", "dedupe"}]
Purge == [r \in Runs |-> {"purge"}]
=============================================================================
