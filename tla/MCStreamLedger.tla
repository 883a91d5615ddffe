--------------------------- MODULE MCStreamLedger ---------------------------
(* Instances of StreamLedger for TLC.                                      *)
EXTENDS StreamLedger

\* The tracks and hours of up to five plays: a track is replayed, an hour holds
\* two plays, and the last play repeats a track of an earlier hour.
MCTrackOf == [p \in 1..MaxPlays |-> <<"t1", "t1", "t2", "t3", "t1">>[p]]
MCHourOf == [p \in 1..MaxPlays |-> (p - 1) \div 2]
MCHours == 0..((MaxPlays - 1) \div 2)
MCTracks == {"t1", "t2", "t3"}

\* Exports that overlap the polled plays.
MCExported == [u \in Users |-> {2, 3} \cap 1..MaxPlays]
=============================================================================
