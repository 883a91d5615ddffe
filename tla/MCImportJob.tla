---------------------------- MODULE MCImportJob ----------------------------
(* Instances of ImportJob for TLC.                                         *)
EXTENDS ImportJob

play(at, uri) == [kind |-> "play", at |-> at, uri |-> uri]

\* A batch ends in the middle of the second file; a play is in the ledger
\* already, one occurs in both files, one names no track, one entry is
\* skipped.  The other export breaks off in its second file.
skip == [kind |-> "skip", at |-> 0, uri |-> NoUri]
bad == [kind |-> "bad", at |-> 0, uri |-> NoUri]
MCExports ==
    { << << play(1, "t1"), play(2, NoUri), play(3, "t2") >>,
         << play(3, "t2"), skip, play(4, "t1") >> >>,
      << << play(2, NoUri), play(3, "t2") >>, << play(4, "t1"), bad >> >> }
MCEntries == {play(1, "t1"), play(2, NoUri), play(3, "t2"), play(4, "t1"), skip, bad}
MCPrior == [k \in {<<1, "t1">>, <<2, NoUri>>, <<3, "t2">>, <<4, "t1">>} |->
                IF k = <<1, "t1">> THEN 1 ELSE 0]

\* The polls have stored a play at its start, the export lists it at its end.
FuzzyEntries == {play(80, "t1"), play(300, "t2")}
FuzzyExports == { << << play(80, "t1"), play(300, "t2") >> >> }
FuzzyPrior == [k \in {<<0, "t1">>, <<80, "t1">>, <<300, "t2">>} |->
                   IF k = <<0, "t1">> THEN 1 ELSE 0]
=============================================================================
