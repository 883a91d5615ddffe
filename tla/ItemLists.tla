----------------------------- MODULE ItemLists -----------------------------
(***************************************************************************)
(* Lists of playlist items as the Spotify client cuts and filters them:    *)
(* slices, filters, and the batches of a write (services/spotify/client).  *)
(***************************************************************************)
EXTENDS Integers, SequencesExt

CONSTANTS
    Tracks,       \* items that can be in a playlist
    Chunk         \* items per write (100)

ASSUME ItemsAssumption == Chunk \in Nat \ {0}

\* At most n items of s from index i on, as Python slices.
Slice(s, i, n) == SubSeq(s, i, Min({i + n - 1, Len(s)}))

\* The items of s in S.
Kept(s, S) ==
    LET kept[n \in 0..Len(s)] ==
          IF n = 0 THEN <<>>
          ELSE IF s[n] \in S THEN Append(kept[n - 1], s[n]) ELSE kept[n - 1]
    IN  kept[Len(s)]

\* The next request of a write, and what is left for the ones after it.
Batch(uris) == Slice(uris, 1, Chunk)

\* Mutant: a batch boundary is off by one.
Rest_dropsOne(uris) == SubSeq(uris, Chunk + 2, Len(uris))

Rest(uris) == SubSeq(uris, Chunk + 1, Len(uris))
=============================================================================
