-------------------------- MODULE PlaylistAlgebra --------------------------
(***************************************************************************)
(* What the playlist tools compute: orderings, selections and cuts of      *)
(* lists of items (services/tools).  An entry whose item is gone is        *)
(* NoItem; a local file has a uri and no id.                               *)
(***************************************************************************)
EXTENDS ItemLists

CONSTANTS
    NoItem,      \* an entry Spotify returns without its item
    Local,       \* items without an id, or marked as not playable
    ArtistOf,    \* ArtistOf[x]: the first artist
    SortKey      \* SortKey[x]: the attribute a sort goes by

ASSUME AlgebraAssumption ==
    /\ NoItem \notin Tracks /\ Local \subseteq Tracks
    /\ DOMAIN ArtistOf = Tracks /\ SortKey \in [Tracks -> Int]

\* _uris: what a tool keeps of the pages it reads.
Uris(entries) == Kept(entries, Tracks)

-----------------------------------------------------------------------------
(* Selections *)

Without(uris, S) == Kept(uris, Tracks \ S)

\* What becomes of v by F[1], F[2] and so on: a for loop.
Looped(F, v) ==
    LET after[n \in 0..Len(F)] == IF n = 0 THEN v ELSE F[n][after[n - 1]]
    IN  after[Len(F)]

\* The first of every uri.
Firsts(uris) ==
    LET keep(x) == [out \in Seq(Tracks) |-> IF x \in Range(out) THEN out ELSE Append(out, x)]
    IN  Looped([n \in 1..Len(uris) |-> keep(uris[n])], <<>>)

\* set_operation
SetOperation(a, b, op) ==
    CASE op = "subtract" -> Without(a, Range(b))
      [] op = "intersect" -> Kept(a, Range(b))
      [] op = "union" -> Firsts(a \o b)

\* is_unavailable
Unavailable(x) == x = NoItem \/ x \in Local

Count(x, plays) == Cardinality({i \in DOMAIN plays : plays[i] = x})

\* GROUP BY track, ORDER BY count DESC, LIMIT: ties fall as they may.
MostPlayed(plays, S, size) ==
    LET n == IF Cardinality(S) < size THEN Cardinality(S) ELSE size
    IN  {s \in [1..n -> S] :
            /\ \A i \in 1..n, j \in 1..n : i < j => s[i] # s[j] /\ Count(s[i], plays) >= Count(s[j], plays)
            /\ \A i \in 1..n, x \in S \ Range(s) : Count(s[i], plays) >= Count(x, plays)}

-----------------------------------------------------------------------------
(* Orderings *)

\* The elements of s in the order `before' of their positions, a set of pairs.
InOrder(s, before) ==
    [p \in DOMAIN s |->
        s[CHOOSE i \in DOMAIN s : Cardinality({j \in DOMAIN s : <<j, i>> \in before}) = p - 1]]

\* <<i, j>> if the i-th item stands before the j-th in an ascending sort.
Ascending(uris) ==
    {ij \in (DOMAIN uris) \X (DOMAIN uris) :
        LET k == SortKey[uris[ij[1]]]
            l == SortKey[uris[ij[2]]]
        IN  k < l \/ (k = l /\ ij[1] < ij[2])}

Descending(uris) ==
    {ij \in (DOMAIN uris) \X (DOMAIN uris) :
        LET k == SortKey[uris[ij[1]]]
            l == SortKey[uris[ij[2]]]
        IN  k > l \/ (k = l /\ ij[1] < ij[2])}

\* Mutant: equal items change their order in a descending sort.
SortItems_reversed(uris, desc) ==
    IF desc THEN Reverse(InOrder(uris, Ascending(uris))) ELSE InOrder(uris, Ascending(uris))

\* sort_items: Python's sorted, whose reverse=True keeps equal items in order.
SortItems(uris, desc) ==
    InOrder(uris, IF desc THEN Descending(uris) ELSE Ascending(uris))

\* fisher_yates: an index is drawn for every position from the last one on.
Draws(n) == {d \in [2..n -> 1..n] : \A i \in 2..n : d[i] <= i}

FisherYates(uris, draw) ==
    LET exchange(i) == [out \in [DOMAIN uris -> Range(uris)] |->
                          IF i = 1 THEN out
                          ELSE [out EXCEPT ![i] = out[draw[i]], ![draw[i]] = out[i]]]
    IN  Looped([n \in 1..Len(uris) |-> exchange(Len(uris) + 1 - n)], uris)

\* spread_artists: the next item is the first of another artist, else the first.
NextOf(out, pool) ==
    LET fit == {i \in DOMAIN pool : out = <<>> \/ ArtistOf[pool[i]] # ArtistOf[Last(out)]}
    IN  IF fit = {} THEN 1 ELSE CHOOSE j \in fit : \A k \in fit : j <= k

SpreadArtists(uris) ==
    LET move == [q \in [out : Seq(Tracks), pool : Seq(Tracks)] |->
                   LET i == NextOf(q.out, q.pool)
                   IN  [out |-> Append(q.out, q.pool[i]), pool |-> RemoveAt(q.pool, i)]]
    IN  Looped([n \in 1..Len(uris) |-> move], [out |-> <<>>, pool |-> uris]).out

\* Blender: one item of every list in turn.
RoundRobin(lists) ==
    LET longest == CHOOSE n \in {Len(lists[k]) : k \in DOMAIN lists} :
                       \A k \in DOMAIN lists : Len(lists[k]) <= n
        round(i) == FlattenSeq([k \in DOMAIN lists |->
                        IF i <= Len(lists[k]) THEN <<lists[k][i]>> ELSE <<>>])
    IN  FlattenSeq([i \in 1..longest |-> round(i)])

\* Splitter
Chunks(uris, size) ==
    [n \in 1..((Len(uris) + size - 1) \div size) |->
        SubSeq(uris, (n - 1) * size + 1, IF n * size < Len(uris) THEN n * size ELSE Len(uris))]
=============================================================================
