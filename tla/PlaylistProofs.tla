--------------------------- MODULE PlaylistProofs ---------------------------
(***************************************************************************)
(* What is proved of the two models of tool runs.  Of PlaylistRuns, for    *)
(* any number of runs, lists, pages and batches: its types; that nothing a *)
(* run takes out of the playlist is lost (Restorable), if the workers of   *)
(* purges live; and that a run which reports success has done its work     *)
(* (SuccessMeansDone).  Of ToolBuilds, for any jobs, lists, batches and    *)
(* faults: its types; that a run recorded as succeeded has written what    *)
(* its tool decided (DoneMeansDone); and that what a run takes away is     *)
(* saved, and a backup as complete as it says (BackupsSound).              *)
(*                                                                         *)
(* The list functions of the models are recursive, so the values they are  *)
(* CHOOSEn for are built first (OutcomesExist, LoopedIs), and what they    *)
(* compute then follows by induction over the length, as the least         *)
(* counterexample.                                                         *)
(***************************************************************************)
EXTENDS PlaylistRuns, ToolBuilds, FiniteSetTheorems, SequenceTheorems,
        WellFoundedInduction, TLAPS

LEMMA Bounds ==
    /\ PageSize \in Nat \ {0} /\ Chunk \in Nat \ {0}
    /\ MaxTries \in Nat \ {0} /\ MaxDeliveries \in Nat \ {0} /\ MaxEdits \in Nat
BY ConstantsAssumption, ItemsAssumption DEF ConstantsAssumption, ItemsAssumption

USE Bounds

-----------------------------------------------------------------------------
(* Induction over the length of a list, by the least counterexample *)

LEMMA Least ==
    ASSUME NEW N \in Nat, NEW S \in SUBSET (0..N), S # {}
    PROVE  \E x \in S : \A y \in S : x <= y
<1>1. IsWellFoundedOn(OpToRel(<, Nat), Nat)
  BY NatLessThanWellFounded
<1>2. S \subseteq Nat
  OBVIOUS
<1>3. PICK x \in S : \A y \in S : <<y, x>> \notin OpToRel(<, Nat)
  BY <1>1, <1>2, WFMin
<1>4. \A y \in S : ~(y < x)
  BY <1>2, <1>3 DEF OpToRel
<1>. QED  BY <1>2, <1>4

LEMMA UpTo ==
    ASSUME NEW N \in Nat, NEW S, 0 \in S, \A n \in 1..N : n - 1 \in S => n \in S
    PROVE  \A n \in 0..N : n \in S
<1>1. SUFFICES ASSUME (0..N) \ S # {} PROVE FALSE
  OBVIOUS
<1>2. PICK x \in (0..N) \ S : \A y \in (0..N) \ S : x <= y
  BY <1>1, Least
<1>3. x \in 1..N /\ x - 1 \in 0..N /\ ~(x <= x - 1)
  BY <1>2
<1>. QED  BY <1>2, <1>3

\* f[n] is the outcome of the first n steps F, functions on V, from v on.
Outcomes(V, N, F, v, f) ==
    f \in [0..N -> V] /\ f[0] = v /\ \A n \in 1..N : f[n] = F[n][f[n - 1]]

LEMMA OutcomesExist ==
    ASSUME NEW V, NEW N \in Nat, NEW F \in [1..N -> [V -> V]], NEW v \in V
    PROVE  \E f : Outcomes(V, N, F, v, f)
<1>. DEFINE Can(n) == \E f \in [0..n -> V] : f[0] = v /\ \A k \in 1..n : f[k] = F[k][f[k - 1]]
            S == {n \in 0..N : Can(n)}
<1>1. 0 \in S
  <2>. DEFINE g == [k \in 0..0 |-> v]
  <2>1. g \in [0..0 -> V] /\ g[0] = v /\ \A k \in 1..0 : g[k] = F[k][g[k - 1]]
    OBVIOUS
  <2>2. Can(0)
    BY <2>1
  <2>. HIDE DEF Can
  <2>. QED  BY <2>2
<1>2. ASSUME NEW n \in 1..N, n - 1 \in S PROVE n \in S
  <2>1. PICK f \in [0..n - 1 -> V] : f[0] = v /\ \A k \in 1..n - 1 : f[k] = F[k][f[k - 1]]
    BY <1>2
  <2>. DEFINE g == [k \in 0..n |-> IF k = n THEN F[n][f[n - 1]] ELSE f[k]]
  <2>2. f[n - 1] \in V /\ F[n] \in [V -> V]
    BY <2>1
  <2>3. g \in [0..n -> V]
    <3>1. ASSUME NEW k \in 0..n, k # n PROVE k \in 0..n - 1
      BY <3>1
    <3>. QED  BY <2>2, <3>1
  <2>4. g[0] = v
    BY <2>1
  <2>5. ASSUME NEW k \in 1..n PROVE g[k] = F[k][g[k - 1]]
    <3>1. g[k - 1] = f[k - 1]
      OBVIOUS
    <3>2. CASE k = n
      BY <3>1, <3>2
    <3>3. CASE k # n
      <4>1. k \in 1..n - 1
        BY <3>3
      <4>. QED  BY <2>1, <3>1, <3>3, <4>1
    <3>. QED  BY <3>2, <3>3
  <2>6. Can(n)
    BY <2>3, <2>4, <2>5
  <2>. HIDE DEF Can
  <2>. QED  BY <2>6
<1>. HIDE DEF S
<1>3. \A n \in 0..N : n \in S
  BY <1>1, <1>2, UpTo
<1>4. N \in S
  BY <1>3
<1>. USE DEF S
<1>. QED  BY <1>4 DEF Outcomes

-----------------------------------------------------------------------------
(* Slices *)

LEMMA MinIs ==
    ASSUME NEW a \in Int, NEW b \in Int
    PROVE  Min({a, b}) = IF a <= b THEN a ELSE b
<1>1. \E x \in {a, b} : \A y \in {a, b} : x <= y
  OBVIOUS
<1>2. PICK x \in {a, b} : x = Min({a, b}) /\ \A y \in {a, b} : x <= y
  BY <1>1 DEF Min
<1>. QED  BY <1>2

LEMMA SliceIs ==
    ASSUME NEW T, NEW s \in Seq(T), NEW i \in Nat \ {0}, NEW n \in Nat
    PROVE  Slice(s, i, n) = SubSeq(s, i, IF i + n - 1 <= Len(s) THEN i + n - 1 ELSE Len(s))
<1>1. i + n - 1 \in Int /\ Len(s) \in Int
  BY LenProperties
<1>. QED  BY <1>1, MinIs DEF Slice

LEMMA SubSeqRange ==
    ASSUME NEW T, NEW s \in Seq(T), NEW i \in Nat \ {0}, NEW j \in 0..Len(s)
    PROVE  /\ SubSeq(s, i, j) \in Seq(T)
           /\ Range(SubSeq(s, i, j)) = {s[k] : k \in i..j}
<1>. DEFINE t == SubSeq(s, i, j)
<1>. Len(s) \in Nat
  BY LenProperties
<1>0. \A k \in i..j : k \in 1..Len(s)
  OBVIOUS
<1>1. \A k \in i..j : s[k] \in T
  BY <1>0, ElementOfSeq
<1>2. /\ t \in Seq(T)
      /\ Len(t) = IF i <= j THEN j - i + 1 ELSE 0
      /\ \A k \in 1..j - i + 1 : t[k] = s[i + k - 1]
  BY <1>1, SubSeqProperties
<1>. HIDE DEF t
<1>3. Range(t) = {t[k] : k \in 1..Len(t)}
  BY <1>2, RangeEquality
<1>4. ASSUME NEW k \in i..j PROVE k - i + 1 \in 1..Len(t) /\ t[k - i + 1] = s[k]
  <2>1. k - i + 1 \in 1..j - i + 1 /\ i + (k - i + 1) - 1 = k /\ i <= j
    OBVIOUS
  <2>. QED  BY <1>2, <2>1
<1>5. \A k \in 1..Len(t) : i + k - 1 \in i..j /\ t[k] = s[i + k - 1]
  BY <1>2
<1>6. Range(t) \subseteq {s[k] : k \in i..j}
  BY <1>3, <1>5
<1>7. {s[k] : k \in i..j} \subseteq Range(t)
  BY <1>3, <1>4
<1>. QED  BY <1>2, <1>6, <1>7 DEF t

LEMMA AppendRange ==
    ASSUME NEW T, NEW s \in Seq(T), NEW x \in T
    PROVE  Append(s, x) \in Seq(T) /\ Range(Append(s, x)) = Range(s) \cup {x}
<1>1. <<x>> \in Seq(T)
  OBVIOUS
<1>3. Range(<<x>>) = {x}
  <2>1. DOMAIN <<x>> = {1}
    OBVIOUS
  <2>. QED  BY <2>1 DEF Range
<1>2. Append(s, x) = s \o <<x>>
  BY AppendIsConcat
<1>4. Append(s, x) \in Seq(T)
  BY AppendProperties
<1>5. Range(s \o <<x>>) = Range(s) \cup Range(<<x>>)
  BY ZenonT(40), <1>1, RangeConcatenation
<1>. QED  BY <1>2, <1>3, <1>4, <1>5

\* A page read behind the first k items of a list.
LEMMA NextPage ==
    ASSUME NEW T, NEW s \in Seq(T), NEW k \in 0..Len(s), NEW n \in Nat
    PROVE  LET m == IF k + n <= Len(s) THEN k + n ELSE Len(s)
           IN  /\ m \in k..Len(s)
               /\ SubSeq(s, 1, k) \o Slice(s, k + 1, n) = SubSeq(s, 1, m)
<1>. DEFINE m == IF k + n <= Len(s) THEN k + n ELSE Len(s)
<1>. Len(s) \in Nat
  BY LenProperties
<1>1. m \in k..Len(s) /\ k + 1 \in Nat \ {0}
  OBVIOUS
<1>2. Slice(s, k + 1, n) = SubSeq(s, k + 1, m)
  <2>1. m = IF k + 1 + n - 1 <= Len(s) THEN k + 1 + n - 1 ELSE Len(s)
    OBVIOUS
  <2>. QED  BY <1>1, <2>1, SliceIs
<1>3. SubSeq(s, 1, k) \o SubSeq(s, k + 1, m) = SubSeq(s, 1, m)
  <2>1. 1 \in 1..Len(s) + 1 /\ k \in 1 - 1..Len(s) /\ m \in k..Len(s)
    BY <1>1
  <2>. QED  BY <2>1, ConcatAdjacentSubSeq
<1>. QED  BY <1>1, <1>2, <1>3

LEMMA SliceType ==
    ASSUME NEW T, NEW s \in Seq(T), NEW i \in Nat \ {0}, NEW n \in Nat
    PROVE  /\ Slice(s, i, n) \in Seq(T)
           /\ Range(Slice(s, i, n)) \subseteq Range(s)
<1>. DEFINE j == IF i + n - 1 <= Len(s) THEN i + n - 1 ELSE Len(s)
<1>. Len(s) \in Nat
  BY LenProperties
<1>0. j \in 0..Len(s)
  OBVIOUS
<1>1. j \in 0..Len(s) /\ Slice(s, i, n) = SubSeq(s, i, j)
  BY <1>0, SliceIs
<1>. HIDE DEF j
<1>2. /\ SubSeq(s, i, j) \in Seq(T)
      /\ Range(SubSeq(s, i, j)) = {s[k] : k \in i..j}
  BY <1>1, SubSeqRange
<1>3. {s[k] : k \in i..j} \subseteq Range(s)
  <2>1. Range(s) = {s[k] : k \in 1..Len(s)}
    BY RangeEquality
  <2>2. i..j \subseteq 1..Len(s)
    BY <1>1
  <2>. QED  BY <2>1, <2>2
<1>. QED  BY <1>1, <1>2, <1>3

\* The first batch of a write, and what is left.
LEMMA BatchAndRest ==
    ASSUME NEW T, NEW s \in Seq(T)
    PROVE  /\ Batch(s) \in Seq(T) /\ Rest(s) \in Seq(T)
           /\ Range(s) = Range(Batch(s)) \cup Range(Rest(s))
           /\ s = Batch(s) \o Rest(s)
           /\ Rest(s) = <<>> => Batch(s) = s
<1>. DEFINE j == IF Chunk <= Len(s) THEN Chunk ELSE Len(s)
<1>0. Len(s) \in Nat
  BY LenProperties
<1>1. j \in 0..Len(s) /\ Batch(s) = SubSeq(s, 1, j)
  <2>1. j = IF 1 + Chunk - 1 <= Len(s) THEN 1 + Chunk - 1 ELSE Len(s)
    BY <1>0
  <2>2. j \in 0..Len(s)
    BY <1>0
  <2>3. Slice(s, 1, Chunk) = SubSeq(s, 1, IF 1 + Chunk - 1 <= Len(s) THEN 1 + Chunk - 1 ELSE Len(s))
    <3>1. 1 \in Nat \ {0} /\ Chunk \in Nat
      OBVIOUS
    <3>. QED  BY <3>1, SliceIs
  <2>4. Batch(s) = Slice(s, 1, Chunk)
    BY DEF Batch
  <2>. HIDE DEF j
  <2>. QED  BY <2>1, <2>2, <2>3, <2>4
<1>2. Rest(s) = SubSeq(s, j + 1, Len(s))
  <2>1. CASE Chunk <= Len(s)
    BY <2>1 DEF Rest
  <2>2. CASE Chunk > Len(s)
    <3>1. Chunk + 1 \in Int /\ Len(s) \in Int /\ j + 1 \in Int
      BY <1>0
    <3>2. Len(s) < Chunk + 1 /\ Len(s) < j + 1
      BY <1>0, <2>2
    <3>3. SubSeq(s, Chunk + 1, Len(s)) = <<>>
      BY <3>1, <3>2, SubSeqEmpty
    <3>4. SubSeq(s, j + 1, Len(s)) = <<>>
      BY <3>1, <3>2, SubSeqEmpty
    <3>5. Rest(s) = SubSeq(s, Chunk + 1, Len(s))
      BY DEF Rest
    <3>6. Rest(s) = <<>>
      BY <3>3, <3>5
    <3>. HIDE DEF j
    <3>. QED  BY <3>4, <3>6
  <2>3. Chunk <= Len(s) \/ Chunk > Len(s)
    BY <1>0
  <2>. HIDE DEF j
  <2>. QED  BY <2>1, <2>2, <2>3
<1>. HIDE DEF j
<1>3. /\ Batch(s) \in Seq(T)
      /\ Range(Batch(s)) = {s[k] : k \in 1..j}
  BY <1>1, SubSeqRange
<1>4. /\ Rest(s) \in Seq(T)
      /\ Range(Rest(s)) = {s[k] : k \in j + 1..Len(s)}
  BY <1>0, <1>1, <1>2, SubSeqRange
<1>5. Range(s) = {s[k] : k \in 1..Len(s)}
  BY RangeEquality
<1>6. 1..Len(s) = (1..j) \cup (j + 1..Len(s))
  BY <1>0, <1>1
<1>7. Range(s) = Range(Batch(s)) \cup Range(Rest(s))
  BY <1>3, <1>4, <1>5, <1>6
<1>8. Batch(s) \o Rest(s) = s
  <2>1. 1 \in 1..Len(s) + 1 /\ j \in 1 - 1..Len(s) /\ Len(s) \in j..Len(s)
    BY <1>0, <1>1
  <2>2. SubSeq(s, 1, j) \o SubSeq(s, j + 1, Len(s)) = SubSeq(s, 1, Len(s))
    BY <2>1, ConcatAdjacentSubSeq
  <2>. QED  BY <1>1, <1>2, <2>2, SubSeqFull
<1>9. Rest(s) = <<>> => Batch(s) = s
  BY <1>3, <1>8, ConcatEmptySeq
<1>. QED  BY <1>3, <1>4, <1>7, <1>8, <1>9

-----------------------------------------------------------------------------
(* Selections *)

\* The function that Kept recurses by.
Keeps(f, s, S) ==
    /\ f[0] = <<>> /\ f[Len(s)] = Kept(s, S)
    /\ \A n \in 1..Len(s) : f[n] = IF s[n] \in S THEN Append(f[n - 1], s[n]) ELSE f[n - 1]

LEMMA KeepsExists ==
    ASSUME NEW T, NEW s \in Seq(T), NEW S
    PROVE  \E f : Keeps(f, s, S)
<1>. DEFINE Grown(n, x) == IF s[n] \in S THEN Append(x, s[n]) ELSE x
            N == Len(s)
            V == Seq(T)
            F == [n \in 1..N |-> [x \in V |-> Grown(n, x)]]
            Body(f) == [n \in 0..N |-> IF n = 0 THEN <<>> ELSE Grown(n, f[n - 1])]
            h == CHOOSE f : f = Body(f)
<1>1. N \in Nat
  BY LenProperties
<1>2. ASSUME NEW n \in 1..N, NEW x \in V PROVE Grown(n, x) \in V
  <2>1. s[n] \in T
    BY ElementOfSeq
  <2>. QED  BY <2>1, AppendProperties
<1>3. <<>> \in V /\ F \in [1..N -> [V -> V]]
  BY <1>2, EmptySeq
<1>4. \A n \in 1..N, x \in V : F[n][x] = Grown(n, x)
  OBVIOUS
<1>. HIDE DEF N, V, F, Grown
<1>5. PICK f : Outcomes(V, N, F, <<>>, f)
  BY <1>1, <1>3, OutcomesExist
<1>6. f \in [0..N -> V] /\ f[0] = <<>> /\ \A n \in 1..N : f[n] = F[n][f[n - 1]]
  BY <1>5 DEF Outcomes
<1>7. ASSUME NEW n \in 1..N PROVE f[n] = Grown(n, f[n - 1])
  <2>1. n - 1 \in 0..N
    BY <1>1
  <2>. QED  BY <1>4, <1>6, <2>1
<1>8. f = Body(f)
  BY <1>1, <1>6, <1>7
<1>9. h = Body(h)
  <2>. HIDE DEF Body
  <2>. QED  BY <1>8, Zenon
<1>10. Kept(s, S) = h[N]
  BY Zenon DEF Kept, N, Grown
<1>. HIDE DEF h
<1>11. h[0] = <<>> /\ \A n \in 1..N : h[n] = Grown(n, h[n - 1])
  BY <1>1, <1>9
<1>. QED  BY <1>10, <1>11 DEF Keeps, N, Grown

LEMMA KeptIs ==
    ASSUME NEW T, NEW s \in Seq(T), NEW S
    PROVE  Kept(s, S) \in Seq(T) /\ Range(Kept(s, S)) = Range(s) \cap S
<1>0. PICK f : Keeps(f, s, S)
  BY KeepsExists
<1>. DEFINE N == Len(s)
            Seen(n) == {s[k] : k \in 1..n}
            G == {n \in 0..N : f[n] \in Seq(T) /\ Range(f[n]) = Seen(n) \cap S}
<1>1. N \in Nat
  BY LenProperties
<1>2. 0 \in G
  <2>1. <<>> \in Seq(T) /\ Range(<<>>) = {}
    BY EmptySeq DEF Range
  <2>2. Seen(0) = {}
    OBVIOUS
  <2>3. f[0] = <<>>
    BY <1>0 DEF Keeps
  <2>. HIDE DEF N, Seen
  <2>4. f[0] \in Seq(T) /\ Range(f[0]) = Seen(0) \cap S
    BY <2>1, <2>2, <2>3
  <2>. QED  BY <1>1, <2>4
<1>3. ASSUME NEW n \in 1..N, n - 1 \in G PROVE n \in G
  <2>1. f[n - 1] \in Seq(T) /\ Range(f[n - 1]) = Seen(n - 1) \cap S
    BY <1>3
  <2>2. s[n] \in T
    BY ElementOfSeq
  <2>3. Seen(n) = Seen(n - 1) \cup {s[n]}
    <3>1. 1..n = (1..n - 1) \cup {n}
      BY <1>1
    <3>. QED  BY <3>1
  <2>. HIDE DEF Seen
  <2>4. CASE s[n] \in S
    <3>1. f[n] = Append(f[n - 1], s[n])
      BY <1>0, <2>4 DEF Keeps
    <3>2. f[n] \in Seq(T) /\ Range(f[n]) = Range(f[n - 1]) \cup {s[n]}
      BY <2>1, <2>2, <3>1, AppendRange
    <3>. QED  BY <1>1, <2>1, <2>3, <2>4, <3>2
  <2>5. CASE s[n] \notin S
    <3>1. f[n] = f[n - 1]
      BY <1>0, <2>5 DEF Keeps
    <3>. QED  BY <1>1, <2>1, <2>3, <2>5, <3>1
  <2>. QED  BY <2>4, <2>5
<1>4. N \in G
  <2>. HIDE DEF G, N
  <2>1. \A n \in 0..N : n \in G
    BY <1>1, <1>2, <1>3, UpTo
  <2>. QED  BY <1>1, <2>1
<1>5. Range(s) = Seen(N)
  BY RangeEquality
<1>6. f[N] = Kept(s, S)
  BY <1>0 DEF Keeps
<1>. QED  BY <1>4, <1>5, <1>6

\* The function that Deduped recurses by.
Dedupes(f, s) ==
    /\ f[0] = <<>> /\ f[Len(s)] = Deduped(s)
    /\ \A n \in 1..Len(s) : f[n] = IF KeyOf[s[n]] \in Keys(f[n - 1]) THEN f[n - 1]
                                                                    ELSE Append(f[n - 1], s[n])

LEMMA DedupesExists ==
    ASSUME NEW s \in Seq(Tracks)
    PROVE  \E f : Dedupes(f, s)
<1>. DEFINE Grown(n, x) == IF KeyOf[s[n]] \in Keys(x) THEN x ELSE Append(x, s[n])
            N == Len(s)
            V == Seq(Tracks)
            F == [n \in 1..N |-> [x \in V |-> Grown(n, x)]]
            Body(f) == [n \in 0..N |-> IF n = 0 THEN <<>> ELSE Grown(n, f[n - 1])]
            h == CHOOSE f : f = Body(f)
<1>1. N \in Nat
  BY LenProperties
<1>2. ASSUME NEW n \in 1..N, NEW x \in V PROVE Grown(n, x) \in V
  <2>1. s[n] \in Tracks
    BY ElementOfSeq
  <2>. QED  BY <2>1, AppendProperties
<1>3. <<>> \in V /\ F \in [1..N -> [V -> V]]
  BY <1>2, EmptySeq
<1>4. \A n \in 1..N, x \in V : F[n][x] = Grown(n, x)
  OBVIOUS
<1>. HIDE DEF N, V, F, Grown
<1>5. PICK f : Outcomes(V, N, F, <<>>, f)
  BY <1>1, <1>3, OutcomesExist
<1>6. f \in [0..N -> V] /\ f[0] = <<>> /\ \A n \in 1..N : f[n] = F[n][f[n - 1]]
  BY <1>5 DEF Outcomes
<1>7. ASSUME NEW n \in 1..N PROVE f[n] = Grown(n, f[n - 1])
  <2>1. n - 1 \in 0..N
    BY <1>1
  <2>. QED  BY <1>4, <1>6, <2>1
<1>8. f = Body(f)
  BY <1>1, <1>6, <1>7
<1>9. h = Body(h)
  <2>. HIDE DEF Body
  <2>. QED  BY <1>8, Zenon
<1>10. Deduped(s) = h[N]
  BY Zenon DEF Deduped, N, Grown
<1>. HIDE DEF h
<1>11. h[0] = <<>> /\ \A n \in 1..N : h[n] = Grown(n, h[n - 1])
  BY <1>1, <1>9
<1>. QED  BY <1>10, <1>11 DEF Dedupes, N, Grown

LEMMA DedupedIs ==
    ASSUME NEW s \in Seq(Tracks)
    PROVE  /\ Deduped(s) \in Seq(Tracks)
           /\ Range(Deduped(s)) \subseteq Range(s)
           /\ Keys(Deduped(s)) = Keys(s)
<1>0. PICK f : Dedupes(f, s)
  BY DedupesExists
<1>. DEFINE N == Len(s)
            Seen(n) == {s[k] : k \in 1..n}
            Good(n) == /\ f[n] \in Seq(Tracks) /\ Range(f[n]) \subseteq Seen(n)
                       /\ \A x \in Seen(n) : KeyOf[x] \in Keys(f[n])
            G == {n \in 0..N : Good(n)}
<1>1. N \in Nat
  BY LenProperties
<1>2. 0 \in G
  <2>1. <<>> \in Seq(Tracks) /\ Range(<<>>) = {}
    BY EmptySeq DEF Range
  <2>2. Seen(0) = {}
    OBVIOUS
  <2>3. f[0] = <<>>
    BY <1>0 DEF Dedupes
  <2>. HIDE DEF N, Seen
  <2>4. Good(0)
    BY <2>1, <2>2, <2>3
  <2>. QED  BY <1>1, <2>4
<1>3. ASSUME NEW n \in 1..N, n - 1 \in G PROVE n \in G
  <2>. DEFINE m == n - 1
  <2>1. Good(m)
    BY <1>3
  <2>2. s[n] \in Tracks
    BY ElementOfSeq
  <2>3. Seen(n) = Seen(m) \cup {s[n]}
    <3>1. 1..n = (1..m) \cup {n}
      BY <1>1
    <3>. QED  BY <3>1
  <2>4. f[n] = IF KeyOf[s[n]] \in Keys(f[m]) THEN f[m] ELSE Append(f[m], s[n])
    BY <1>0 DEF Dedupes
  <2>. HIDE DEF Seen, m
  <2>5. CASE KeyOf[s[n]] \in Keys(f[m])
    BY <2>1, <2>3, <2>4, <2>5
  <2>6. CASE KeyOf[s[n]] \notin Keys(f[m])
    <3>1. f[n] \in Seq(Tracks) /\ Range(f[n]) = Range(f[m]) \cup {s[n]}
      BY <2>1, <2>2, <2>4, <2>6, AppendRange
    <3>. QED  BY <2>1, <2>3, <3>1 DEF Keys
  <2>7. Good(n)
    BY <2>5, <2>6
  <2>. HIDE DEF Good
  <2>. QED  BY <1>1, <2>7
<1>4. Good(N)
  <2>. HIDE DEF Good, N
  <2>1. N \in G
    <3>. HIDE DEF G
    <3>1. \A n \in 0..N : n \in G
      BY <1>1, <1>2, <1>3, UpTo
    <3>. QED  BY <1>1, <3>1
  <2>. QED  BY <2>1
<1>5. Range(s) = Seen(N)
  BY RangeEquality
<1>6. f[N] = Deduped(s)
  BY <1>0 DEF Dedupes
<1>. HIDE DEF Seen, N
<1>. QED  BY <1>4, <1>5, <1>6 DEF Keys

LEMMA ReverseIs ==
    ASSUME NEW T, NEW s \in Seq(T)
    PROVE  Reverse(s) \in Seq(T) /\ Range(Reverse(s)) = Range(s)
<1>. DEFINE N == Len(s)
<1>1. N \in Nat
  BY LenProperties
<1>2. \A i \in 1..N : N - i + 1 \in 1..N
  BY <1>1
<1>3. \A i \in 1..N : s[N - i + 1] \in T
  BY <1>2, ElementOfSeq
<1>. HIDE DEF N
<1>4. Reverse(s) = [i \in 1..N |-> s[N - i + 1]]
  BY DEF Reverse, N
<1>5. Reverse(s) \in [1..N -> T]
  BY <1>3, <1>4
<1>6. Reverse(s) \in Seq(T)
  BY <1>1, <1>5, SeqDef
<1>7. Range(s) = {s[i] : i \in 1..N}
  BY RangeEquality DEF N
<1>8. Range(Reverse(s)) = {s[N - i + 1] : i \in 1..N}
  BY <1>4 DEF Range
<1>9. \A i \in 1..N : N - (N - i + 1) + 1 = i
  BY <1>1
<1>. QED  BY <1>2, <1>6, <1>7, <1>8, <1>9

\* A run that rewrites the list keeps the recordings it reads.
LEMMA NewOrderIs ==
    ASSUME NEW r, NEW s \in Seq(Tracks)
    PROVE  /\ NewOrder(r, s) \in Seq(Tracks)
           /\ Range(NewOrder(r, s)) \subseteq Range(s)
           /\ Keys(NewOrder(r, s)) = Keys(s)
BY ReverseIs, DedupedIs DEF NewOrder, Keys

-----------------------------------------------------------------------------
(* Types *)

TaskType == [pc : Phases, off : Nat, read : Seq(Tracks), todo : Seq(Tracks),
             flushed : BOOLEAN, tries : 1..MaxTries, deliveries : 1..MaxDeliveries]
RowType(n) == [kind : Kinds, status : {"queued", "running", "succeeded", "failed"}, backup : 0..n]
BackupType == [run : Runs, uris : Seq(Tracks)]

LEMMA TaskIs ==
    ASSUME NEW phase \in Phases, NEW n \in 1..MaxDeliveries
    PROVE  Task(phase, n) \in TaskType
BY EmptySeq DEF Task, TaskType

LEMMA TypeInit == Init => TypeOK
<1>. SUFFICES ASSUME Init PROVE TypeOK
  OBVIOUS
<1>1. backups \in Seq(BackupType) /\ Len(backups) = 0
  BY EmptySeq DEF Init
<1>2. run \in [Runs -> TaskType]
  <2>1. "queued" \in Phases /\ 1 \in 1..MaxDeliveries
    BY DEF Phases
  <2>. QED  BY <2>1, TaskIs DEF Init
<1>3. rows \in [Runs -> RowType(Len(backups))]
  BY <1>1 DEF Init, RowType
<1>4. taken \in [Runs -> SUBSET Tracks] /\ disturbed \in [Runs -> BOOLEAN]
  BY DEF Init
<1>5. edits \in 0..MaxEdits
  BY DEF Init
<1>7. edited \in BOOLEAN
  BY DEF Init
<1>6. playlist \in Seq(Tracks)
  BY ConstantsAssumption DEF Init, ConstantsAssumption
<1>. QED  BY <1>1, <1>2, <1>3, <1>4, <1>5, <1>6, <1>7 DEF TypeOK, TaskType, RowType, BackupType

\* A batch is accepted.
LEMMA GoesOn ==
    ASSUME NEW q \in TaskType, NEW uris \in Seq(Tracks), NEW phase \in Phases
    PROVE  [q EXCEPT !.todo = uris, !.tries = 1, !.pc = phase] \in TaskType
<1>1. 1 \in 1..MaxTries
  OBVIOUS
<1>. DEFINE tries == 1..MaxTries
<1>. HIDE DEF tries
<1>2. q \in [pc : Phases, off : Nat, read : Seq(Tracks), todo : Seq(Tracks),
             flushed : BOOLEAN, tries : tries, deliveries : 1..MaxDeliveries]
  BY DEF TaskType, tries
<1>3. 1 \in tries
  BY <1>1 DEF tries
<1>. QED  BY <1>2, <1>3 DEF TaskType, tries

LEMMA RowGrows ==
    ASSUME NEW n \in Nat, NEW row \in RowType(n)
    PROVE  row \in RowType(n + 1) /\ [row EXCEPT !.backup = n + 1] \in RowType(n + 1)
BY DEF RowType

LEMMA AppendBackup ==
    ASSUME TypeOK, NEW r \in Runs, NEW uris \in Seq(Tracks),
           backups' = Append(backups, [run |-> r, uris |-> uris])
    PROVE  /\ backups' \in Seq(BackupType) /\ Len(backups') = Len(backups) + 1
           /\ Len(backups) \in Nat
           /\ \A i \in 1..Len(backups) : backups'[i] = backups[i]
           /\ backups'[Len(backups) + 1] = [run |-> r, uris |-> uris]
<1>. DEFINE b == [run |-> r, uris |-> uris]
<1>1. b \in BackupType /\ backups \in Seq(BackupType)
  BY DEF BackupType, TypeOK
<1>. HIDE DEF b
<1>2. backups' = Append(backups, b)
  BY DEF b
<1>. QED  BY <1>1, <1>2, AppendProperties, LenProperties DEF b

\* The fields of a task.
LEMMA Fields ==
    ASSUME TypeOK, NEW r \in Runs
    PROVE  /\ run[r] \in TaskType /\ rows[r] \in RowType(Len(backups))
           /\ Len(playlist) \in Nat /\ Len(backups) \in Nat
BY LenProperties DEF TypeOK, TaskType, RowType

LEMMA TypeStep == TypeOK /\ [Next]_vars => TypeOK'
<1>. SUFFICES ASSUME TypeOK, [Next]_vars PROVE TypeOK'
  OBVIOUS
<1>0. /\ playlist \in Seq(Tracks) /\ backups \in Seq(BackupType)
      /\ rows \in [Runs -> RowType(Len(backups))] /\ run \in [Runs -> TaskType]
  BY DEF TypeOK, TaskType, RowType, BackupType
<1>1. ASSUME NEW r \in Runs, Start(r) PROVE TypeOK'
  <2>1. [run[r] EXCEPT !.pc = "snapshot"] \in TaskType
    BY Fields DEF TaskType, Phases
  <2>2. run' \in [Runs -> TaskType]
    BY <1>1, <1>0, <2>1 DEF Start
  <2>3. rows' \in [Runs -> RowType(Len(backups))]
    BY <1>1, <1>0 DEF Start, RowType
  <2>. QED  BY <1>1, <2>2, <2>3 DEF Start, TypeOK, TaskType, RowType
<1>2. ASSUME NEW r \in Runs, ReadPage(r) PROVE TypeOK'
  <2>. DEFINE q == run[r]
              uris == q.read \o Slice(playlist, q.off + 1, PageSize)
              next == IF q.off + PageSize < Len(playlist)
                      THEN [q EXCEPT !.read = uris, !.off = NextOffset(q)]
                      ELSE IF q.pc = "snapshot"
                      THEN [q EXCEPT !.read = uris, !.off = 0, !.pc = "backup"]
                      ELSE [q EXCEPT !.read = uris, !.off = 0,
                                     !.pc = IF Rewrites(r, uris) THEN "put" ELSE "succeeded",
                                     !.todo = IF Rewrites(r, uris) THEN NewOrder(r, uris) ELSE <<>>]
  <2>1. q \in TaskType
    BY Fields
  <2>2. uris \in Seq(Tracks)
    <3>1. q.off + 1 \in Nat \ {0} /\ PageSize \in Nat /\ q.read \in Seq(Tracks)
      BY <2>1 DEF TaskType
    <3>2. Slice(playlist, q.off + 1, PageSize) \in Seq(Tracks)
      BY <1>0, <3>1, SliceType
    <3>. QED  BY <3>1, <3>2, ConcatProperties
  <2>3. run' = [run EXCEPT ![r] = next]
    BY <1>2 DEF ReadPage
  <2>4. NewOrder(r, uris) \in Seq(Tracks) /\ <<>> \in Seq(Tracks)
    <3>. HIDE DEF uris
    <3>. QED  BY <2>2, NewOrderIs, EmptySeq
  <2>5. NextOffset(q) \in Nat
    BY <2>1 DEF NextOffset, TaskType
  <2>6. next \in TaskType
    <3>. HIDE DEF uris, q
    <3>. QED  BY <2>1, <2>2, <2>4, <2>5 DEF TaskType, Phases
  <2>7. run' \in [Runs -> TaskType]
    BY <1>0, <2>3, <2>6
  <2>. QED  BY <1>2, <2>7 DEF ReadPage, TypeOK, TaskType, history
<1>3. ASSUME NEW r \in Runs, CommitBackup(r) PROVE TypeOK'
  <2>1. run[r] \in TaskType /\ run[r].read \in Seq(Tracks)
    BY Fields DEF TaskType
  <2>2. backups' \in Seq(BackupType) /\ Len(backups') = Len(backups) + 1 /\ Len(backups) \in Nat
    BY <1>3, <2>1, AppendBackup DEF CommitBackup
  <2>3. [run[r] EXCEPT !.pc = "read", !.read = <<>>] \in TaskType
    BY <2>1, EmptySeq DEF TaskType, Phases
  <2>4. run' \in [Runs -> TaskType]
    BY <1>3, <1>0, <2>3 DEF CommitBackup
  <2>5. rows' \in [Runs -> RowType(Len(backups'))]
    <3>1. \A o \in Runs : /\ rows[o] \in RowType(Len(backups) + 1)
                           /\ [rows[o] EXCEPT !.backup = Len(backups) + 1] \in RowType(Len(backups) + 1)
      BY <1>0, <2>2, RowGrows
    <3>2. rows' = [rows EXCEPT ![r] = [rows[r] EXCEPT !.backup = Len(backups) + 1]]
      BY <1>3 DEF CommitBackup
    <3>. QED  BY <1>0, <2>2, <3>1, <3>2
  <2>. QED  BY <1>3, <2>2, <2>4, <2>5 DEF CommitBackup, TypeOK, TaskType, RowType, BackupType, history
<1>4. ASSUME NEW r \in Runs, FlushBackup(r) PROVE TypeOK'
  <2>. DEFINE q == run[r]
              matched == IF rows[r].kind = "scan" THEN <<>> ELSE Matched(q.read)
              next == [q EXCEPT !.todo = matched, !.flushed = (matched # <<>>),
                                !.pc = IF matched = <<>> THEN "succeeded" ELSE "remove"]
  <2>1. q \in TaskType /\ q.read \in Seq(Tracks)
    BY Fields DEF TaskType
  <2>2. matched \in Seq(Tracks)
    BY <2>1, KeptIs, EmptySeq DEF Matched
  <2>3. run' = [run EXCEPT ![r] = next]
    BY <1>4 DEF FlushBackup
  <2>4. next \in TaskType
    <3>. HIDE DEF matched, q
    <3>. QED  BY <2>1, <2>2 DEF TaskType, Phases
  <2>5. run' \in [Runs -> TaskType]
    BY <1>0, <2>3, <2>4
  <2>. QED  BY <1>4, <2>5 DEF FlushBackup, TypeOK, TaskType, history
<1>5. ASSUME NEW r \in Runs, Write(r) PROVE TypeOK'
  <2>. DEFINE q == run[r]
  <2>1. q \in TaskType /\ q.todo \in Seq(Tracks)
    BY Fields DEF TaskType
  <2>2. PICK applied \in BOOLEAN, answer \in {"ok", "transient", "error"} :
          /\ answer = "ok" => applied
          /\ playlist' = IF applied THEN Effect(q) ELSE playlist
          /\ run' = [run EXCEPT ![r] =
               CASE answer = "ok" -> Advanced(q)
                 [] answer = "transient" /\ MayRetry(q) -> [q EXCEPT !.tries = @ + 1]
                 [] OTHER -> [q EXCEPT !.pc = "failed"]]
    BY <1>5 DEF Write
  <2>3. Batch(q.todo) \in Seq(Tracks) /\ Rest(q.todo) \in Seq(Tracks)
    BY <2>1, BatchAndRest
  <2>4. playlist' \in Seq(Tracks)
    <3>1. q.pc \in {"put", "post", "remove"}
      BY <1>5 DEF Write
    <3>2. playlist \o Batch(q.todo) \in Seq(Tracks)
      BY <1>0, <2>3, ConcatProperties
    <3>3. Kept(playlist, Tracks \ Range(Batch(q.todo))) \in Seq(Tracks)
      BY <1>0, KeptIs
    <3>4. Effect(q) \in Seq(Tracks)
      BY <2>3, <3>1, <3>2, <3>3 DEF Effect
    <3>. QED  BY <1>0, <2>2, <3>4
  <2>5. Advanced(q) \in TaskType
    <3>. DEFINE pc == IF Rest(q.todo) = <<>> THEN "succeeded" ELSE IF q.pc = "put" THEN "post" ELSE q.pc
    <3>1. pc \in Phases
      BY <2>1 DEF TaskType, Phases
    <3>2. Advanced(q) = [q EXCEPT !.todo = Rest(q.todo), !.tries = 1, !.pc = pc]
      BY DEF Advanced
    <3>. HIDE DEF q, pc
    <3>3. [q EXCEPT !.todo = Rest(q.todo), !.tries = 1, !.pc = pc] \in TaskType
      BY <2>1, <2>3, <3>1, GoesOn
    <3>. QED  BY <3>2, <3>3
  <2>6. MayRetry(q) => [q EXCEPT !.tries = @ + 1] \in TaskType
    <3>1. MayRetry(q) => q.tries + 1 \in 1..MaxTries
      BY <2>1 DEF MayRetry, TaskType
    <3>. HIDE DEF q
    <3>. QED  BY <2>1, <3>1 DEF TaskType
  <2>7. [q EXCEPT !.pc = "failed"] \in TaskType
    BY <2>1 DEF TaskType, Phases
  <2>8. run' \in [Runs -> TaskType]
    BY <1>0, <2>2, <2>5, <2>6, <2>7
  <2>9. Range(playlist) \subseteq Tracks
    BY <1>0, RangeOfSeq
  <2>10. taken' \in [Runs -> SUBSET Tracks]
    BY <1>5, <2>9 DEF Write, TypeOK
  <2>11. disturbed' \in [Runs -> BOOLEAN]
    BY <1>5 DEF Write, TypeOK, InFlight
  <2>. QED  BY <1>5, <2>4, <2>8, <2>10, <2>11 DEF Write, TypeOK, TaskType
<1>6. ASSUME NEW r \in Runs, ReadFails(r) PROVE TypeOK'
  <2>1. [run[r] EXCEPT !.pc = "failed"] \in TaskType
    BY Fields DEF TaskType, Phases
  <2>2. run' \in [Runs -> TaskType]
    BY <1>6, <1>0, <2>1 DEF ReadFails
  <2>. QED  BY <1>6, <2>2 DEF ReadFails, TypeOK, TaskType, history
<1>7. ASSUME NEW r \in Runs, NEW result \in {"succeeded", "failed"}, End(r, result) PROVE TypeOK'
  <2>1. run[r] \in TaskType /\ run[r].read \in Seq(Tracks)
    BY Fields DEF TaskType
  <2>2. run' \in [Runs -> TaskType]
    <3>1. Task("ended", run[r].deliveries) \in TaskType
      BY <2>1, TaskIs DEF TaskType, Phases
    <3>. QED  BY <1>7, <1>0, <3>1 DEF End
  <2>3. CASE run[r].flushed
    <3>1. backups' \in Seq(BackupType) /\ Len(backups') = Len(backups) + 1 /\ Len(backups) \in Nat
      BY <1>7, <2>1, <2>3, AppendBackup DEF End
    <3>2. rows' \in [Runs -> RowType(Len(backups'))]
      <4>1. \A o \in Runs : /\ rows[o] \in RowType(Len(backups) + 1)
                             /\ [rows[o] EXCEPT !.backup = Len(backups) + 1] \in RowType(Len(backups) + 1)
        BY <1>0, <3>1, RowGrows
      <4>2. rows' = [rows EXCEPT ![r] = [[rows[r] EXCEPT !.backup = Len(backups) + 1]
                                            EXCEPT !.status = result]]
        BY <1>7, <1>0, <2>3 DEF End, RowType
      <4>3. [[rows[r] EXCEPT !.backup = Len(backups) + 1] EXCEPT !.status = result]
                \in RowType(Len(backups) + 1)
        BY <4>1 DEF RowType
      <4>. QED  BY <1>0, <3>1, <4>1, <4>2, <4>3
    <3>. QED  BY <1>7, <2>2, <3>1, <3>2 DEF End, TypeOK, TaskType, RowType, BackupType, history
  <2>4. CASE ~run[r].flushed
    <3>1. rows' \in [Runs -> RowType(Len(backups))] /\ backups' = backups
      BY ZenonT(40), <1>7, <1>0, <2>4 DEF End, RowType
    <3>. QED  BY <1>7, <2>2, <3>1 DEF End, TypeOK, TaskType, RowType, history
  <2>. QED  BY <2>3, <2>4
<1>8. ASSUME NEW r \in Runs, Crash(r) PROVE TypeOK'
  <2>1. run[r].deliveries \in 1..MaxDeliveries
    BY Fields DEF TaskType
  <2>2. run[r].deliveries < MaxDeliveries => Task("queued", run[r].deliveries + 1) \in TaskType
    BY <2>1, TaskIs DEF Phases
  <2>3. Task("lost", run[r].deliveries) \in TaskType
    BY <2>1, TaskIs DEF Phases
  <2>4. run' \in [Runs -> TaskType]
    BY <1>8, <1>0, <2>2, <2>3 DEF Crash
  <2>. QED  BY <1>8, <2>4 DEF Crash, TypeOK, TaskType, history
<1>9. ASSUME Edit PROVE TypeOK'
  <2>1. playlist' \in Seq(Tracks)
    <3>1. ASSUME NEW x \in Tracks, playlist' = Append(playlist, x) PROVE playlist' \in Seq(Tracks)
      BY <1>0, <3>1, AppendProperties
    <3>2. ASSUME NEW i \in DOMAIN playlist, playlist' = RemoveAt(playlist, i)
          PROVE playlist' \in Seq(Tracks)
      <4>1. i \in 1..Len(playlist) /\ Len(playlist) \in Nat
        BY <1>0, LenProperties
      <4>2. SubSeq(playlist, 1, i - 1) \in Seq(Tracks)
        BY <1>0, <4>1, SubSeqRange
      <4>3. SubSeq(playlist, i + 1, Len(playlist)) \in Seq(Tracks)
        BY <1>0, <4>1, SubSeqRange
      <4>. QED  BY <3>2, <4>2, <4>3, ConcatProperties DEF RemoveAt
    <3>. QED  BY <1>9, <3>1, <3>2 DEF Edit
  <2>2. edited' \in BOOLEAN /\ disturbed' \in [Runs -> BOOLEAN] /\ edits' \in 0..MaxEdits
    BY <1>9 DEF Edit, TypeOK, InFlight
  <2>. QED  BY <1>9, <2>1, <2>2 DEF Edit, TypeOK
<1>10. CASE UNCHANGED vars
  BY <1>10 DEF vars, TypeOK
<1>. QED  BY <1>1, <1>2, <1>3, <1>4, <1>5, <1>6, <1>7, <1>8, <1>9, <1>10 DEF Next

\* Every backup_id a run has is that of a committed row, and all state has its type.
THEOREM TypeCorrect == Spec => []TypeOK
BY TypeInit, TypeStep, PTL DEF Spec

-----------------------------------------------------------------------------
(* Where a run is *)

\* What the phase of a run says of its task: only a purge flushes a backup, and keeps
\* it to the end; and what it has read is the list as far as it got, if nobody else has
\* written meanwhile.
RunOK(r) ==
    LET q == run[r]
    IN  /\ rows[r].kind \in KindsOf[r]
        /\ q.pc \in {"read", "put", "post"} => ~Purges(r)
        /\ q.pc = "remove" => rows[r].kind = "purge" /\ q.flushed
        /\ q.flushed => rows[r].kind = "purge" /\ q.pc \in {"remove", "succeeded", "failed"}
        /\ q.pc \in {"queued", "ended", "lost"} => q.read = <<>>
        /\ q.pc \notin {"snapshot", "read", "failed"} => q.off = 0
        /\ IF q.pc \in {"put", "post", "remove", "succeeded", "failed"}
           THEN Range(q.todo) \subseteq Range(q.read) ELSE q.todo = <<>>
        /\ ~disturbed[r] /\ q.pc \in {"snapshot", "read"} =>
              q.off <= Len(playlist) /\ q.read = SubSeq(playlist, 1, q.off)
        /\ ~disturbed[r] /\ q.pc = "backup" => q.read = playlist

RunInv == \A r \in Runs : RunOK(r)

LEMMA EmptyRange == Range(<<>>) = {}
BY DEF Range

LEMMA RunInit == Init => RunInv
BY EmptyRange DEF Init, RunInv, RunOK, Task, Purges

\* A run that is not touched, over a list that is not written.
LEMMA OthersOK ==
    ASSUME RunInv, NEW o \in Runs, run'[o] = run[o], rows'[o].kind = rows[o].kind,
           \/ playlist' = playlist /\ disturbed'[o] = disturbed[o]
           \/ disturbed'[o] = (disturbed[o] \/ InFlight(o))
    PROVE  RunOK(o)'
<1>1. RunOK(o)
  BY DEF RunInv
<1>. QED  BY <1>1 DEF RunOK, Purges, InFlight

\* What a run has read after one page more.
LEMMA PageIs ==
    ASSUME TypeOK, RunInv, NEW r \in Runs, run[r].pc \in {"snapshot", "read"}
    PROVE  LET q == run[r]
               uris == q.read \o Slice(playlist, q.off + 1, PageSize)
           IN  /\ uris \in Seq(Tracks)
               /\ Range(uris) \subseteq Range(q.read) \cup Range(playlist)
               /\ ~disturbed[r] =>
                    uris = IF q.off + PageSize < Len(playlist)
                           THEN SubSeq(playlist, 1, q.off + PageSize) ELSE playlist
<1>. DEFINE q == run[r]
            page == Slice(playlist, q.off + 1, PageSize)
            uris == q.read \o page
            m == IF q.off + PageSize <= Len(playlist) THEN q.off + PageSize ELSE Len(playlist)
<1>1. q.off \in Nat /\ q.read \in Seq(Tracks) /\ playlist \in Seq(Tracks) /\ Len(playlist) \in Nat
  BY Fields DEF TaskType, TypeOK
<1>2. page \in Seq(Tracks) /\ Range(page) \subseteq Range(playlist)
  <2>1. q.off + 1 \in Nat \ {0} /\ PageSize \in Nat
    BY <1>1
  <2>. QED  BY <1>1, <2>1, SliceType
<1>. HIDE DEF q
<1>3. uris \in Seq(Tracks) /\ Range(uris) = Range(q.read) \cup Range(page)
  <2>. HIDE DEF page
  <2>. QED  BY <1>1, <1>2, ConcatProperties, RangeConcatenation
<1>4. ASSUME ~disturbed[r]
      PROVE  uris = IF q.off + PageSize < Len(playlist)
                    THEN SubSeq(playlist, 1, q.off + PageSize) ELSE playlist
  <2>1. q.off \in 0..Len(playlist) /\ q.read = SubSeq(playlist, 1, q.off)
    BY <1>1, <1>4 DEF RunInv, RunOK, q
  <2>2. uris = SubSeq(playlist, 1, m)
    <3>1. PageSize \in Nat
      OBVIOUS
    <3>. QED  BY <1>1, <2>1, <3>1, NextPage
  <2>3. SubSeq(playlist, 1, Len(playlist)) = playlist
    BY <1>1, SubSeqFull
  <2>4. CASE q.off + PageSize < Len(playlist)
    <3>1. m = q.off + PageSize
      BY <1>1, <2>4
    <3>. HIDE DEF m, uris
    <3>. QED  BY <2>2, <2>4, <3>1
  <2>5. CASE ~(q.off + PageSize < Len(playlist))
    <3>1. m = Len(playlist)
      BY <1>1, <2>5
    <3>. HIDE DEF m, uris
    <3>. QED  BY <2>2, <2>3, <2>5, <3>1
  <2>. QED  BY <2>4, <2>5
<1>. QED  BY <1>2, <1>3, <1>4 DEF q

\* What a request leaves of the task: it goes on, tries again, or fails.
LEMMA WriteIs ==
    ASSUME TypeOK, NEW r \in Runs, Write(r)
    PROVE  LET q == run[r]
           IN  /\ q.pc \in {"put", "post", "remove"} /\ q.todo \in Seq(Tracks)
               /\ playlist' \in {playlist, Effect(q)}
               /\ \/ run'[r] = Advanced(q) /\ playlist' = Effect(q)
                  \/ run'[r] = [q EXCEPT !.tries = @ + 1]
                  \/ run'[r] = [q EXCEPT !.pc = "failed"]
               /\ \A o \in Runs : o # r => run'[o] = run[o]
<1>. DEFINE q == run[r]
<1>1. q.todo \in Seq(Tracks)
  BY Fields DEF TaskType
<1>2. run \in [Runs -> TaskType]
  BY DEF TypeOK, TaskType
<1>3. PICK applied \in BOOLEAN, answer \in {"ok", "transient", "error"} :
        /\ answer = "ok" => applied
        /\ playlist' = IF applied THEN Effect(q) ELSE playlist
        /\ run' = [run EXCEPT ![r] =
             CASE answer = "ok" -> Advanced(q)
               [] answer = "transient" /\ MayRetry(q) -> [q EXCEPT !.tries = @ + 1]
               [] OTHER -> [q EXCEPT !.pc = "failed"]]
  BY DEF Write
<1>4. playlist' \in {playlist, Effect(q)} /\ (answer = "ok" => playlist' = Effect(q))
  BY <1>3
<1>5. \/ run' = [run EXCEPT ![r] = Advanced(q)] /\ answer = "ok"
      \/ run' = [run EXCEPT ![r] = [q EXCEPT !.tries = @ + 1]]
      \/ run' = [run EXCEPT ![r] = [q EXCEPT !.pc = "failed"]]
  BY <1>3
<1>6. q.pc \in {"put", "post", "remove"}
  BY DEF Write
<1>. HIDE DEF q
<1>. QED  BY <1>1, <1>2, <1>4, <1>5, <1>6 DEF q

LEMMA EffectIs ==
    ASSUME TypeOK, NEW q, q.todo \in Seq(Tracks)
    PROVE  LET new == Range(Effect(q))
           IN  /\ q.pc = "put" => Effect(q) = Batch(q.todo)
               /\ q.pc = "post" => new = Range(playlist) \cup Range(Batch(q.todo))
               /\ q.pc = "remove" => new = Range(playlist) \ Range(Batch(q.todo))
<1>1. Batch(q.todo) \in Seq(Tracks) /\ playlist \in Seq(Tracks)
  BY BatchAndRest DEF TypeOK
<1>2. Range(playlist \o Batch(q.todo)) = Range(playlist) \cup Range(Batch(q.todo))
  BY <1>1, RangeConcatenation
<1>3. Range(playlist) \subseteq Tracks
  BY <1>1, RangeOfSeq
<1>4. Range(Kept(playlist, Tracks \ Range(Batch(q.todo)))) = Range(playlist) \ Range(Batch(q.todo))
  BY <1>1, <1>3, KeptIs
<1>5. q.pc = "put" => Effect(q) = Batch(q.todo)
  BY DEF Effect
<1>6. q.pc = "post" => Effect(q) = playlist \o Batch(q.todo)
  BY DEF Effect
<1>7. q.pc = "remove" => Effect(q) = Kept(playlist, Tracks \ Range(Batch(q.todo)))
  BY DEF Effect
<1>. QED  BY <1>2, <1>4, <1>5, <1>6, <1>7

LEMMA RunStep == TypeOK /\ RunInv /\ [Next]_vars => RunInv'
<1>. SUFFICES ASSUME TypeOK, RunInv, [Next]_vars PROVE RunInv'
  OBVIOUS
<1>0. /\ rows \in [Runs -> RowType(Len(backups))] /\ run \in [Runs -> TaskType]
      /\ \A r \in Runs : RunOK(r)
  BY DEF TypeOK, TaskType, RowType, RunInv
<1>1. ASSUME NEW r \in Runs, Start(r) PROVE RunInv'
  <2>1. RunOK(r)'
    <3>1. /\ run'[r] = [run[r] EXCEPT !.pc = "snapshot"] /\ rows'[r].kind = rows[r].kind
          /\ run[r].pc = "queued" /\ playlist' = playlist
      BY <1>0, <1>1 DEF Start, RowType
    <3>2. run[r].read = <<>> /\ run[r].todo = <<>> /\ run[r].off = 0 /\ ~run[r].flushed
      BY <1>0, <3>1 DEF RunOK
    <3>3. Len(playlist) \in Nat /\ SubSeq(playlist, 1, 0) = <<>>
      BY Fields, SubSeqEmpty
    <3>4. rows[r].kind \in KindsOf[r]
      BY <1>0 DEF RunOK
    <3>5. /\ run'[r].read = <<>> /\ run'[r].todo = <<>> /\ run'[r].off = 0 /\ ~run'[r].flushed
          /\ run'[r].pc = "snapshot"
      BY <1>0, <3>1, <3>2 DEF TaskType
    <3>6. /\ run'[r].off <= Len(playlist') /\ run'[r].read = SubSeq(playlist', 1, run'[r].off)
          /\ rows'[r].kind \in KindsOf[r]
      <4>1. 0 <= Len(playlist')
        BY <3>1, <3>3
      <4>2. SubSeq(playlist', 1, run'[r].off) = <<>>
        BY <3>1, <3>3, <3>5
      <4>3. rows'[r].kind \in KindsOf[r]
        BY <3>1, <3>4
      <4>. QED  BY <3>5, <4>1, <4>2, <4>3
    <3>. QED  BY <3>5, <3>6 DEF RunOK
  <2>2. ASSUME NEW o \in Runs, o # r PROVE RunOK(o)'
    BY <1>0, <1>1, <2>2, OthersOK DEF Start, RowType, TypeOK
  <2>. QED  BY <2>1, <2>2 DEF RunInv
<1>2. ASSUME NEW r \in Runs, ReadPage(r) PROVE RunInv'
  <2>. DEFINE q == run[r]
              uris == q.read \o Slice(playlist, q.off + 1, PageSize)
  <2>1. q \in TaskType /\ q.pc \in {"snapshot", "read"} /\ RunOK(r)
    BY <1>0, <1>2 DEF ReadPage
  <2>2. /\ uris \in Seq(Tracks)
        /\ ~disturbed[r] => uris = IF q.off + PageSize < Len(playlist)
                                   THEN SubSeq(playlist, 1, q.off + PageSize) ELSE playlist
    BY <2>1, PageIs
  <2>3. Range(NewOrder(r, uris)) \subseteq Range(uris)
    <3>. HIDE DEF uris
    <3>. QED  BY <2>2, NewOrderIs
  <2>4. /\ playlist' = playlist /\ rows' = rows /\ disturbed' = disturbed
        /\ \A o \in Runs : o # r => run'[o] = run[o]
    BY <1>0, <1>2 DEF ReadPage, history
  <2>5. CASE q.off + PageSize < Len(playlist)
    <3>1. run'[r] = [q EXCEPT !.read = uris, !.off = NextOffset(q)]
      BY <1>0, <1>2, <2>5 DEF ReadPage
    <3>2. /\ run'[r].pc = q.pc /\ run'[r].read = uris /\ run'[r].off = q.off + PageSize
          /\ run'[r].todo = q.todo /\ run'[r].flushed = q.flushed
      BY <2>1, <3>1 DEF NextOffset, TaskType
    <3>3. q.off + PageSize <= Len(playlist)
      BY <2>1, <2>5, Fields DEF TaskType
    <3>. HIDE DEF uris
    <3>. QED  BY ZenonT(40), <2>1, <2>2, <2>4, <2>5, <3>2, <3>3, OthersOK DEF RunOK, RunInv, Purges
  <2>6. CASE ~(q.off + PageSize < Len(playlist)) /\ q.pc = "snapshot"
    <3>1. run'[r] = [q EXCEPT !.read = uris, !.off = 0, !.pc = "backup"]
      BY <1>0, <1>2, <2>6 DEF ReadPage
    <3>2. /\ run'[r].pc = "backup" /\ run'[r].read = uris /\ run'[r].off = 0
          /\ run'[r].todo = q.todo /\ run'[r].flushed = q.flushed
      BY <2>1, <3>1 DEF TaskType
    <3>. HIDE DEF uris
    <3>. QED  BY <2>1, <2>2, <2>4, <2>6, <3>2, OthersOK DEF RunOK, RunInv, Purges
  <2>7. CASE ~(q.off + PageSize < Len(playlist)) /\ q.pc = "read"
    <3>. DEFINE next == IF Rewrites(r, uris) THEN "put" ELSE "succeeded"
                todo == IF Rewrites(r, uris) THEN NewOrder(r, uris) ELSE <<>>
    <3>1. run'[r] = [q EXCEPT !.read = uris, !.off = 0, !.pc = next, !.todo = todo]
      BY <1>0, <1>2, <2>7 DEF ReadPage
    <3>2. next \in {"put", "succeeded"} /\ Range(todo) \subseteq Range(uris)
      BY <2>3, EmptyRange
    <3>. HIDE DEF next, todo
    <3>3. /\ run'[r].pc = next /\ run'[r].read = uris /\ run'[r].off = 0
          /\ run'[r].todo = todo /\ run'[r].flushed = q.flushed
      BY <2>1, <3>1 DEF TaskType
    <3>. HIDE DEF uris
    <3>. QED  BY <2>1, <2>2, <2>4, <2>7, <3>2, <3>3, OthersOK DEF RunOK, RunInv, Purges
  <2>. QED  BY <2>1, <2>5, <2>6, <2>7
<1>3. ASSUME NEW r \in Runs, CommitBackup(r) PROVE RunInv'
  <2>. DEFINE q == run[r]
  <2>1. /\ q \in TaskType /\ q.pc = "backup" /\ ~Purges(r) /\ RunOK(r)
        /\ run'[r] = [q EXCEPT !.pc = "read", !.read = <<>>]
    BY <1>0, <1>3 DEF CommitBackup
  <2>2. /\ run'[r].pc = "read" /\ run'[r].read = <<>> /\ run'[r].off = q.off
        /\ run'[r].todo = q.todo /\ run'[r].flushed = q.flushed
    BY <2>1 DEF TaskType
  <2>3. /\ playlist' = playlist /\ disturbed' = disturbed
        /\ \A o \in Runs : rows'[o].kind = rows[o].kind /\ (o # r => run'[o] = run[o])
    BY <1>0, <1>3 DEF CommitBackup, history, RowType
  <2>4. Len(playlist) \in Nat /\ SubSeq(playlist, 1, 0) = <<>>
    BY Fields, SubSeqEmpty
  <2>5. RunOK(r)'
    <3>1. q.off = 0 /\ q.todo = <<>> /\ ~q.flushed /\ rows[r].kind \in KindsOf[r]
      BY <2>1 DEF RunOK
    <3>2. run'[r].off <= Len(playlist') /\ run'[r].read = SubSeq(playlist', 1, run'[r].off)
      BY <2>2, <2>3, <2>4, <3>1
    <3>3. ~Purges(r)'
      BY <2>1, <2>3 DEF Purges
    <3>. HIDE DEF q
    <3>. QED  BY <2>2, <2>3, <3>1, <3>2, <3>3 DEF RunOK
  <2>. QED  BY <2>3, <2>5, OthersOK DEF RunInv
<1>4. ASSUME NEW r \in Runs, FlushBackup(r) PROVE RunInv'
  <2>. DEFINE q == run[r]
              matched == IF rows[r].kind = "scan" THEN <<>> ELSE Matched(q.read)
              next == IF matched = <<>> THEN "succeeded" ELSE "remove"
  <2>1. /\ q \in TaskType /\ q.pc = "backup" /\ Purges(r) /\ RunOK(r) /\ q.read \in Seq(Tracks)
        /\ run'[r] = [q EXCEPT !.todo = matched, !.flushed = (matched # <<>>), !.pc = next]
    BY <1>0, <1>4 DEF FlushBackup, TaskType
  <2>2. Range(matched) \subseteq Range(q.read)
    BY <2>1, KeptIs, EmptyRange DEF Matched
  <2>3. matched # <<>> => rows[r].kind = "purge"
    BY <2>1 DEF Purges
  <2>. HIDE DEF matched
  <2>4. /\ run'[r].pc = next /\ run'[r].read = q.read /\ run'[r].off = q.off
        /\ run'[r].todo = matched /\ run'[r].flushed = (matched # <<>>)
    BY <2>1 DEF TaskType
  <2>5. /\ playlist' = playlist /\ disturbed' = disturbed
        /\ \A o \in Runs : rows'[o].kind = rows[o].kind /\ (o # r => run'[o] = run[o])
    BY <1>0, <1>4 DEF FlushBackup, history
  <2>. QED  BY ZenonT(40), <2>1, <2>2, <2>3, <2>4, <2>5, OthersOK DEF RunOK, RunInv, Purges
<1>5. ASSUME NEW r \in Runs, Write(r) PROVE RunInv'
  <2>. DEFINE q == run[r]
  <2>1. /\ q.pc \in {"put", "post", "remove"} /\ q.todo \in Seq(Tracks)
        /\ \/ run'[r] = Advanced(q)
           \/ run'[r] = [q EXCEPT !.tries = @ + 1]
           \/ run'[r] = [q EXCEPT !.pc = "failed"]
        /\ \A o \in Runs : o # r => run'[o] = run[o]
    BY <1>5, WriteIs
  <2>2. q \in TaskType /\ RunOK(r)
    BY <1>0
  <2>3. Range(Rest(q.todo)) \subseteq Range(q.todo)
    BY <2>1, BatchAndRest
  <2>4. /\ run'[r].read = q.read /\ run'[r].off = q.off /\ run'[r].flushed = q.flushed
        /\ run'[r].todo \in {q.todo, Rest(q.todo)}
        /\ \/ run'[r].pc \in {q.pc, "succeeded", "failed"}
           \/ q.pc = "put" /\ run'[r].pc = "post"
    <3>1. CASE run'[r] = Advanced(q)
      <4>. DEFINE next == IF Rest(q.todo) = <<>> THEN "succeeded" ELSE IF q.pc = "put" THEN "post" ELSE q.pc
      <4>1. run'[r] = [q EXCEPT !.todo = Rest(q.todo), !.tries = 1, !.pc = next]
        BY <3>1 DEF Advanced
      <4>2. next \in {q.pc, "succeeded"} \/ (q.pc = "put" /\ next = "post")
        OBVIOUS
      <4>. HIDE DEF next, q
      <4>. QED  BY <2>2, <4>1, <4>2 DEF TaskType
    <3>2. CASE run'[r] = [q EXCEPT !.tries = @ + 1]
      BY <2>2, <3>2 DEF TaskType
    <3>3. CASE run'[r] = [q EXCEPT !.pc = "failed"]
      BY <2>2, <3>3 DEF TaskType
    <3>. QED  BY <2>1, <3>1, <3>2, <3>3
  <2>5. /\ rows' = rows
        /\ disturbed' = [o \in Runs |-> disturbed[o] \/ (o # r /\ InFlight(o))]
    BY <1>5 DEF Write
  <2>6. RunOK(r)'
    BY <2>1, <2>2, <2>3, <2>4, <2>5 DEF RunOK, Purges
  <2>. QED  BY <2>1, <2>5, <2>6, OthersOK DEF RunInv
<1>6. ASSUME NEW r \in Runs, ReadFails(r) PROVE RunInv'
  <2>. DEFINE q == run[r]
  <2>1. /\ q \in TaskType /\ q.pc \in {"snapshot", "read"} /\ RunOK(r)
        /\ run'[r] = [q EXCEPT !.pc = "failed"]
        /\ playlist' = playlist /\ disturbed' = disturbed /\ rows' = rows
        /\ \A o \in Runs : o # r => run'[o] = run[o]
    BY <1>0, <1>6 DEF ReadFails, history
  <2>2. /\ run'[r].pc = "failed" /\ run'[r].read = q.read /\ run'[r].off = q.off
        /\ run'[r].todo = q.todo /\ run'[r].flushed = q.flushed
    BY <2>1 DEF TaskType
  <2>. QED  BY <2>1, <2>2, OthersOK, EmptyRange DEF RunOK, RunInv, Purges
<1>7. ASSUME NEW r \in Runs, NEW result \in {"succeeded", "failed"}, End(r, result) PROVE RunInv'
  <2>1. /\ run'[r] = Task("ended", run[r].deliveries)
        /\ playlist' = playlist /\ disturbed' = disturbed
        /\ \A o \in Runs : rows'[o].kind = rows[o].kind /\ (o # r => run'[o] = run[o])
    BY <1>0, <1>7 DEF End, history, RowType
  <2>2. RunOK(r) /\ RunOK(r)'
    <3>1. /\ run'[r].pc = "ended" /\ run'[r].read = <<>> /\ run'[r].todo = <<>>
          /\ run'[r].off = 0 /\ ~run'[r].flushed
      BY <2>1 DEF Task
    <3>. QED  BY <1>0, <2>1, <3>1 DEF RunOK, Purges
  <2>. QED  BY <2>1, <2>2, OthersOK DEF RunInv
<1>8. ASSUME NEW r \in Runs, Crash(r) PROVE RunInv'
  <2>1. /\ run'[r].pc \in {"queued", "lost"} /\ run'[r].read = <<>> /\ run'[r].todo = <<>>
        /\ run'[r].off = 0 /\ ~run'[r].flushed
        /\ playlist' = playlist /\ disturbed' = disturbed /\ rows' = rows
        /\ \A o \in Runs : o # r => run'[o] = run[o]
    BY <1>0, <1>8 DEF Crash, history, Task
  <2>2. RunOK(r) /\ RunOK(r)'
    BY <1>0, <2>1 DEF RunOK, Purges
  <2>. QED  BY <2>1, <2>2, OthersOK DEF RunInv
<1>9. ASSUME Edit PROVE RunInv'
  BY <1>9, OthersOK DEF Edit, RunInv
<1>10. CASE UNCHANGED vars
  BY <1>10, OthersOK DEF vars, RunInv
<1>. QED  BY <1>1, <1>2, <1>3, <1>4, <1>5, <1>6, <1>7, <1>8, <1>9, <1>10 DEF Next

LEMMA RunTheorem == Spec => [](TypeOK /\ RunInv)
<1>1. TypeOK /\ RunInv /\ [Next]_vars => (TypeOK /\ RunInv)'
  BY TypeStep, RunStep
<1>2. Init => TypeOK /\ RunInv
  BY TypeInit, RunInit
<1>. QED  BY <1>1, <1>2, PTL DEF Spec

-----------------------------------------------------------------------------
(* What is saved *)

\* The workers of purges do not die: a backup that is only flushed would be lost.
PurgesLive == \A r \in Crashable : "purge" \notin KindsOf[r]

Backup == Saved \cup Flushed
Covered == Range(playlist) \subseteq Backup

LEMMA SavedIs ==
    ASSUME TypeOK, NEW r \in Runs, NEW uris \in Seq(Tracks),
           backups' = Append(backups, [run |-> r, uris |-> uris])
    PROVE  Saved' = Saved \cup Range(uris)
<1>. DEFINE N == Len(backups)
<1>1. /\ backups' \in Seq(BackupType) /\ Len(backups') = N + 1 /\ N \in Nat
      /\ \A i \in 1..N : backups'[i] = backups[i]
      /\ backups'[N + 1].uris = uris
  BY AppendBackup
<1>2. DOMAIN backups' = 1..N + 1 /\ DOMAIN backups = 1..N
  BY <1>1, LenProperties DEF TypeOK
<1>3. DOMAIN backups' = DOMAIN backups \cup {N + 1}
  BY <1>1, <1>2
<1>4. \A i \in DOMAIN backups : backups'[i] = backups[i]
  BY <1>1, <1>2
<1>. HIDE DEF N
<1>. QED  BY <1>1, <1>3, <1>4 DEF Saved

\* Nothing that is saved is lost.
LEMMA BackupGrows ==
    ASSUME PurgesLive, TypeOK, RunInv, [Next]_vars
    PROVE  Backup \subseteq Backup'
<1>0. \A r \in Runs : RunOK(r)
  BY DEF RunInv
<1>1. run \in [Runs -> TaskType]
  BY DEF TypeOK, TaskType
<1>2. ASSUME NEW r \in Runs, ~run[r].flushed, \A o \in Runs : o # r => run'[o] = run[o],
             Saved \subseteq Saved'
      PROVE  Backup \subseteq Backup'
  BY <1>2 DEF Backup, Flushed
<1>3. ASSUME NEW r \in Runs, Start(r) PROVE Backup \subseteq Backup'
  <2>1. ~run[r].flushed
    BY <1>0, <1>3 DEF RunOK, Start
  <2>. QED  BY <1>1, <1>2, <1>3, <2>1 DEF Start, Saved
<1>4. ASSUME NEW r \in Runs, ReadPage(r) PROVE Backup \subseteq Backup'
  <2>1. ~run[r].flushed
    BY <1>0, <1>4 DEF RunOK, ReadPage
  <2>. QED  BY <1>1, <1>2, <1>4, <2>1 DEF ReadPage, Saved
<1>5. ASSUME NEW r \in Runs, CommitBackup(r) PROVE Backup \subseteq Backup'
  <2>1. ~run[r].flushed
    BY <1>0, <1>5 DEF RunOK, CommitBackup
  <2>2. Saved' = Saved \cup Range(run[r].read)
    BY <1>1, <1>5, SavedIs DEF CommitBackup, TaskType
  <2>. QED  BY <1>1, <1>2, <1>5, <2>1, <2>2 DEF CommitBackup
<1>6. ASSUME NEW r \in Runs, FlushBackup(r) PROVE Backup \subseteq Backup'
  <2>1. ~run[r].flushed
    BY <1>0, <1>6 DEF RunOK, FlushBackup
  <2>. QED  BY <1>1, <1>2, <1>6, <2>1 DEF FlushBackup, Saved
<1>7. ASSUME NEW r \in Runs, Write(r) PROVE Backup \subseteq Backup'
  <2>1. /\ \A o \in Runs : o # r => run'[o] = run[o]
        /\ \/ run'[r] = Advanced(run[r])
           \/ run'[r] = [run[r] EXCEPT !.tries = @ + 1]
           \/ run'[r] = [run[r] EXCEPT !.pc = "failed"]
    BY <1>7, WriteIs
  <2>2. run'[r].flushed = run[r].flushed /\ run'[r].read = run[r].read
    BY <1>1, <2>1 DEF Advanced, TaskType
  <2>3. \A o \in Runs : run'[o].flushed = run[o].flushed /\ run'[o].read = run[o].read
    BY <2>1, <2>2
  <2>4. Saved' = Saved
    BY <1>7 DEF Write, Saved
  <2>. QED  BY <2>3, <2>4 DEF Backup, Flushed
<1>8. ASSUME NEW r \in Runs, ReadFails(r) PROVE Backup \subseteq Backup'
  <2>1. ~run[r].flushed
    BY <1>0, <1>8 DEF RunOK, ReadFails
  <2>. QED  BY <1>1, <1>2, <1>8, <2>1 DEF ReadFails, Saved
<1>9. ASSUME NEW r \in Runs, NEW result \in {"succeeded", "failed"}, End(r, result)
      PROVE  Backup \subseteq Backup'
  <2>1. \A o \in Runs : o # r => run'[o] = run[o]
    BY <1>1, <1>9 DEF End
  <2>2. CASE run[r].flushed
    <3>1. Saved' = Saved \cup Range(run[r].read)
      BY <1>1, <1>9, <2>2, SavedIs DEF End, TaskType
    <3>. QED  BY <2>1, <3>1 DEF Backup, Flushed
  <2>3. CASE ~run[r].flushed
    BY <1>2, <1>9, <2>1, <2>3 DEF End, Saved
  <2>. QED  BY <2>2, <2>3
<1>10. ASSUME NEW r \in Runs, Crash(r) PROVE Backup \subseteq Backup'
  <2>1. ~run[r].flushed
    BY <1>0, <1>10 DEF RunOK, Crash, PurgesLive
  <2>. QED  BY <1>1, <1>2, <1>10, <2>1 DEF Crash, Saved
<1>11. CASE Edit \/ UNCHANGED vars
  BY <1>11 DEF Edit, vars, Backup, Saved, Flushed
<1>. QED  BY <1>3, <1>4, <1>5, <1>6, <1>7, <1>8, <1>9, <1>10, <1>11 DEF Next

-----------------------------------------------------------------------------
(* Nothing that a run takes out of the list is lost *)

\* What r has read is in the list or backed up; and the whole list is backed up once r
\* has its backup, or another run has written: only then is the list ever written.
Backed(r) ==
    InFlight(r) => /\ Range(run[r].read) \subseteq Range(playlist) \cup Backup
                   /\ disturbed[r] \/ run[r].pc \in {"read", "put", "post", "remove"} => Covered

RestorableInv == edited \/ \A r \in Runs : Backed(r) /\ taken[r] \subseteq Backup

LEMMA RestorableInit == Init => RestorableInv
BY DEF Init, RestorableInv, Backed, InFlight, Task

\* A run that is not touched, over a list that is not written.
LEMMA StillBacked ==
    ASSUME NEW o \in Runs, Backed(o), run'[o] = run[o], disturbed'[o] = disturbed[o],
           playlist' = playlist, Backup \subseteq Backup'
    PROVE  Backed(o)'
BY DEF Backed, InFlight, Covered

LEMMA RestorableStep ==
    ASSUME PurgesLive, TypeOK, RunInv, RestorableInv, [Next]_vars
    PROVE  RestorableInv'
<1>. SUFFICES ASSUME ~edited' PROVE \A o \in Runs : Backed(o)' /\ (taken[o] \subseteq Backup)'
  BY DEF RestorableInv
<1>0. /\ run \in [Runs -> TaskType] /\ rows \in [Runs -> RowType(Len(backups))]
      /\ disturbed \in [Runs -> BOOLEAN] /\ taken \in [Runs -> SUBSET Tracks]
      /\ \A r \in Runs : RunOK(r)
  BY DEF TypeOK, TaskType, RowType, RunInv
<1>1. Backup \subseteq Backup'
  BY BackupGrows
<1>. HIDE DEF Backup
<1>2. \A o \in Runs : Backed(o) /\ taken[o] \subseteq Backup
  BY DEF RestorableInv, Next, Start, ReadPage, CommitBackup, FlushBackup, Write, ReadFails,
         End, Crash, Edit, vars, history
\* Every action but Write and Edit leaves the list and what was taken.
<1>3. ASSUME NEW r \in Runs, playlist' = playlist, taken' = taken, Backed(r)',
             \A o \in Runs : o # r => run'[o] = run[o] /\ disturbed'[o] = disturbed[o]
      PROVE  \A o \in Runs : Backed(o)' /\ (taken[o] \subseteq Backup)'
  <2>1. ASSUME NEW o \in Runs PROVE Backed(o)'
    <3>1. CASE o = r
      BY <1>3, <3>1
    <3>2. CASE o # r
      BY <1>1, <1>2, <1>3, <3>2, StillBacked
    <3>. QED  BY <3>1, <3>2
  <2>2. ASSUME NEW o \in Runs PROVE (taken[o] \subseteq Backup)'
    BY <1>1, <1>2, <1>3
  <2>. QED  BY <2>1, <2>2
<1>4. ASSUME NEW r \in Runs, Start(r)
      PROVE  \A o \in Runs : Backed(o)' /\ (taken[o] \subseteq Backup)'
  <2>1. /\ run'[r] = [run[r] EXCEPT !.pc = "snapshot"] /\ ~disturbed'[r] /\ run[r].read = <<>>
        /\ playlist' = playlist /\ taken' = taken
        /\ \A o \in Runs : o # r => run'[o] = run[o] /\ disturbed'[o] = disturbed[o]
    BY <1>0, <1>4 DEF Start, RunOK
  <2>2. run'[r].read = <<>> /\ run'[r].pc = "snapshot"
    BY <1>0, <2>1 DEF TaskType
  <2>3. Backed(r)'
    BY <2>1, <2>2, EmptyRange DEF Backed
  <2>. QED  BY <1>3, <2>1, <2>3
<1>5. ASSUME NEW r \in Runs, ReadPage(r)
      PROVE  \A o \in Runs : Backed(o)' /\ (taken[o] \subseteq Backup)'
  <2>. DEFINE q == run[r]
              uris == q.read \o Slice(playlist, q.off + 1, PageSize)
  <2>1. /\ q.pc \in {"snapshot", "read"} /\ q \in TaskType
        /\ playlist' = playlist /\ taken' = taken /\ disturbed' = disturbed
        /\ \A o \in Runs : o # r => run'[o] = run[o] /\ disturbed'[o] = disturbed[o]
    BY <1>0, <1>5 DEF ReadPage, history
  <2>2. Range(uris) \subseteq Range(q.read) \cup Range(playlist)
    BY <2>1, PageIs
  <2>3. /\ run'[r].read = uris
        /\ run'[r].pc \in {"read", "put", "post", "remove"} => q.pc = "read"
    <3>1. CASE q.off + PageSize < Len(playlist)
      <4>1. run'[r] = [q EXCEPT !.read = uris, !.off = NextOffset(q)]
        BY <1>0, <1>5, <3>1 DEF ReadPage
      <4>. HIDE DEF uris
      <4>. QED  BY <2>1, <4>1 DEF TaskType
    <3>2. CASE ~(q.off + PageSize < Len(playlist)) /\ q.pc = "snapshot"
      <4>1. run'[r] = [q EXCEPT !.read = uris, !.off = 0, !.pc = "backup"]
        BY <1>0, <1>5, <3>2 DEF ReadPage
      <4>. HIDE DEF uris
      <4>. QED  BY <2>1, <4>1 DEF TaskType
    <3>3. CASE ~(q.off + PageSize < Len(playlist)) /\ q.pc = "read"
      <4>. DEFINE next == IF Rewrites(r, uris) THEN "put" ELSE "succeeded"
                  todo == IF Rewrites(r, uris) THEN NewOrder(r, uris) ELSE <<>>
      <4>1. run'[r] = [q EXCEPT !.read = uris, !.off = 0, !.pc = next, !.todo = todo]
        BY <1>0, <1>5, <3>3 DEF ReadPage
      <4>. HIDE DEF next, todo, uris
      <4>. QED  BY <2>1, <3>3, <4>1 DEF TaskType
    <3>. QED  BY <2>1, <3>1, <3>2, <3>3
  <2>4. InFlight(r)
    BY <2>1 DEF InFlight
  <2>. HIDE DEF uris
  <2>5. Backed(r)'
    BY <1>1, <1>2, <2>1, <2>2, <2>3, <2>4 DEF Backed, Covered
  <2>. QED  BY <1>3, <2>1, <2>5
<1>6. ASSUME NEW r \in Runs, CommitBackup(r)
      PROVE  \A o \in Runs : Backed(o)' /\ (taken[o] \subseteq Backup)'
  <2>. DEFINE q == run[r]
  <2>1. /\ q.pc = "backup" /\ q \in TaskType /\ run'[r] = [q EXCEPT !.pc = "read", !.read = <<>>]
        /\ playlist' = playlist /\ taken' = taken /\ disturbed' = disturbed
        /\ \A o \in Runs : o # r => run'[o] = run[o] /\ disturbed'[o] = disturbed[o]
    BY <1>0, <1>6 DEF CommitBackup, history
  <2>2. run'[r].read = <<>> /\ run'[r].pc = "read"
    BY <2>1 DEF TaskType
  <2>3. Range(q.read) \subseteq Backup'
    <3>1. Saved' = Saved \cup Range(q.read)
      BY <1>6, <2>1, SavedIs DEF CommitBackup, TaskType
    <3>. QED  BY <3>1 DEF Backup
  <2>4. Covered'
    <3>1. CASE disturbed[r]
      BY <1>1, <1>2, <2>1, <3>1 DEF Backed, InFlight, Covered
    <3>2. CASE ~disturbed[r]
      <4>1. q.read = playlist
        BY <1>0, <2>1, <3>2 DEF RunOK
      <4>. QED  BY <2>1, <2>3, <4>1 DEF Covered
    <3>. QED  BY <3>1, <3>2
  <2>5. Backed(r)'
    BY <2>2, <2>4, EmptyRange DEF Backed
  <2>. QED  BY <1>3, <2>1, <2>5
<1>7. ASSUME NEW r \in Runs, FlushBackup(r)
      PROVE  \A o \in Runs : Backed(o)' /\ (taken[o] \subseteq Backup)'
  <2>. DEFINE q == run[r]
              matched == IF rows[r].kind = "scan" THEN <<>> ELSE Matched(q.read)
              next == IF matched = <<>> THEN "succeeded" ELSE "remove"
  <2>1. /\ q.pc = "backup" /\ q \in TaskType
        /\ run'[r] = [q EXCEPT !.todo = matched, !.flushed = (matched # <<>>), !.pc = next]
        /\ playlist' = playlist /\ taken' = taken /\ disturbed' = disturbed
        /\ \A o \in Runs : o # r => run'[o] = run[o] /\ disturbed'[o] = disturbed[o]
    BY <1>0, <1>7 DEF FlushBackup, history
  <2>. HIDE DEF matched
  <2>2. run'[r].read = q.read /\ run'[r].flushed = (matched # <<>>) /\ run'[r].pc = next
    BY <2>1 DEF TaskType
  <2>3. CASE matched = <<>>
    <3>1. run'[r].pc = "succeeded"
      BY <2>2, <2>3
    <3>2. Backed(r)'
      BY <1>1, <1>2, <2>1, <2>2, <3>1 DEF Backed, InFlight, Covered
    <3>. QED  BY <1>3, <2>1, <3>2
  <2>4. CASE matched # <<>>
    <3>1. Range(q.read) \subseteq Backup'
      BY <2>2, <2>4 DEF Backup, Flushed
    <3>2. Covered'
      <4>1. CASE disturbed[r]
        BY <1>1, <1>2, <2>1, <4>1 DEF Backed, InFlight, Covered
      <4>2. CASE ~disturbed[r]
        <5>1. q.read = playlist
          BY <1>0, <2>1, <4>2 DEF RunOK
        <5>. QED  BY <2>1, <3>1, <5>1 DEF Covered
      <4>. QED  BY <4>1, <4>2
    <3>3. Backed(r)'
      BY <2>2, <3>1, <3>2 DEF Backed
    <3>. QED  BY <1>3, <2>1, <3>3
  <2>. QED  BY <2>3, <2>4
\* A request: the list was backed up, and stays so, for it takes only what is read.
<1>8. ASSUME NEW r \in Runs, Write(r)
      PROVE  \A o \in Runs : Backed(o)' /\ (taken[o] \subseteq Backup)'
  <2>. DEFINE q == run[r]
  <2>1. /\ q.pc \in {"put", "post", "remove"} /\ q.todo \in Seq(Tracks)
        /\ playlist' \in {playlist, Effect(q)}
        /\ \/ run'[r] = Advanced(q)
           \/ run'[r] = [q EXCEPT !.tries = @ + 1]
           \/ run'[r] = [q EXCEPT !.pc = "failed"]
        /\ \A o \in Runs : o # r => run'[o] = run[o]
    BY <1>8, WriteIs
  <2>2. q \in TaskType /\ RunOK(r) /\ InFlight(r)
    BY <1>0, <2>1 DEF InFlight
  <2>3. Range(playlist) \subseteq Backup /\ Range(q.read) \subseteq Backup
    BY <1>2, <2>1, <2>2 DEF Backed, Covered
  <2>4. Range(q.todo) \subseteq Range(q.read)
    BY <2>1, <2>2 DEF RunOK
  <2>5. Range(Batch(q.todo)) \subseteq Range(q.todo)
    BY <2>1, BatchAndRest
  <2>. HIDE DEF q
  <2>6. Range(playlist') \subseteq Backup
    <3>1. Range(Batch(q.todo)) \subseteq Backup
      BY <2>3, <2>4, <2>5
    <3>2. Range(Effect(q)) \subseteq Range(playlist) \cup Range(Batch(q.todo))
      BY <2>1, EffectIs
    <3>. QED  BY <2>1, <2>3, <3>1, <3>2
  <2>. USE DEF q
  <2>7. \A o \in Runs : run'[o].read = run[o].read
    BY ZenonT(40), <2>1, <2>2 DEF Advanced, TaskType
  <2>8. \A o \in Runs : InFlight(o)' => InFlight(o)
    BY <2>1, <2>2 DEF InFlight
  <2>9. \A o \in Runs : InFlight(o) => Range(run[o].read) \subseteq Backup
    BY <1>2, <2>3 DEF Backed
  <2>10. ASSUME NEW o \in Runs PROVE Backed(o)'
    BY <1>1, <2>6, <2>7, <2>8, <2>9 DEF Backed, Covered
  <2>11. ASSUME NEW o \in Runs PROVE (taken[o] \subseteq Backup)'
    <3>1. taken'[o] \subseteq taken[o] \cup Range(playlist)
      BY <1>0, <1>8 DEF Write
    <3>. QED  BY <1>1, <1>2, <2>3, <3>1
  <2>. QED  BY <2>10, <2>11
<1>9. ASSUME NEW r \in Runs, ReadFails(r)
      PROVE  \A o \in Runs : Backed(o)' /\ (taken[o] \subseteq Backup)'
  <2>1. /\ run[r].pc \in {"snapshot", "read"} /\ run'[r] = [run[r] EXCEPT !.pc = "failed"]
        /\ playlist' = playlist /\ taken' = taken /\ disturbed' = disturbed
        /\ \A o \in Runs : o # r => run'[o] = run[o] /\ disturbed'[o] = disturbed[o]
    BY <1>0, <1>9 DEF ReadFails, history
  <2>2. run'[r].read = run[r].read /\ run'[r].pc = "failed"
    BY <1>0, <2>1 DEF TaskType
  <2>3. Backed(r)'
    BY <1>1, <1>2, <2>1, <2>2 DEF Backed, InFlight, Covered
  <2>. QED  BY <1>3, <2>1, <2>3
<1>10. ASSUME NEW r \in Runs, \/ \E result \in {"succeeded", "failed"} : End(r, result)
                              \/ Crash(r)
       PROVE  \A o \in Runs : Backed(o)' /\ (taken[o] \subseteq Backup)'
  <2>1. /\ run'[r].pc \in {"queued", "ended", "lost"}
        /\ playlist' = playlist /\ taken' = taken /\ disturbed' = disturbed
        /\ \A o \in Runs : o # r => run'[o] = run[o] /\ disturbed'[o] = disturbed[o]
    BY <1>0, <1>10 DEF End, Crash, Task, history
  <2>2. Backed(r)'
    BY <2>1 DEF Backed, InFlight
  <2>. QED  BY <1>3, <2>1, <2>2
\* Nothing is under way while the user edits.
<1>11. ASSUME Edit PROVE \A o \in Runs : Backed(o)' /\ (taken[o] \subseteq Backup)'
  <2>1. /\ \A o \in Runs : ~InFlight(o)
        /\ run' = run /\ taken' = taken
    BY <1>11 DEF Edit
  <2>2. \A o \in Runs : Backed(o)'
    BY <2>1 DEF Backed, InFlight
  <2>. QED  BY <1>1, <1>2, <2>1, <2>2
<1>12. ASSUME UNCHANGED vars PROVE \A o \in Runs : Backed(o)' /\ (taken[o] \subseteq Backup)'
  BY <1>1, <1>2, <1>12, StillBacked DEF vars
<1>. QED  BY <1>4, <1>5, <1>6, <1>7, <1>8, <1>9, <1>10, <1>11, <1>12 DEF Next

\* Whatever the number of runs, pages and batches, however they overlap and fail half
\* way, and however often the workers of tools die: unless the user edits the list under
\* a run, what a run takes out of it is in it again or backed up.
THEOREM NothingIsLost ==
    ASSUME PurgesLive PROVE Spec => []Restorable
<1>1. TypeOK /\ RunInv /\ RestorableInv /\ [Next]_vars => RestorableInv'
  BY PurgesLive, RestorableStep
<1>2. RestorableInv => Restorable
  BY DEF RestorableInv, Restorable, Backup
<1>. QED  BY <1>1, <1>2, RestorableInit, RunTheorem, PTL DEF Spec

-----------------------------------------------------------------------------
(* A run that reports success has done its work *)

BackedUp(r) == backups[rows[r].backup].uris

Done(r) ==
    IF ~Purges(r) THEN Keys(playlist) = Keys(BackedUp(r))
    ELSE Range(playlist) = Range(run[r].read) \ (IF rows[r].kind = "purge" THEN Banned ELSE {})

\* What is still to be done, and what it will come to, if nobody else writes.
Doing(r) ==
    LET q == run[r]
    IN  /\ q.pc = "read" => BackedUp(r) = playlist
        /\ q.pc = "put" => Keys(q.todo) = Keys(BackedUp(r))
        /\ q.pc = "post" => Keys(playlist) \cup Keys(q.todo) = Keys(BackedUp(r))
        /\ q.pc = "remove" => Range(playlist) \ Range(q.todo) = Range(q.read) \ Banned
        /\ q.pc = "succeeded" => Done(r)

SuccessOK(r) ==
    /\ ~Purges(r) /\ run[r].pc \in {"read", "put", "post", "succeeded"} => rows[r].backup # 0
    /\ ~disturbed[r] => Doing(r)

SuccessInv == \A r \in Runs : SuccessOK(r)

LEMMA SuccessInit == Init => SuccessInv
BY DEF Init, SuccessInv, SuccessOK, Doing, Task

\* The committed backups stay what they are.
LEMMA BackupsStay ==
    ASSUME TypeOK, NEW r \in Runs, rows[r].backup # 0,
           \/ backups' = backups
           \/ \E o \in Runs, uris \in Seq(Tracks) :
                backups' = Append(backups, [run |-> o, uris |-> uris])
    PROVE  backups'[rows[r].backup] = backups[rows[r].backup]
<1>1. rows[r].backup \in 1..Len(backups)
  BY Fields DEF RowType
<1>2. ASSUME NEW o \in Runs, NEW uris \in Seq(Tracks),
             backups' = Append(backups, [run |-> o, uris |-> uris])
      PROVE  backups'[rows[r].backup] = backups[rows[r].backup]
  <2>1. \A i \in 1..Len(backups) : backups'[i] = backups[i]
    BY <1>2, AppendBackup
  <2>. QED  BY <1>1, <2>1
<1>. QED  BY <1>2

\* A run that is not touched, over a list that is not written.
LEMMA StillDoing ==
    ASSUME TypeOK, RunInv, SuccessInv, NEW o \in Runs, run'[o] = run[o],
           rows'[o].kind = rows[o].kind, rows'[o].backup = rows[o].backup,
           rows[o].backup # 0 => backups'[rows[o].backup] = backups[rows[o].backup],
           \/ playlist' = playlist /\ disturbed'[o] = disturbed[o]
           \/ disturbed'[o] = (disturbed[o] \/ InFlight(o))
    PROVE  SuccessOK(o)'
<1>1. RunOK(o) /\ SuccessOK(o)
  BY DEF RunInv, SuccessInv
<1>2. Purges(o)' <=> Purges(o)
  BY DEF Purges
<1>3. rows[o].backup # 0 => BackedUp(o)' = BackedUp(o)
  BY DEF BackedUp
<1>4. ~Purges(o) /\ run'[o].pc \in {"read", "put", "post", "succeeded"} => rows[o].backup # 0
  BY <1>1 DEF SuccessOK
<1>5. CASE run[o].pc \notin {"read", "put", "post", "remove", "succeeded"}
  BY <1>5 DEF SuccessOK, Doing
<1>6. CASE run[o].pc \in {"read", "put", "post", "remove", "succeeded"}
  <2>1. ASSUME ~disturbed'[o] PROVE ~disturbed[o] /\ playlist' = playlist
    BY <1>6, <2>1 DEF InFlight
  <2>2. ASSUME ~disturbed'[o] PROVE Doing(o)'
    <3>1. Doing(o) /\ playlist' = playlist
      BY <1>1, <2>1, <2>2 DEF SuccessOK
    <3>2. run[o].pc \in {"read", "put", "post"} => ~Purges(o)
      BY <1>1 DEF RunOK
    <3>3. ~Purges(o) => BackedUp(o)' = BackedUp(o)
      BY <1>3, <1>4, <1>6, <3>2, <1>1 DEF RunOK, Purges
    <3>4. Done(o) => Done(o)'
      BY <1>2, <3>1, <3>3 DEF Done, Keys
    <3>. QED  BY <3>1, <3>2, <3>3, <3>4 DEF Doing, Keys
  <2>. QED  BY <1>2, <1>4, <2>2 DEF SuccessOK
<1>. QED  BY <1>5, <1>6

\* A batch more: what is left to be done still comes to the same.
LEMMA WriteDoing ==
    ASSUME TypeOK, RunInv, SuccessInv, NEW r \in Runs, Write(r)
    PROVE  SuccessOK(r)'
<1>. DEFINE q == run[r]
<1>1. /\ q.pc \in {"put", "post", "remove"} /\ q.todo \in Seq(Tracks)
      /\ playlist' \in {playlist, Effect(q)}
      /\ \/ run'[r] = Advanced(q) /\ playlist' = Effect(q)
         \/ run'[r] = [q EXCEPT !.tries = @ + 1]
         \/ run'[r] = [q EXCEPT !.pc = "failed"]
  BY WriteIs
<1>2. q \in TaskType /\ RunOK(r) /\ SuccessOK(r) /\ disturbed \in [Runs -> BOOLEAN]
  BY Fields DEF RunInv, SuccessInv, TypeOK
<1>3. rows' = rows /\ backups' = backups /\ disturbed'[r] = disturbed[r]
  BY <1>2 DEF Write
<1>4. BackedUp(r)' = BackedUp(r) /\ (Purges(r)' <=> Purges(r))
  BY <1>3 DEF BackedUp, Purges
<1>5. /\ Range(q.todo) = Range(Batch(q.todo)) \cup Range(Rest(q.todo))
      /\ Rest(q.todo) = <<>> => Batch(q.todo) = q.todo
  BY <1>1, BatchAndRest
<1>6. /\ q.pc = "put" => Effect(q) = Batch(q.todo)
      /\ q.pc = "post" => Range(Effect(q)) = Range(playlist) \cup Range(Batch(q.todo))
      /\ q.pc = "remove" => Range(Effect(q)) = Range(playlist) \ Range(Batch(q.todo))
  BY <1>1, EffectIs
<1>7. ASSUME ~disturbed'[r] PROVE Doing(r)
  BY <1>2, <1>3, <1>7 DEF SuccessOK
<1>8. \A a, b, c : Range(a) = Range(b) \cup Range(c) => Keys(a) = Keys(b) \cup Keys(c)
  BY DEF Keys
<1>9. Keys(q.todo) = Keys(Batch(q.todo)) \cup Keys(Rest(q.todo))
  BY <1>5, <1>8
<1>10. q.pc = "post" => Keys(Effect(q)) = Keys(playlist) \cup Keys(Batch(q.todo))
  BY <1>6, <1>8
<1>11. q.pc \in {"put", "post"} => ~Purges(r) /\ rows[r].backup # 0
  BY <1>2 DEF RunOK, SuccessOK
<1>12. q.pc = "remove" => rows[r].kind = "purge" /\ Purges(r)
  BY <1>2 DEF RunOK, Purges
<1>13. CASE run'[r] = Advanced(q) /\ playlist' = Effect(q)
  <2>. DEFINE next == IF Rest(q.todo) = <<>> THEN "succeeded" ELSE IF q.pc = "put" THEN "post" ELSE q.pc
  <2>1. run'[r] = [q EXCEPT !.todo = Rest(q.todo), !.tries = 1, !.pc = next]
    BY <1>13 DEF Advanced
  <2>2. run'[r].todo = Rest(q.todo) /\ run'[r].read = q.read /\ run'[r].pc = next
    <3>. HIDE DEF next, q
    <3>. QED  BY <1>2, <2>1 DEF TaskType
  <2>. HIDE DEF q
  <2>3. CASE q.pc = "put"
    <3>1. Keys(q.todo) = Keys(playlist') \cup Keys(Rest(q.todo))
      BY <1>6, <1>13, <1>9, <2>3
    <3>2. Rest(q.todo) = <<>> => Keys(q.todo) = Keys(playlist')
      BY <1>5, <1>6, <1>13, <2>3
    <3>3. ASSUME ~disturbed'[r] PROVE Keys(q.todo) = Keys(BackedUp(r))
      BY <1>7, <2>3, <3>3 DEF Doing, q
    <3>4. next \in {"succeeded", "post"} /\ (next = "succeeded" => Rest(q.todo) = <<>>)
      BY <2>3
    <3>. HIDE DEF next
    <3>. QED  BY <1>3, <1>4, <1>11, <2>2, <2>3, <3>1, <3>2, <3>3, <3>4 DEF SuccessOK, Doing, Done
  <2>4. CASE q.pc = "post"
    <3>1. Keys(playlist') \cup Keys(Rest(q.todo)) = Keys(playlist) \cup Keys(q.todo)
      BY <1>13, <1>9, <1>10, <2>4
    <3>2. Rest(q.todo) = <<>> => Keys(playlist') = Keys(playlist) \cup Keys(q.todo)
      BY <1>5, <1>13, <1>10, <2>4
    <3>3. ASSUME ~disturbed'[r] PROVE Keys(playlist) \cup Keys(q.todo) = Keys(BackedUp(r))
      BY <1>7, <2>4, <3>3 DEF Doing, q
    <3>4. next \in {"succeeded", "post"} /\ (next = "succeeded" => Rest(q.todo) = <<>>)
      BY <2>4
    <3>. HIDE DEF next
    <3>. QED  BY <1>3, <1>4, <1>11, <2>2, <2>4, <3>1, <3>2, <3>3, <3>4 DEF SuccessOK, Doing, Done
  <2>5. CASE q.pc = "remove"
    <3>1. Range(playlist') \ Range(Rest(q.todo)) = Range(playlist) \ Range(q.todo)
      BY <1>5, <1>6, <1>13, <2>5
    <3>2. Rest(q.todo) = <<>> => Range(playlist') = Range(playlist) \ Range(q.todo)
      BY <1>5, <1>6, <1>13, <2>5
    <3>3. ASSUME ~disturbed'[r] PROVE Range(playlist) \ Range(q.todo) = Range(q.read) \ Banned
      BY <1>7, <2>5, <3>3 DEF Doing, q
    <3>4. next \in {"succeeded", "remove"} /\ (next = "succeeded" => Rest(q.todo) = <<>>)
      BY <2>5
    <3>. HIDE DEF next
    <3>. QED  BY <1>3, <1>4, <1>12, <2>2, <2>5, <3>1, <3>2, <3>3, <3>4 DEF SuccessOK, Doing, Done
  <2>. QED  BY <1>1, <2>3, <2>4, <2>5 DEF q
\* The write may have taken effect all the same.
<1>14. CASE run'[r] = [q EXCEPT !.tries = @ + 1]
  <2>1. run'[r].pc = q.pc /\ run'[r].todo = q.todo /\ run'[r].read = q.read
    BY <1>2, <1>14 DEF TaskType
  <2>. HIDE DEF q
  <2>2. ASSUME q.pc = "post", playlist' = Effect(q)
        PROVE  Keys(playlist') \cup Keys(q.todo) = Keys(playlist) \cup Keys(q.todo)
    BY <1>9, <1>10, <2>2
  <2>3. ASSUME q.pc = "remove", playlist' = Effect(q)
        PROVE  Range(playlist') \ Range(q.todo) = Range(playlist) \ Range(q.todo)
    BY <1>5, <1>6, <2>3
  <2>4. ASSUME ~disturbed'[r] PROVE Doing(r)'
    <3>1. /\ q.pc = "put" => Keys(q.todo) = Keys(BackedUp(r))
          /\ q.pc = "post" => Keys(playlist) \cup Keys(q.todo) = Keys(BackedUp(r))
          /\ q.pc = "remove" => Range(playlist) \ Range(q.todo) = Range(q.read) \ Banned
      BY <1>7, <2>4 DEF Doing, q
    <3>2. q.pc = "post" => Keys(playlist') \cup Keys(q.todo) = Keys(BackedUp(r))
      BY <1>1, <2>2, <3>1 DEF q, Keys
    <3>3. q.pc = "remove" => Range(playlist') \ Range(q.todo) = Range(q.read) \ Banned
      BY <1>1, <2>3, <3>1 DEF q
    <3>4. q.pc \in {"put", "post", "remove"}
      BY <1>1 DEF q
    <3>. QED  BY <1>4, <2>1, <3>1, <3>2, <3>3, <3>4 DEF Doing, Keys
  <2>. QED  BY <1>1, <1>3, <1>4, <1>11, <1>12, <2>1, <2>4 DEF SuccessOK, q
<1>15. CASE run'[r] = [q EXCEPT !.pc = "failed"]
  <2>1. run'[r].pc = "failed"
    BY <1>2, <1>15 DEF TaskType
  <2>. QED  BY <2>1 DEF SuccessOK, Doing
<1>. QED  BY <1>1, <1>13, <1>14, <1>15

LEMMA SuccessStep ==
    ASSUME TypeOK, RunInv, SuccessInv, [Next]_vars
    PROVE  SuccessInv'
<1>0. /\ run \in [Runs -> TaskType] /\ rows \in [Runs -> RowType(Len(backups))]
      /\ disturbed \in [Runs -> BOOLEAN]
      /\ \A r \in Runs : RunOK(r) /\ SuccessOK(r)
  BY DEF TypeOK, TaskType, RowType, RunInv, SuccessInv
\* Most actions leave the list, the row and the backups, and so every other run.
<1>1. ASSUME NEW r \in Runs, SuccessOK(r)', playlist' = playlist, backups' = backups,
             \A o \in Runs : o # r => /\ run'[o] = run[o] /\ disturbed'[o] = disturbed[o]
                                      /\ rows'[o] = rows[o]
      PROVE  SuccessInv'
  <2>1. ASSUME NEW o \in Runs, o # r PROVE SuccessOK(o)'
    BY <1>1, <2>1, StillDoing
  <2>. QED  BY <1>1, <2>1 DEF SuccessInv
<1>2. ASSUME NEW r \in Runs, Start(r) \/ ReadFails(r) \/ Crash(r) PROVE SuccessInv'
  <2>1. /\ playlist' = playlist /\ backups' = backups
        /\ \A o \in Runs : o # r => /\ run'[o] = run[o] /\ disturbed'[o] = disturbed[o]
                                    /\ rows'[o] = rows[o]
    BY <1>0, <1>2 DEF Start, ReadFails, Crash, history
  <2>2. run'[r].pc \in {"snapshot", "failed", "queued", "lost"}
    BY <1>0, <1>2 DEF Start, ReadFails, Crash, Task, TaskType
  <2>3. SuccessOK(r)'
    BY <2>2 DEF SuccessOK, Doing
  <2>. QED  BY <1>1, <2>1, <2>3
<1>3. ASSUME NEW r \in Runs, ReadPage(r) PROVE SuccessInv'
  <2>. DEFINE q == run[r]
              uris == q.read \o Slice(playlist, q.off + 1, PageSize)
  <2>1. /\ q.pc \in {"snapshot", "read"} /\ q \in TaskType /\ RunOK(r) /\ SuccessOK(r)
        /\ playlist' = playlist /\ rows' = rows /\ backups' = backups /\ disturbed' = disturbed
        /\ \A o \in Runs : o # r => run'[o] = run[o]
    BY <1>0, <1>3 DEF ReadPage, history
  <2>2. uris \in Seq(Tracks)
    BY <2>1, PageIs
  <2>3. CASE q.off + PageSize < Len(playlist)
    <3>1. run'[r] = [q EXCEPT !.read = uris, !.off = NextOffset(q)]
      BY <1>0, <1>3, <2>3 DEF ReadPage
    <3>2. run'[r].pc = q.pc
      BY <2>1, <3>1 DEF TaskType
    <3>3. SuccessOK(r)'
      BY <2>1, <3>2 DEF SuccessOK, Doing, Purges, BackedUp
    <3>. QED  BY <1>1, <2>1, <3>3
  <2>4. CASE ~(q.off + PageSize < Len(playlist)) /\ q.pc = "snapshot"
    <3>1. run'[r] = [q EXCEPT !.read = uris, !.off = 0, !.pc = "backup"]
      BY <1>0, <1>3, <2>4 DEF ReadPage
    <3>2. run'[r].pc = "backup"
      BY <2>1, <3>1 DEF TaskType
    <3>3. SuccessOK(r)'
      BY <3>2 DEF SuccessOK, Doing
    <3>. QED  BY <1>1, <2>1, <3>3
  <2>5. CASE ~(q.off + PageSize < Len(playlist)) /\ q.pc = "read"
    <3>. DEFINE next == IF Rewrites(r, uris) THEN "put" ELSE "succeeded"
                todo == IF Rewrites(r, uris) THEN NewOrder(r, uris) ELSE <<>>
    <3>1. run'[r] = [q EXCEPT !.read = uris, !.off = 0, !.pc = next, !.todo = todo]
      BY <1>0, <1>3, <2>5 DEF ReadPage
    <3>2. Keys(NewOrder(r, uris)) = Keys(uris)
      <4>. HIDE DEF uris
      <4>. QED  BY <2>2, NewOrderIs
    <3>3. next \in {"put", "succeeded"} /\ (next = "put" => Keys(todo) = Keys(uris))
      BY <3>2
    <3>4. ~Purges(r) /\ rows[r].backup # 0
      BY <2>1, <2>5 DEF RunOK, SuccessOK
    <3>5. ASSUME ~disturbed[r] PROVE uris = playlist /\ BackedUp(r) = playlist
      <4>1. uris = playlist
        BY <2>1, <2>5, <3>5, PageIs
      <4>2. BackedUp(r) = playlist
        BY <2>1, <2>5, <3>5 DEF SuccessOK, Doing
      <4>. QED  BY <4>1, <4>2
    <3>. HIDE DEF next, todo, uris
    <3>6. run'[r].pc = next /\ run'[r].todo = todo
      BY <2>1, <3>1 DEF TaskType
    <3>7. /\ BackedUp(r)' = BackedUp(r) /\ ~Purges(r)' /\ rows'[r].backup # 0
          /\ disturbed'[r] = disturbed[r]
      BY <2>1, <3>4 DEF BackedUp, Purges
    <3>8. ASSUME ~disturbed[r] PROVE Doing(r)'
      <4>1. uris = playlist /\ BackedUp(r) = playlist
        BY <3>5, <3>8
      <4>2. CASE next = "put"
        BY <3>3, <3>6, <3>7, <4>1, <4>2 DEF Doing, Keys
      <4>3. CASE next = "succeeded"
        BY <2>1, <3>6, <3>7, <4>1, <4>3 DEF Doing, Done, Keys
      <4>. QED  BY <3>3, <4>2, <4>3
    <3>9. SuccessOK(r)'
      BY <3>7, <3>8 DEF SuccessOK
    <3>. QED  BY <1>1, <2>1, <3>9
  <2>. QED  BY <2>1, <2>3, <2>4, <2>5
<1>4. ASSUME NEW r \in Runs, CommitBackup(r) PROVE SuccessInv'
  <2>. DEFINE q == run[r]
  <2>1. /\ q.pc = "backup" /\ q \in TaskType /\ RunOK(r) /\ q.read \in Seq(Tracks)
        /\ run'[r] = [q EXCEPT !.pc = "read", !.read = <<>>]
        /\ playlist' = playlist /\ disturbed' = disturbed
        /\ backups' = Append(backups, [run |-> r, uris |-> q.read])
        /\ rows'[r].backup = Len(backups) + 1
        /\ \A o \in Runs : o # r => run'[o] = run[o] /\ rows'[o] = rows[o]
    BY <1>0, <1>4 DEF CommitBackup, history, TaskType, RowType
  <2>2. run'[r].pc = "read"
    BY <2>1 DEF TaskType
  <2>3. Len(backups) \in Nat /\ backups'[Len(backups) + 1].uris = q.read
    BY <2>1, AppendBackup
  <2>4. ~disturbed[r] => BackedUp(r)' = playlist
    BY <2>1, <2>3 DEF BackedUp, RunOK
  <2>5. rows'[r].backup # 0
    BY <2>1, <2>3
  <2>6. SuccessOK(r)'
    BY <2>1, <2>2, <2>4, <2>5 DEF SuccessOK, Doing
  <2>7. ASSUME NEW o \in Runs, o # r PROVE SuccessOK(o)'
    <3>1. rows[o].backup # 0 => backups'[rows[o].backup] = backups[rows[o].backup]
      BY <2>1, BackupsStay
    <3>. QED  BY <2>1, <2>7, <3>1, StillDoing
  <2>. QED  BY <2>6, <2>7 DEF SuccessInv
<1>5. ASSUME NEW r \in Runs, FlushBackup(r) PROVE SuccessInv'
  <2>. DEFINE q == run[r]
              matched == IF rows[r].kind = "scan" THEN <<>> ELSE Matched(q.read)
              next == IF matched = <<>> THEN "succeeded" ELSE "remove"
  <2>1. /\ q.pc = "backup" /\ q \in TaskType /\ RunOK(r) /\ Purges(r) /\ q.read \in Seq(Tracks)
        /\ run'[r] = [q EXCEPT !.todo = matched, !.flushed = (matched # <<>>), !.pc = next]
        /\ playlist' = playlist /\ disturbed' = disturbed /\ backups' = backups /\ rows' = rows
        /\ \A o \in Runs : o # r => run'[o] = run[o]
    BY <1>0, <1>5 DEF FlushBackup, history, TaskType
  <2>2. Range(matched) = IF rows[r].kind = "scan" THEN {} ELSE Range(q.read) \cap Banned
    <3>1. Range(Matched(q.read)) = Range(q.read) \cap Banned
      BY <2>1, KeptIs DEF Matched
    <3>2. CASE rows[r].kind = "scan"
      BY <3>2, EmptyRange
    <3>3. CASE rows[r].kind # "scan"
      BY <3>1, <3>3
    <3>. QED  BY <3>2, <3>3
  <2>3. rows[r].kind = "scan" => matched = <<>>
    OBVIOUS
  <2>. HIDE DEF matched
  <2>4. run'[r].pc = next /\ run'[r].read = q.read /\ run'[r].todo = matched
    BY <2>1 DEF TaskType
  <2>5. Purges(r)'
    BY <2>1 DEF Purges
  <2>6. ASSUME ~disturbed[r] PROVE Doing(r)'
    <3>1. q.read = playlist
      BY <2>1, <2>6 DEF RunOK
    <3>2. CASE matched = <<>>
      <4>1. rows[r].kind # "scan" => Range(q.read) \cap Banned = {}
        BY <2>2, <3>2, EmptyRange
      <4>2. Range(playlist') = Range(run'[r].read) \ (IF rows'[r].kind = "purge" THEN Banned ELSE {})
        BY <2>1, <2>4, <3>1, <4>1 DEF Purges
      <4>. QED  BY <2>4, <2>5, <3>2, <4>2 DEF Doing, Done
    <3>3. CASE matched # <<>>
      <4>1. Range(playlist') \ Range(run'[r].todo) = Range(run'[r].read) \ Banned
        BY <2>1, <2>2, <2>3, <2>4, <3>1, <3>3
      <4>. QED  BY <2>4, <3>3, <4>1 DEF Doing
    <3>. QED  BY <3>2, <3>3
  <2>7. SuccessOK(r)'
    BY <2>1, <2>5, <2>6 DEF SuccessOK
  <2>. QED  BY <1>1, <2>1, <2>7
<1>6. ASSUME NEW r \in Runs, Write(r) PROVE SuccessInv'
  <2>1. ASSUME NEW o \in Runs, o # r PROVE SuccessOK(o)'
    <3>1. run'[o] = run[o]
      BY <1>6, <2>1, WriteIs
    <3>2. /\ rows' = rows /\ backups' = backups
          /\ disturbed'[o] = (disturbed[o] \/ InFlight(o))
      BY <1>0, <1>6, <2>1 DEF Write
    <3>. QED  BY <3>1, <3>2, StillDoing
  <2>2. SuccessOK(r)'
    BY <1>6, WriteDoing
  <2>. QED  BY <2>1, <2>2 DEF SuccessInv
<1>7. ASSUME NEW r \in Runs, NEW result \in {"succeeded", "failed"}, End(r, result)
      PROVE  SuccessInv'
  <2>1. /\ run'[r].pc = "ended" /\ playlist' = playlist /\ disturbed' = disturbed
        /\ \A o \in Runs : o # r => run'[o] = run[o] /\ rows'[o] = rows[o]
        /\ \/ backups' = backups
           \/ backups' = Append(backups, [run |-> r, uris |-> run[r].read])
    BY <1>0, <1>7 DEF End, history, Task
  <2>2. run[r].read \in Seq(Tracks)
    BY <1>0 DEF TaskType
  <2>3. SuccessOK(r)'
    BY <2>1 DEF SuccessOK, Doing
  <2>4. ASSUME NEW o \in Runs, o # r PROVE SuccessOK(o)'
    <3>1. rows[o].backup # 0 => backups'[rows[o].backup] = backups[rows[o].backup]
      BY <2>1, <2>2, BackupsStay
    <3>. QED  BY <2>1, <2>4, <3>1, StillDoing
  <2>. QED  BY <2>3, <2>4 DEF SuccessInv
<1>8. ASSUME Edit PROVE SuccessInv'
  <2>1. ASSUME NEW o \in Runs PROVE SuccessOK(o)'
    BY <1>8, StillDoing DEF Edit
  <2>. QED  BY <2>1 DEF SuccessInv
<1>9. ASSUME UNCHANGED vars PROVE SuccessInv'
  <2>1. ASSUME NEW o \in Runs PROVE SuccessOK(o)'
    BY <1>9, StillDoing DEF vars
  <2>. QED  BY <2>1 DEF SuccessInv
<1>. QED  BY <1>2, <1>3, <1>4, <1>5, <1>6, <1>7, <1>8, <1>9 DEF Next

\* Whatever the number of runs, pages and batches, and although a request that takes
\* effect may be answered by an error and sent again: a run that reports success, and
\* that nobody else's write came across, has done what it says.
THEOREM SuccessIsDone == Spec => []SuccessMeansDone
<1>1. TypeOK /\ RunInv /\ SuccessInv /\ [Next]_vars => SuccessInv'
  BY SuccessStep
<1>2. SuccessInv => SuccessMeansDone
  BY DEF SuccessInv, SuccessOK, Doing, Done, BackedUp, SuccessMeansDone
<1>. QED  BY <1>1, <1>2, SuccessInit, RunTheorem, PTL DEF Spec

-----------------------------------------------------------------------------
(* ToolBuilds: what the tools compute is made of what they read *)

LEMMA InSeq ==
    ASSUME NEW S, NEW s \in Seq(S), NEW T, Range(s) \subseteq T
    PROVE  s \in Seq(T)
BY SeqOfRange, SeqMonotonic

\* Induction over the steps of a recursion that stays in V.
LEMMA Stays ==
    ASSUME NEW V, NEW N \in Nat, NEW h, h[0] \in V, \A n \in 1..N : h[n - 1] \in V => h[n] \in V
    PROVE  h[N] \in V
<1>. DEFINE S == {n \in 0..N : h[n] \in V}
<1>1. 0 \in S /\ \A n \in 1..N : n - 1 \in S => n \in S
  OBVIOUS
<1>. HIDE DEF S
<1>2. \A n \in 0..N : n \in S
  BY <1>1, UpTo
<1>3. N \in S
  BY <1>2
<1>. QED  BY <1>3 DEF S

\* A function on 1..n is a sequence.
LEMMA FunIsSeq ==
    ASSUME NEW T, NEW n \in Nat, NEW f \in [1..n -> T]
    PROVE  f \in Seq(T) /\ Len(f) = n
<1>1. f \in Seq(T)
  BY SeqDef
<1>2. DOMAIN f = 1..n /\ DOMAIN f = 1..Len(f) /\ Len(f) \in Nat
  BY <1>1, LenProperties
<1>. QED  BY <1>1, <1>2

\* h: what a loop of N passes holds after each, within V.
Passes(h, N, F, V, v) ==
    /\ h[0] = v /\ h[N] = Looped(F, v)
    /\ \A n \in 1..N : h[n] = F[n][h[n - 1]]
    /\ \A n \in 0..N : h[n] \in V[n]

\* A loop whose n-th pass leads from V[n - 1] to V[n].
LEMMA LoopedRuns ==
    ASSUME NEW N \in Nat, NEW F, Len(F) = N, NEW V, NEW v \in V[0],
           \A n \in 1..N : \A x \in V[n - 1] : F[n][x] \in V[n]
    PROVE  \E h : Passes(h, N, F, V, v)
<1>. DEFINE U == UNION {V[n] : n \in 0..N}
            G == [n \in 1..N |-> [x \in U |-> IF x \in V[n - 1] THEN F[n][x] ELSE x]]
            Body(f) == [n \in 0..N |-> IF n = 0 THEN v ELSE F[n][f[n - 1]]]
            h == CHOOSE f : f = Body(f)
<1>1. \A n \in 0..N : V[n] \subseteq U
  OBVIOUS
<1>2. \A n \in 1..N : n \in 0..N /\ n - 1 \in 0..N
  OBVIOUS
<1>3. v \in U
  BY <1>1
<1>. HIDE DEF U
<1>4. ASSUME NEW n \in 1..N, NEW x \in U PROVE (IF x \in V[n - 1] THEN F[n][x] ELSE x) \in U
  BY <1>1, <1>2
<1>5. G \in [1..N -> [U -> U]]
  BY <1>4
<1>6. \A n \in 1..N, x \in U : x \in V[n - 1] => G[n][x] = F[n][x]
  OBVIOUS
<1>. HIDE DEF G
<1>7. PICK f : Outcomes(U, N, G, v, f)
  BY <1>3, <1>5, OutcomesExist
<1>8. f \in [0..N -> U] /\ f[0] = v /\ \A n \in 1..N : f[n] = G[n][f[n - 1]]
  BY <1>7 DEF Outcomes
<1>. DEFINE S == {n \in 0..N : f[n] \in V[n]}
<1>9. 0 \in S
  BY <1>8
<1>10. ASSUME NEW n \in 1..N, n - 1 \in S PROVE n \in S /\ f[n] = F[n][f[n - 1]]
  BY <1>2, <1>6, <1>8, <1>10
<1>11. \A n \in 0..N : n \in S
  <2>. HIDE DEF S
  <2>. QED  BY <1>9, <1>10, UpTo
<1>12. \A n \in 1..N : f[n] = F[n][f[n - 1]]
  BY <1>2, <1>10, <1>11
<1>13. f = Body(f)
  BY <1>8, <1>12
<1>14. h = Body(h)
  <2>. HIDE DEF Body
  <2>. QED  BY <1>13, Zenon
<1>15. Looped(F, v) = h[N]
  BY Zenon DEF Looped
<1>. HIDE DEF h
<1>16. h[0] = v /\ \A n \in 1..N : h[n] = F[n][h[n - 1]]
  BY <1>14
<1>. DEFINE R == {n \in 0..N : h[n] \in V[n]}
<1>17. 0 \in R /\ \A n \in 1..N : n - 1 \in R => n \in R
  BY <1>2, <1>16
<1>18. \A n \in 0..N : n \in R
  <2>. HIDE DEF R
  <2>. QED  BY <1>17, UpTo
<1>19. Passes(h, N, F, V, v)
  BY <1>15, <1>16, <1>18 DEF Passes
<1>. QED  BY <1>19

LEMMA LoopedIs ==
    ASSUME NEW N \in Nat, NEW F, Len(F) = N, NEW V, NEW v \in V[0],
           \A n \in 1..N : \A x \in V[n - 1] : F[n][x] \in V[n]
    PROVE  Looped(F, v) \in V[N]
<1>1. PICK h : Passes(h, N, F, V, v)
  BY LoopedRuns
<1>2. N \in 0..N
  OBVIOUS
<1>. QED  BY <1>1, <1>2 DEF Passes

LEMMA FirstsIs ==
    ASSUME NEW T, T \subseteq Tracks, NEW s \in Seq(T)
    PROVE  Firsts(s) \in Seq(T)
<1>. DEFINE N == Len(s)
            K(x) == [out \in Seq(Tracks) |-> IF x \in Range(out) THEN out ELSE Append(out, x)]
            F == [n \in 1..N |-> K(s[n])]
            V == [n \in 0..N |-> Seq(T)]
<1>1. N \in Nat
  BY LenProperties
<1>2. Firsts(s) = Looped(F, <<>>)
  BY Zenon DEF Firsts
<1>3. ASSUME NEW n \in 1..N, NEW x \in Seq(T) PROVE F[n][x] \in Seq(T)
  <2>1. s[n] \in T /\ x \in Seq(Tracks)
    BY ElementOfSeq, SeqMonotonic
  <2>2. F[n][x] = IF s[n] \in Range(x) THEN x ELSE Append(x, s[n])
    BY <2>1
  <2>. QED  BY <2>1, <2>2, AppendProperties
<1>4. Len(F) = N
  <2>1. F \in [1..N -> {K(s[n]) : n \in 1..N}]
    OBVIOUS
  <2>. HIDE DEF F, K, N
  <2>. QED  BY <1>1, <2>1, FunIsSeq
<1>5. \A n \in 0..N : V[n] = Seq(T)
  OBVIOUS
<1>6. <<>> \in V[0] /\ 0 \in 0..N /\ N \in 0..N
  BY <1>1, EmptySeq
<1>. HIDE DEF F, V, N
<1>7. \A n \in 1..N : \A x \in V[n - 1] : F[n][x] \in V[n]
  BY <1>1, <1>3, <1>5
<1>8. Looped(F, <<>>) \in V[N]
  BY <1>1, <1>4, <1>6, <1>7, LoopedIs
<1>. QED  BY <1>2, <1>5, <1>6, <1>8

\* h: the lists of ss joined one after another.
Joins(h, ss, T) ==
    /\ h[0] = <<>> /\ h[Len(ss)] = FlattenSeq(ss)
    /\ \A n \in 1..Len(ss) : h[n] = h[n - 1] \o ss[n]
    /\ \A n \in 0..Len(ss) : h[n] \in Seq(T)

LEMMA FlattenRuns ==
    ASSUME NEW T, NEW ss \in Seq(Seq(T))
    PROVE  \E h : Joins(h, ss, T)
<1>. DEFINE Grown(n, x) == x \o ss[n]
            N == Len(ss)
            V == Seq(T)
            F == [n \in 1..N |-> [x \in V |-> Grown(n, x)]]
            Body(f) == [n \in 1..N |-> IF n = 1 THEN ss[n] ELSE f[n - 1] \o ss[n]]
            h == CHOOSE f : f = Body(f)
<1>1. N \in Nat /\ \A n \in 1..N : ss[n] \in V
  BY LenProperties, ElementOfSeq
<1>2. ASSUME NEW n \in 1..N, NEW x \in V PROVE Grown(n, x) \in V
  BY <1>1, ConcatProperties
<1>3. <<>> \in V /\ F \in [1..N -> [V -> V]]
  BY <1>2, EmptySeq
<1>4. \A n \in 1..N, x \in V : F[n][x] = x \o ss[n]
  OBVIOUS
<1>5. \A n \in 1..N : <<>> \o ss[n] = ss[n]
  BY <1>1, ConcatEmptySeq
<1>0. CASE N = 0
  <2>1. ss = <<>>
    BY <1>0, EmptySeq
  <2>2. FlattenSeq(ss) = ss
    BY <1>0 DEF FlattenSeq
  <2>. DEFINE j == [n \in 0..0 |-> <<>>]
  <2>3. \A n \in 0..0 : j[n] = <<>>
    OBVIOUS
  <2>. HIDE DEF j
  <2>4. 0 \in 0..0 /\ 1..0 = {}
    OBVIOUS
  <2>5. Joins(j, ss, T)
    BY <1>0, <1>3, <2>1, <2>2, <2>3, <2>4 DEF Joins
  <2>. QED  BY <2>5
<1>20. CASE N # 0
  <2>0. FlattenSeq(ss) = h[N]
    BY <1>20 DEF FlattenSeq
  <2>. HIDE DEF N, V, F, Grown
  <2>1. PICK f : Outcomes(V, N, F, <<>>, f)
    BY <1>1, <1>3, OutcomesExist
  <2>2. f \in [0..N -> V] /\ f[0] = <<>> /\ \A n \in 1..N : f[n] = F[n][f[n - 1]]
    BY <2>1 DEF Outcomes
  <2>3. ASSUME NEW n \in 1..N PROVE f[n] = f[n - 1] \o ss[n]
    <3>1. n - 1 \in 0..N
      BY <1>1
    <3>. QED  BY <1>4, <2>2, <3>1
  <2>. DEFINE g == [n \in 1..N |-> f[n]]
  <2>4. ASSUME NEW n \in 1..N PROVE g[n] = IF n = 1 THEN ss[n] ELSE g[n - 1] \o ss[n]
    <3>1. CASE n = 1
      <4>1. g[n] = f[n] /\ f[n] = f[n - 1] \o ss[n]
        BY <2>3
      <4>2. n - 1 = 0
        BY <3>1
      <4>3. f[n - 1] = <<>>
        BY <2>2, <4>2
      <4>. HIDE DEF g
      <4>. QED  BY <1>5, <3>1, <4>1, <4>3
    <3>2. CASE n # 1
      <4>1. n - 1 \in 1..N
        BY <1>1, <3>2
      <4>. QED  BY <2>3, <3>2, <4>1
    <3>. QED  BY <3>1, <3>2
  <2>5. g = Body(g)
    BY <2>4
  <2>6. h = Body(h)
    <3>. HIDE DEF Body, g
    <3>. QED  BY <2>5, Zenon
  <2>. HIDE DEF h
  <2>7. \A n \in 1..N : h[n] = IF n = 1 THEN ss[n] ELSE h[n - 1] \o ss[n]
    BY <2>6
  <2>. DEFINE k == [n \in 0..N |-> IF n = 0 THEN <<>> ELSE h[n]]
  <2>8. ASSUME NEW n \in 1..N PROVE k[n] = h[n] /\ (n - 1 = 0 \/ k[n - 1] = h[n - 1])
    BY <1>1
  <2>9. k[0] = <<>> /\ k[N] = h[N]
    BY <1>1, <1>20
  <2>10. ASSUME NEW n \in 1..N PROVE k[n] = k[n - 1] \o ss[n]
    <3>1. CASE n = 1
      <4>1. n - 1 = 0 /\ h[n] = ss[n] /\ k[n] = h[n]
        BY <2>7, <2>8, <3>1
      <4>. HIDE DEF k
      <4>. QED  BY <1>5, <2>9, <4>1
    <3>2. CASE n # 1
      <4>1. n - 1 # 0
        BY <1>1, <3>2
      <4>2. h[n] = h[n - 1] \o ss[n]
        BY <2>7, <3>2
      <4>. HIDE DEF k
      <4>. QED  BY <2>8, <4>1, <4>2
    <3>. QED  BY <3>1, <3>2
  <2>. HIDE DEF k
  <2>11. ASSUME NEW n \in 1..N, k[n - 1] \in V PROVE k[n] \in V
    <3>1. k[n - 1] \in Seq(T) /\ ss[n] \in Seq(T)
      BY <1>1, <2>11 DEF V
    <3>. QED  BY <2>10, <3>1, ConcatProperties DEF V
  <2>. DEFINE R == {n \in 0..N : k[n] \in V}
  <2>12. 0 \in R /\ \A n \in 1..N : n - 1 \in R => n \in R
    BY <1>1, <1>3, <2>9, <2>11
  <2>13. \A n \in 0..N : n \in R
    <3>. HIDE DEF R
    <3>. QED  BY <1>1, <2>12, UpTo
  <2>14. Joins(k, ss, T)
    BY <2>0, <2>9, <2>10, <2>13 DEF V, N, Joins
  <2>. QED  BY <2>14
<1>. QED  BY <1>0, <1>20

LEMMA FlattenIs ==
    ASSUME NEW T, NEW ss \in Seq(Seq(T))
    PROVE  FlattenSeq(ss) \in Seq(T)
<1>1. PICK h : Joins(h, ss, T)
  BY FlattenRuns
<1>2. Len(ss) \in 0..Len(ss)
  BY LenProperties
<1>. QED  BY <1>1, <1>2 DEF Joins

\* One pass of a shuffle.
Exchange(x, i, j) == IF i = 1 THEN x ELSE [x EXCEPT ![i] = x[j], ![j] = x[i]]

\* h: the list after each pass of a shuffle of s.
ShufflePasses(h, s, d) ==
    /\ h[0] = s /\ h[Len(s)] = FisherYates(s, d)
    /\ \A n \in 1..Len(s) : h[n] = Exchange(h[n - 1], Len(s) + 1 - n, d[Len(s) + 1 - n])
    /\ \A n \in 0..Len(s) : h[n] \in [1..Len(s) -> Range(s)]

LEMMA ShuffleRuns ==
    ASSUME NEW T, NEW s \in Seq(T), NEW d \in Draws(Len(s))
    PROVE  \E h : ShufflePasses(h, s, d)
<1>. DEFINE N == Len(s)
            W == [DOMAIN s -> Range(s)]
            E(i) == [out \in W |-> IF i = 1 THEN out
                                   ELSE [out EXCEPT ![i] = out[d[i]], ![d[i]] = out[i]]]
            F == [n \in 1..N |-> E(N + 1 - n)]
            V == [n \in 0..N |-> W]
<1>1. N \in Nat /\ DOMAIN s = 1..N
  BY LenProperties
<1>2. FisherYates(s, d) = Looped(F, s)
  BY Zenon DEF FisherYates
<1>3. d \in [2..N -> 1..N] /\ \A i \in 2..N : d[i] <= i
  BY DEF Draws
<1>4. s \in W
  BY LenProperties DEF Range
<1>. HIDE DEF N
<1>5. ASSUME NEW i \in 1..N, NEW x \in W
      PROVE  E(i)[x] = Exchange(x, i, d[i]) /\ E(i)[x] \in W
  <2>1. E(i)[x] = Exchange(x, i, d[i])
    <3>1. E(i)[x] = IF i = 1 THEN x ELSE [x EXCEPT ![i] = x[d[i]], ![d[i]] = x[i]]
      OBVIOUS
    <3>. HIDE DEF E
    <3>. QED  BY <3>1 DEF Exchange
  <2>. HIDE DEF E
  <2>2. CASE i = 1
    BY <2>1, <2>2 DEF Exchange
  <2>3. CASE i # 1
    <3>1. i \in 2..N
      BY <1>1, <2>3
    <3>2. d[i] \in 1..N /\ i \in 1..N
      BY <1>1, <1>3, <3>1
    <3>3. x[d[i]] \in Range(s) /\ x[i] \in Range(s)
      BY <1>1, <3>2
    <3>. QED  BY <1>1, <2>1, <2>3, <3>2, <3>3 DEF Exchange
  <2>. QED  BY <2>1, <2>2, <2>3
<1>6. ASSUME NEW n \in 1..N, NEW x \in W
      PROVE  F[n][x] = Exchange(x, N + 1 - n, d[N + 1 - n]) /\ F[n][x] \in W
  <2>1. N + 1 - n \in 1..N
    BY <1>1
  <2>2. F[n] = E(N + 1 - n)
    OBVIOUS
  <2>. HIDE DEF E, F, W
  <2>. QED  BY <1>5, <2>1, <2>2
<1>7. Len(F) = N
  <2>1. F \in [1..N -> {E(N + 1 - n) : n \in 1..N}]
    OBVIOUS
  <2>. HIDE DEF F, E
  <2>. QED  BY <1>1, <2>1, FunIsSeq
<1>8. \A n \in 0..N : V[n] = W
  OBVIOUS
<1>9. s \in V[0] /\ 0 \in 0..N /\ N \in 0..N
  BY <1>1, <1>4
<1>. HIDE DEF F, V, W
<1>10. \A n \in 1..N : n \in 0..N /\ n - 1 \in 0..N
  BY <1>1
<1>11. \A n \in 1..N : \A x \in V[n - 1] : F[n][x] \in V[n]
  BY <1>6, <1>8, <1>10
<1>12. PICK h : Passes(h, N, F, V, s)
  BY <1>1, <1>7, <1>9, <1>11, LoopedRuns
<1>13. \A n \in 0..N : h[n] \in W
  BY <1>8, <1>12 DEF Passes
<1>14. \A n \in 1..N : h[n] = Exchange(h[n - 1], N + 1 - n, d[N + 1 - n])
  BY <1>6, <1>10, <1>12, <1>13 DEF Passes
<1>15. h[0] = s /\ h[N] = FisherYates(s, d) /\ \A n \in 0..N : h[n] \in [1..N -> Range(s)]
  BY <1>1, <1>2, <1>12, <1>13 DEF W, Passes
<1>16. ShufflePasses(h, s, d)
  BY <1>14, <1>15 DEF N, ShufflePasses
<1>. QED  BY <1>16

LEMMA FisherYatesIs ==
    ASSUME NEW T, NEW s \in Seq(T), NEW d \in Draws(Len(s))
    PROVE  FisherYates(s, d) \in Seq(T)
<1>1. Len(s) \in Nat /\ Len(s) \in 0..Len(s) /\ Range(s) \subseteq T
  BY LenProperties, RangeOfSeq
<1>2. FisherYates(s, d) \in [1..Len(s) -> Range(s)]
  <2>1. PICK h : ShufflePasses(h, s, d)
    BY ShuffleRuns
  <2>. QED  BY <1>1, <2>1 DEF ShufflePasses
<1>3. FisherYates(s, d) \in [1..Len(s) -> T]
  BY <1>1, <1>2
<1>. QED  BY <1>1, <1>3, FunIsSeq

LEMMA NextOfIs ==
    ASSUME NEW out, NEW T, NEW pool \in Seq(T), pool # <<>>
    PROVE  /\ NextOf(out, pool) \in 1..Len(pool)
           /\ \/ /\ NextOf(out, pool) = 1 /\ out # <<>>
                 /\ \A k \in 1..Len(pool) : ArtistOf[pool[k]] = ArtistOf[Last(out)]
              \/ /\ out # <<>> => ArtistOf[pool[NextOf(out, pool)]] # ArtistOf[Last(out)]
                 /\ \A k \in 1..Len(pool) : k < NextOf(out, pool) =>
                        out # <<>> /\ ArtistOf[pool[k]] = ArtistOf[Last(out)]
<1>. DEFINE fit == {i \in DOMAIN pool : out = <<>> \/ ArtistOf[pool[i]] # ArtistOf[Last(out)]}
<1>1. Len(pool) \in Nat \ {0} /\ DOMAIN pool = 1..Len(pool)
  BY LenProperties, EmptySeq
<1>2. fit \subseteq 1..Len(pool) /\ fit \in SUBSET (0..Len(pool))
  BY <1>1
<1>10. \A k \in 1..Len(pool) : k \in fit <=> out = <<>> \/ ArtistOf[pool[k]] # ArtistOf[Last(out)]
  BY <1>1
<1>3. NextOf(out, pool) = IF fit = {} THEN 1 ELSE CHOOSE j \in fit : \A k \in fit : j <= k
  BY DEF NextOf
<1>. HIDE DEF fit
<1>4. fit # {} => \E j \in fit : \A k \in fit : j <= k
  BY <1>1, <1>2, Least
<1>5. CASE fit = {}
  <2>1. 1 \in 1..Len(pool) /\ NextOf(out, pool) = 1
    BY <1>1, <1>3, <1>5
  <2>. QED  BY <1>5, <1>10, <2>1
<1>6. CASE fit # {}
  <2>1. NextOf(out, pool) \in fit /\ \A k \in fit : NextOf(out, pool) <= k
    BY <1>3, <1>4, <1>6
  <2>2. NextOf(out, pool) \in 1..Len(pool)
    BY <1>2, <2>1
  <2>3. \A k \in 1..Len(pool) : k < NextOf(out, pool) => k \notin fit
    BY <2>1, <2>2
  <2>. QED  BY <1>10, <2>1, <2>2, <2>3
<1>. QED  BY <1>5, <1>6

LEMMA RemoveAtIs ==
    ASSUME NEW T, NEW s \in Seq(T), NEW i \in 1..Len(s)
    PROVE  /\ RemoveAt(s, i) \in Seq(T) /\ Len(RemoveAt(s, i)) = Len(s) - 1
           /\ \A k \in 1..Len(s) - 1 : RemoveAt(s, i)[k] = s[IF k < i THEN k ELSE k + 1]
<1>. DEFINE N == Len(s)
            a == SubSeq(s, 1, i - 1)
            b == SubSeq(s, i + 1, N)
<1>1. N \in Nat /\ i \in 1..N
  BY LenProperties
<1>2. \A k \in 1..i - 1 : s[k] \in T
  BY <1>1, ElementOfSeq
<1>3. \A k \in i + 1..N : s[k] \in T
  BY <1>1, ElementOfSeq
<1>4. RemoveAt(s, i) = a \o b
  BY DEF RemoveAt
<1>. HIDE DEF N
<1>5. a \in Seq(T) /\ Len(a) = i - 1
      /\ \A k \in 1..i - 1 : a[k] = s[k]
  BY <1>1, <1>2, SubSeqProperties
<1>6. b \in Seq(T) /\ Len(b) = N - i
      /\ \A k \in 1..N - i : b[k] = s[i + k]
  BY <1>1, <1>3, SubSeqProperties
<1>. HIDE DEF a, b
<1>7. a \o b \in Seq(T) /\ Len(a \o b) = Len(a) + Len(b)
      /\ \A k \in 1..Len(a) + Len(b) : (a \o b)[k] = IF k <= Len(a) THEN a[k] ELSE b[k - Len(a)]
  BY <1>5, <1>6, ConcatProperties
<1>8. Len(a) + Len(b) = N - 1
  BY <1>1, <1>5, <1>6
<1>9. ASSUME NEW k \in 1..N - 1 PROVE (a \o b)[k] = s[IF k < i THEN k ELSE k + 1]
  <2>1. Len(a) = i - 1 /\ k \in 1..Len(a) + Len(b)
    BY <1>1, <1>5, <1>8
  <2>2. CASE k < i
    BY <1>1, <1>5, <1>7, <2>1, <2>2
  <2>3. CASE ~(k < i)
    <3>1. k - Len(a) \in 1..N - i /\ i + (k - Len(a)) = k + 1 /\ ~(k <= Len(a))
      BY <1>1, <2>1, <2>3
    <3>. QED  BY <1>6, <1>7, <2>1, <2>3, <3>1
  <2>. QED  BY <2>2, <2>3
<1>. QED  BY <1>4, <1>7, <1>8, <1>9 DEF N

\* A pass moves an item of the pool to the end of the list.
Moved(q) ==
    [out |-> Append(q.out, q.pool[NextOf(q.out, q.pool)]), pool |-> RemoveAt(q.pool, NextOf(q.out, q.pool))]

\* h: the list and the pool after each pass.
SpreadPasses(h, s, T) ==
    /\ h[0].out = <<>> /\ h[0].pool = s /\ h[Len(s)].out = SpreadArtists(s)
    /\ \A n \in 1..Len(s) : h[n] = Moved(h[n - 1])
    /\ \A n \in 0..Len(s) : /\ h[n].out \in Seq(T) /\ h[n].pool \in Seq(T)
                           /\ Len(h[n].pool) = Len(s) - n

LEMMA SpreadRuns ==
    ASSUME NEW T, T \subseteq Tracks, NEW s \in Seq(T)
    PROVE  \E h : SpreadPasses(h, s, T)
<1>. DEFINE N == Len(s)
            M == [q \in [out : Seq(Tracks), pool : Seq(Tracks)] |->
                    LET i == NextOf(q.out, q.pool)
                    IN  [out |-> Append(q.out, q.pool[i]), pool |-> RemoveAt(q.pool, i)]]
            F == [n \in 1..N |-> M]
            V == [n \in 0..N |-> {q \in [out : Seq(T), pool : Seq(T)] : Len(q.pool) = N - n}]
            v == [out |-> <<>>, pool |-> s]
<1>1. N \in Nat
  BY LenProperties
<1>2. SpreadArtists(s) = Looped(F, v).out
  BY Zenon DEF SpreadArtists
<1>3. ASSUME NEW n \in 1..N, NEW q \in V[n - 1] PROVE F[n][q] \in V[n] /\ F[n][q] = Moved(q)
  <2>1. n - 1 \in 0..N /\ n \in 0..N
    BY <1>1
  <2>2. q.out \in Seq(T) /\ q.pool \in Seq(T) /\ Len(q.pool) = N - (n - 1)
    BY <2>1
  <2>3. q \in [out : Seq(Tracks), pool : Seq(Tracks)]
    <3>1. q \in [out : Seq(T), pool : Seq(T)]
      BY <2>1
    <3>2. q.out \in Seq(Tracks) /\ q.pool \in Seq(Tracks)
      BY <2>2, SeqMonotonic
    <3>. QED  BY <3>1, <3>2
  <2>. DEFINE i == NextOf(q.out, q.pool)
              to == [out |-> Append(q.out, q.pool[i]), pool |-> RemoveAt(q.pool, i)]
  <2>4. F[n][q] = to
    BY <2>3
  <2>. HIDE DEF F, M, N
  <2>5. q.pool # <<>>
    <3>1. Len(q.pool) # 0
      BY <1>1, <2>2
    <3>. QED  BY <3>1, EmptySeq
  <2>6. i \in 1..Len(q.pool)
    BY <2>2, <2>5, NextOfIs
  <2>. HIDE DEF i
  <2>7. q.pool[i] \in T
    BY <2>2, <2>6, ElementOfSeq
  <2>8. Append(q.out, q.pool[i]) \in Seq(T)
    BY <2>2, <2>7, AppendProperties
  <2>9. RemoveAt(q.pool, i) \in Seq(T) /\ Len(RemoveAt(q.pool, i)) = Len(q.pool) - 1
    BY <2>2, <2>6, RemoveAtIs
  <2>10. Len(RemoveAt(q.pool, i)) = N - n
    BY <1>1, <2>2, <2>9
  <2>11. to \in [out : Seq(T), pool : Seq(T)] /\ Len(to.pool) = N - n
    BY <2>8, <2>9, <2>10
  <2>12. to = Moved(q)
    BY DEF Moved, i
  <2>. HIDE DEF to
  <2>. QED  BY <2>1, <2>4, <2>11, <2>12
<1>4. Len(F) = N
  <2>1. F \in [1..N -> {M}]
    OBVIOUS
  <2>. HIDE DEF F, M, N
  <2>. QED  BY <1>1, <2>1, FunIsSeq
<1>5. v \in V[0]
  <2>1. 0 \in 0..N /\ N - 0 = N
    BY <1>1
  <2>. QED  BY <2>1, EmptySeq
<1>6. \A n \in 0..N : V[n] = {q \in [out : Seq(T), pool : Seq(T)] : Len(q.pool) = N - n}
  OBVIOUS
<1>7. v.out = <<>> /\ v.pool = s
  OBVIOUS
<1>. HIDE DEF F, V, v, N
<1>8. PICK h : Passes(h, N, F, V, v)
  BY <1>1, <1>3, <1>4, <1>5, LoopedRuns
<1>9. \A n \in 0..N : h[n].out \in Seq(T) /\ h[n].pool \in Seq(T) /\ Len(h[n].pool) = N - n
  BY <1>6, <1>8 DEF Passes
<1>10. \A n \in 1..N : h[n] = Moved(h[n - 1])
  <2>1. \A n \in 1..N : n - 1 \in 0..N
    BY <1>1
  <2>. QED  BY <1>3, <1>8, <2>1 DEF Passes
<1>11. SpreadPasses(h, s, T)
  BY <1>2, <1>7, <1>8, <1>9, <1>10 DEF Passes, SpreadPasses, N
<1>. QED  BY <1>11

LEMMA SpreadArtistsIs ==
    ASSUME NEW T, T \subseteq Tracks, NEW s \in Seq(T)
    PROVE  SpreadArtists(s) \in Seq(T)
<1>1. PICK h : SpreadPasses(h, s, T)
  BY SpreadRuns
<1>2. Len(s) \in 0..Len(s)
  BY LenProperties
<1>. QED  BY <1>1, <1>2 DEF SpreadPasses

LEMMA PairIs ==
    ASSUME NEW T, NEW x \in T, NEW y \in T
    PROVE  <<x, y>> \in Seq(T) /\ Len(<<x, y>>) = 2 /\ <<x, y>>[1] = x /\ <<x, y>>[2] = y
OBVIOUS

LEMMA SingleIs ==
    ASSUME NEW T, NEW x \in T
    PROVE  <<x>> \in Seq(T) /\ Len(<<x>>) = 1 /\ <<x>>[1] = x
OBVIOUS

LEMMA FlattenPair ==
    ASSUME NEW T, NEW ss \in Seq(Seq(T)), Len(ss) = 2
    PROVE  FlattenSeq(ss) = ss[1] \o ss[2] /\ ss[1] \in Seq(T) /\ ss[2] \in Seq(T)
<1>1. PICK h : Joins(h, ss, T)
  BY FlattenRuns
<1>2. ss[1] \in Seq(T) /\ ss[2] \in Seq(T)
  <2>1. \A n \in 1..Len(ss) : ss[n] \in Seq(T)
    BY ElementOfSeq
  <2>. QED  BY <2>1
<1>3. h[0] = <<>> /\ h[2] = FlattenSeq(ss) /\ \A n \in 1..2 : h[n] = h[n - 1] \o ss[n]
  BY <1>1 DEF Joins
<1>4. h[1] = h[0] \o ss[1] /\ h[2] = h[1] \o ss[2]
  <2>1. 1 \in 1..2 /\ 2 \in 1..2 /\ 1 - 1 = 0 /\ 2 - 1 = 1
    OBVIOUS
  <2>. QED  BY <1>3, <2>1
<1>5. h[1] = ss[1]
  BY <1>2, <1>3, <1>4, ConcatEmptySeq
<1>. QED  BY <1>2, <1>3, <1>4, <1>5

\* What a round adds: the n-th item of a, if there is one.
Nth(a, n) == IF n <= Len(a) THEN <<a[n]>> ELSE <<>>

LEMMA NthIs ==
    ASSUME NEW T, NEW a \in Seq(T), NEW n \in Nat \ {0}
    PROVE  /\ Nth(a, n) \in Seq(T)
           /\ n <= Len(a) => Len(Nth(a, n)) = 1 /\ Nth(a, n)[1] = a[n]
           /\ ~(n <= Len(a)) => Len(Nth(a, n)) = 0
<1>1. CASE n <= Len(a)
  <2>1. n \in 1..Len(a)
    BY <1>1, LenProperties
  <2>2. a[n] \in T
    BY <2>1, ElementOfSeq
  <2>. QED  BY <1>1, <2>2, SingleIs DEF Nth
<1>2. CASE ~(n <= Len(a))
  BY <1>2, EmptySeq DEF Nth
<1>. QED  BY <1>1, <1>2

\* h: the list after each of M rounds over a and b.
Rounds(h, a, b, M, T) ==
    /\ M \in Nat /\ Len(a) <= M /\ Len(b) <= M /\ (M = Len(a) \/ M = Len(b))
    /\ h[0] = <<>> /\ h[M] = RoundRobin(<<a, b>>)
    /\ \A n \in 1..M : h[n] = h[n - 1] \o (Nth(a, n) \o Nth(b, n))
    /\ \A n \in 0..M : h[n] \in Seq(T)

LEMMA RoundRobinRuns ==
    ASSUME NEW T, NEW s \in Seq(T), NEW t \in Seq(T)
    PROVE  \E h : \E M : Rounds(h, s, t, M, T)
<1>. DEFINE L == <<s, t>>
            longest == CHOOSE n \in {Len(L[k]) : k \in DOMAIN L} : \A k \in DOMAIN L : Len(L[k]) <= n
            turn(i) == [k \in DOMAIN L |-> IF i <= Len(L[k]) THEN <<L[k][i]>> ELSE <<>>]
            all == [i \in 1..longest |-> FlattenSeq(turn(i))]
<1>1. RoundRobin(L) = FlattenSeq(all)
  BY Zenon DEF RoundRobin
<1>2. DOMAIN L = 1..2 /\ L[1] = s /\ L[2] = t
  OBVIOUS
<1>3. Len(s) \in Nat /\ Len(t) \in Nat
  BY LenProperties
<1>4. longest \in {Len(s), Len(t)} /\ Len(s) <= longest /\ Len(t) <= longest
  <2>0. {Len(L[k]) : k \in 1..2} = {Len(L[1]), Len(L[2])}
    <3>. HIDE DEF L
    <3>1. \A k \in 1..2 : k = 1 \/ k = 2
      OBVIOUS
    <3>2. 1 \in 1..2 /\ 2 \in 1..2
      OBVIOUS
    <3>. QED  BY <3>1, <3>2, Zenon
  <2>1. {Len(L[k]) : k \in DOMAIN L} = {Len(s), Len(t)}
    <3>. HIDE DEF L
    <3>. QED  BY <1>2, <2>0
  <2>2. \E n \in {Len(s), Len(t)} : Len(s) <= n /\ Len(t) <= n
    BY <1>3
  <2>3. \E n \in {Len(L[k]) : k \in DOMAIN L} : \A k \in DOMAIN L : Len(L[k]) <= n
    BY <1>2, <2>1, <2>2
  <2>4. longest \in {Len(L[k]) : k \in DOMAIN L} /\ \A k \in DOMAIN L : Len(L[k]) <= longest
    BY <2>3, Zenon
  <2>. HIDE DEF longest, L
  <2>5. 1 \in DOMAIN L /\ 2 \in DOMAIN L
    BY <1>2
  <2>. QED  BY <1>2, <2>1, <2>4, <2>5
<1>5. longest \in Nat
  BY <1>3, <1>4
<1>. HIDE DEF L, longest
<1>6. ASSUME NEW i \in 1..longest
      PROVE  all[i] = Nth(s, i) \o Nth(t, i) /\ all[i] \in Seq(T)
  <2>1. i \in Nat \ {0}
    BY <1>5
  <2>2. DOMAIN turn(i) = 1..2 /\ turn(i)[1] = Nth(s, i) /\ turn(i)[2] = Nth(t, i)
    BY <1>2 DEF Nth
  <2>3. \A k \in 1..2 : turn(i)[k] \in Seq(T)
    <3>1. Nth(s, i) \in Seq(T) /\ Nth(t, i) \in Seq(T)
      BY <2>1, NthIs
    <3>. HIDE DEF turn
    <3>2. \A k \in 1..2 : k = 1 \/ k = 2
      OBVIOUS
    <3>. QED  BY <2>2, <3>1, <3>2
  <2>4. turn(i) \in [1..2 -> Seq(T)]
    BY <2>2, <2>3
  <2>5. all[i] = FlattenSeq(turn(i))
    OBVIOUS
  <2>. HIDE DEF turn, all
  <2>6. turn(i) \in Seq(Seq(T)) /\ Len(turn(i)) = 2
    BY <2>4, FunIsSeq
  <2>7. /\ FlattenSeq(turn(i)) = turn(i)[1] \o turn(i)[2]
        /\ turn(i)[1] \in Seq(T) /\ turn(i)[2] \in Seq(T)
    BY <2>6, FlattenPair
  <2>8. turn(i)[1] \o turn(i)[2] \in Seq(T)
    BY <2>7, ConcatProperties
  <2>. QED  BY <2>2, <2>5, <2>7, <2>8
<1>7. all \in [1..longest -> Seq(T)]
  <2>1. all = [i \in 1..longest |-> all[i]]
    OBVIOUS
  <2>. HIDE DEF all
  <2>. QED  BY <1>6, <2>1
<1>. HIDE DEF all
<1>8. all \in Seq(Seq(T)) /\ Len(all) = longest
  BY <1>5, <1>7, FunIsSeq
<1>9. PICK h : Joins(h, all, T)
  BY <1>8, FlattenRuns
<1>10. Rounds(h, s, t, longest, T)
  BY <1>1, <1>4, <1>5, <1>6, <1>8, <1>9 DEF Joins, Rounds, L
<1>. QED  BY <1>10

LEMMA RoundRobinIs ==
    ASSUME NEW T, NEW s \in Seq(T), NEW t \in Seq(T)
    PROVE  RoundRobin(<<s, t>>) \in Seq(T)
<1>1. PICK h : \E M : Rounds(h, s, t, M, T)
  BY RoundRobinRuns
<1>2. PICK M : Rounds(h, s, t, M, T)
  BY <1>1
<1>3. M \in 0..M
  BY <1>2 DEF Rounds
<1>. QED  BY <1>2, <1>3 DEF Rounds

LEMMA ChunksIs ==
    ASSUME NEW T, NEW s \in Seq(T), NEW size \in Nat \ {0}
    PROVE  Chunks(s, size) \in Seq(Seq(T))
<1>. DEFINE N == Len(s)
            k == (N + size - 1) \div size
            part(n) == SubSeq(s, (n - 1) * size + 1, IF n * size < N THEN n * size ELSE N)
<1>1. N \in Nat
  BY LenProperties
<1>2. Chunks(s, size) = [n \in 1..k |-> part(n)]
  BY Zenon DEF Chunks
<1>3. ASSUME NEW n \in Nat \ {0} PROVE part(n) \in Seq(T)
  <2>. DEFINE i == (n - 1) * size + 1
              j == IF n * size < N THEN n * size ELSE N
  <2>1. n - 1 \in Nat /\ (n - 1) * size \in Nat /\ n * size \in Nat
    BY <1>3
  <2>2. i \in Nat \ {0}
    BY <2>1
  <2>3. j \in 0..N
    BY <1>1, <2>1
  <2>. HIDE DEF i, j
  <2>4. SubSeq(s, i, j) \in Seq(T)
    BY <2>2, <2>3, SubSeqRange
  <2>. QED  BY <2>4 DEF i, j
<1>4. k \in Nat
  <2>1. N + size - 1 \in Nat
    BY <1>1
  <2>. HIDE DEF N
  <2>. QED  BY <2>1
<1>. HIDE DEF k, part
<1>5. [n \in 1..k |-> part(n)] \in [1..k -> Seq(T)]
  BY <1>3, <1>4
<1>. QED  BY <1>2, <1>4, <1>5, FunIsSeq

\* A filter that drops nothing leaves the list as it is.
LEMMA KeptAll ==
    ASSUME NEW T, NEW s \in Seq(T), NEW S
    PROVE  /\ Len(Kept(s, S)) <= Len(s)
           /\ Len(Kept(s, S)) = Len(s) => Kept(s, S) = s /\ Range(s) \subseteq S
           /\ Range(s) \subseteq S => Kept(s, S) = s
<1>0. PICK f : Keeps(f, s, S)
  BY KeepsExists
<1>. DEFINE N == Len(s)
            Same(n) == /\ f[n] \in Seq(T) /\ Len(f[n]) <= n
                       /\ Len(f[n]) = n => f[n] = SubSeq(s, 1, n)
                       /\ (\A k \in 1..n : s[k] \in S) => Len(f[n]) = n
            G == {n \in 0..N : Same(n)}
<1>1. N \in Nat /\ DOMAIN s = 1..N
  BY LenProperties
<1>2. 0 \in G
  <2>1. f[0] = <<>>
    BY <1>0 DEF Keeps
  <2>2. SubSeq(s, 1, 0) = <<>>
    BY SubSeqEmpty
  <2>3. f[0] \in Seq(T) /\ Len(f[0]) = 0 /\ f[0] = SubSeq(s, 1, 0)
    <3>. HIDE DEF N
    <3>. QED  BY <2>1, <2>2, EmptySeq
  <2>4. Same(0)
    BY <2>3
  <2>. HIDE DEF Same, N
  <2>. QED  BY <1>1, <2>4
<1>3. ASSUME NEW n \in 1..N, n - 1 \in G PROVE n \in G
  <2>1. Same(n - 1)
    BY <1>3
  <2>2. f[n - 1] \in Seq(T) /\ Len(f[n - 1]) \in Nat /\ Len(f[n - 1]) <= n - 1
    BY <2>1, LenProperties
  <2>3. s[n] \in T
    BY ElementOfSeq
  <2>4. SubSeq(s, 1, n - 1) \in Seq(T) /\ Append(SubSeq(s, 1, n - 1), s[n]) = SubSeq(s, 1, n)
    <3>1. SubSeq(s, 1, n) = SubSeq(s, 1, n - 1) \o <<s[n]>>
      <4>1. 1 \in 1..Len(s) /\ n \in 1..Len(s)
        BY <1>1
      <4>. QED  BY <4>1, SubSeqRecursiveSecond
    <3>2. SubSeq(s, 1, n - 1) \in Seq(T)
      BY <1>1, SubSeqRange
    <3>. QED  BY <2>3, <3>1, <3>2, AppendIsConcat
  <2>5. CASE s[n] \in S
    <3>1. f[n] = Append(f[n - 1], s[n])
      BY <1>0, <2>5 DEF Keeps
    <3>2. f[n] \in Seq(T) /\ Len(f[n]) = Len(f[n - 1]) + 1
      BY <2>2, <2>3, <3>1, AppendProperties
    <3>3. Len(f[n]) <= n /\ (Len(f[n]) = n => Len(f[n - 1]) = n - 1)
      BY <1>1, <2>2, <3>2
    <3>4. Len(f[n]) = n => f[n] = SubSeq(s, 1, n)
      BY <2>1, <2>4, <3>1, <3>3
    <3>5. (\A k \in 1..n : s[k] \in S) => Len(f[n]) = n
      <4>1. (\A k \in 1..n : s[k] \in S) => \A k \in 1..n - 1 : s[k] \in S
        BY <1>1
      <4>2. (\A k \in 1..n : s[k] \in S) => Len(f[n - 1]) = n - 1
        BY <2>1, <4>1
      <4>. QED  BY <1>1, <3>2, <4>2
    <3>. QED  BY <1>1, <3>2, <3>3, <3>4, <3>5
  <2>6. CASE s[n] \notin S
    <3>1. f[n] = f[n - 1]
      BY <1>0, <2>6 DEF Keeps
    <3>2. Len(f[n]) < n /\ Len(f[n]) # n
      BY <1>1, <2>2, <3>1
    <3>3. ~\A k \in 1..n : s[k] \in S
      BY <1>1, <2>6
    <3>. QED  BY <1>1, <2>2, <3>1, <3>2, <3>3
  <2>. QED  BY <2>5, <2>6
<1>4. Same(N)
  <2>. HIDE DEF G, N
  <2>1. \A n \in 0..N : n \in G
    BY <1>1, <1>2, <1>3, UpTo
  <2>2. N \in G
    BY <1>1, <2>1
  <2>. QED  BY <2>2 DEF G
<1>5. f[N] = Kept(s, S)
  BY <1>0 DEF Keeps
<1>6. SubSeq(s, 1, N) = s
  BY SubSeqFull
<1>7. Range(s) \subseteq S => \A k \in 1..N : s[k] \in S
  BY <1>1 DEF Range
<1>. HIDE DEF N
<1>8. /\ Len(Kept(s, S)) <= N
      /\ Len(Kept(s, S)) = N => Kept(s, S) = s
      /\ Range(s) \subseteq S => Kept(s, S) = s
  BY <1>4, <1>5, <1>6, <1>7
<1>9. Kept(s, S) = s => Range(s) \subseteq S
  BY KeptIs
<1>. QED  BY <1>8, <1>9 DEF N

\* R puts the numbers up to N in a row.
StrictOrder(R, N) ==
    /\ \A i \in 1..N : <<i, i>> \notin R
    /\ \A i \in 1..N, j \in 1..N : i # j => <<i, j>> \in R \/ <<j, i>> \in R
    /\ \A i \in 1..N, j \in 1..N, k \in 1..N : <<i, j>> \in R /\ <<j, k>> \in R => <<i, k>> \in R

\* Every place is somebody's.
LEMMA Ranked ==
    ASSUME NEW N \in Nat, NEW R, StrictOrder(R, N)
    PROVE  \A p \in 1..N : \E i \in 1..N : Cardinality({j \in 1..N : <<j, i>> \in R}) = p - 1
<1>. DEFINE D == 1..N
            Below(i) == {j \in D : <<j, i>> \in R}
            rank == [i \in D |-> Cardinality(Below(i))]
<1>1. IsFiniteSet(D) /\ Cardinality(D) = N
  BY FS_Interval
<1>2. IsFiniteSet(0..N - 1) /\ Cardinality(0..N - 1) = N
  BY FS_Interval
<1>3. ASSUME NEW i \in D
      PROVE  IsFiniteSet(Below(i)) /\ Cardinality(Below(i)) \in 0..N - 1
  <2>1. IsFiniteSet(D \ {i}) /\ Cardinality(D \ {i}) = N - 1
    <3>. HIDE DEF D
    <3>. QED  BY <1>1, <1>3, FS_RemoveElement
  <2>2. Below(i) \in SUBSET (D \ {i})
    BY DEF StrictOrder
  <2>. HIDE DEF Below, D
  <2>3. IsFiniteSet(Below(i)) /\ Cardinality(Below(i)) <= N - 1
    BY <2>1, <2>2, FS_Subset
  <2>4. Cardinality(Below(i)) \in Nat
    BY <2>3, FS_CardinalityType
  <2>. QED  BY <2>3, <2>4
<1>4. ASSUME NEW i \in D, NEW j \in D, <<i, j>> \in R
      PROVE  rank[i] # rank[j]
  <2>1. Below(i) \in SUBSET Below(j)
    BY <1>4 DEF StrictOrder
  <2>2. i \in Below(j) /\ i \notin Below(i)
    BY <1>4 DEF StrictOrder
  <2>3. IsFiniteSet(Below(j))
    BY <1>3
  <2>4. rank[i] = Cardinality(Below(i)) /\ rank[j] = Cardinality(Below(j))
    OBVIOUS
  <2>. HIDE DEF Below, D, rank
  <2>5. Cardinality(Below(j)) = Cardinality(Below(i)) => Below(j) = Below(i)
    BY <2>1, <2>3, FS_Subset
  <2>. QED  BY <2>2, <2>4, <2>5
<1>5. rank \in [D -> 0..N - 1]
  BY <1>3
<1>6. \A i \in D, j \in D : rank[i] = rank[j] => i = j
  <2>. HIDE DEF rank
  <2>1. \A i \in D, j \in D : i # j => <<i, j>> \in R \/ <<j, i>> \in R
    BY DEF StrictOrder
  <2>. QED  BY <1>4, <2>1
<1>. HIDE DEF D
<1>7. rank \in Injection(D, 0..N - 1)
  <2>. HIDE DEF rank
  <2>1. DOMAIN rank = D
    BY <1>5
  <2>. QED  BY <1>5, <1>6, <2>1 DEF Injection, IsInjective
<1>8. rank \in Surjection(D, 0..N - 1)
  <2>. HIDE DEF rank
  <2>. QED  BY <1>1, <1>2, <1>7, FS_Injection
<1>9. ASSUME NEW p \in 1..N PROVE \E i \in D : rank[i] = p - 1
  <2>1. p - 1 \in 0..N - 1
    OBVIOUS
  <2>. HIDE DEF rank
  <2>. QED  BY <1>8, <2>1 DEF Surjection
<1>. QED  BY <1>9 DEF D

LEMMA InOrderIs ==
    ASSUME NEW T, NEW s \in Seq(T), NEW R, StrictOrder(R, Len(s))
    PROVE  InOrder(s, R) \in Seq(T)
<1>. DEFINE N == Len(s)
            Place(i) == Cardinality({j \in 1..N : <<j, i>> \in R})
            At(p) == CHOOSE i \in 1..N : Place(i) = p - 1
<1>1. N \in Nat /\ DOMAIN s = 1..N
  BY LenProperties
<1>2. \A p \in 1..N : \E i \in 1..N : Place(i) = p - 1
  BY <1>1, Ranked
<1>3. InOrder(s, R) = [p \in 1..N |-> s[At(p)]]
  BY <1>1 DEF InOrder
<1>. HIDE DEF N, Place
<1>4. \A p \in 1..N : At(p) \in 1..N
  BY <1>2
<1>. HIDE DEF At
<1>5. \A p \in 1..N : s[At(p)] \in T
  <2>. USE DEF N
  <2>. QED  BY <1>4, ElementOfSeq
<1>6. InOrder(s, R) \in [1..N -> T]
  BY <1>3, <1>5
<1>. QED  BY <1>1, <1>6, FunIsSeq

LEMMA SortOrder ==
    ASSUME NEW s \in Seq(Tracks), NEW desc
    PROVE  StrictOrder(IF desc THEN Descending(s) ELSE Ascending(s), Len(s))
<1>. DEFINE N == Len(s)
            key(i) == SortKey[s[i]]
<1>1. N \in Nat /\ DOMAIN s = 1..N
  BY LenProperties
<1>2. \A i \in 1..N : key(i) \in Int
  <2>1. \A i \in 1..N : s[i] \in Tracks
    BY ElementOfSeq
  <2>. QED  BY <2>1, AlgebraAssumption DEF AlgebraAssumption
<1>3. \A i \in 1..N, j \in 1..N :
          /\ <<i, j>> \in Ascending(s) <=> key(i) < key(j) \/ (key(i) = key(j) /\ i < j)
          /\ <<i, j>> \in Descending(s) <=> key(i) > key(j) \/ (key(i) = key(j) /\ i < j)
  BY <1>1 DEF Ascending, Descending
<1>. HIDE DEF N, key
<1>4. StrictOrder(Ascending(s), N)
  <2>1. \A i \in 1..N : <<i, i>> \notin Ascending(s)
    BY <1>1, <1>2, <1>3
  <2>2. \A i \in 1..N, j \in 1..N : i # j => <<i, j>> \in Ascending(s) \/ <<j, i>> \in Ascending(s)
    BY <1>1, <1>2, <1>3
  <2>3. \A i \in 1..N, j \in 1..N, k \in 1..N :
            <<i, j>> \in Ascending(s) /\ <<j, k>> \in Ascending(s) => <<i, k>> \in Ascending(s)
    BY <1>1, <1>2, <1>3
  <2>. QED  BY <2>1, <2>2, <2>3 DEF StrictOrder
<1>5. StrictOrder(Descending(s), N)
  <2>1. \A i \in 1..N : <<i, i>> \notin Descending(s)
    BY <1>1, <1>2, <1>3
  <2>2. \A i \in 1..N, j \in 1..N : i # j => <<i, j>> \in Descending(s) \/ <<j, i>> \in Descending(s)
    BY <1>1, <1>2, <1>3
  <2>3. \A i \in 1..N, j \in 1..N, k \in 1..N :
            <<i, j>> \in Descending(s) /\ <<j, k>> \in Descending(s) => <<i, k>> \in Descending(s)
    BY <1>1, <1>2, <1>3
  <2>. QED  BY <2>1, <2>2, <2>3 DEF StrictOrder
<1>. QED  BY <1>4, <1>5 DEF N

LEMMA SortItemsIs ==
    ASSUME NEW T, T \subseteq Tracks, NEW s \in Seq(T), NEW desc
    PROVE  SortItems(s, desc) \in Seq(T)
<1>1. s \in Seq(Tracks)
  BY SeqMonotonic
<1>. QED  BY <1>1, SortOrder, InOrderIs DEF SortItems

LEMMA RangeFinite ==
    ASSUME NEW T, NEW s \in Seq(T)
    PROVE  IsFiniteSet(Range(s))
<1>1. IsFiniteSet(1..Len(s))
  BY LenProperties, FS_Interval
<1>2. Range(s) = {s[i] : i \in 1..Len(s)}
  BY RangeEquality
<1>. DEFINE f == [i \in 1..Len(s) |-> s[i]]
<1>3. f \in Surjection(1..Len(s), Range(s))
  BY <1>2 DEF Surjection
<1>. HIDE DEF f
<1>. QED  BY <1>1, <1>3, FS_Surjection

\* What is chosen among finitely many items.
LEMMA ChosenIs ==
    ASSUME NEW T, NEW S \in SUBSET T, IsFiniteSet(S), NEW plays, NEW size \in Nat
    PROVE  MostPlayed(plays, S, size) \subseteq Seq(T) /\ SetToSeqs(S) \subseteq Seq(T)
<1>. DEFINE n == IF Cardinality(S) < size THEN Cardinality(S) ELSE size
<1>1. Cardinality(S) \in Nat
  BY FS_CardinalityType
<1>2. n \in Nat
  BY <1>1
<1>3. MostPlayed(plays, S, size) \subseteq [1..n -> S]
  BY DEF MostPlayed
<1>4. SetToSeqs(S) \subseteq [1..Cardinality(S) -> S]
  BY DEF SetToSeqs
<1>. HIDE DEF n
<1>5. \A m \in Nat : [1..m -> S] \subseteq Seq(T)
  <2>1. ASSUME NEW m \in Nat, NEW f \in [1..m -> S] PROVE f \in Seq(T)
    <3>1. f \in [1..m -> T]
      OBVIOUS
    <3>. QED  BY <3>1, FunIsSeq
  <2>. QED  BY <2>1
<1>. QED  BY <1>1, <1>2, <1>3, <1>4, <1>5

LEMMA WithinIs ==
    ASSUME NEW X, NEW s \in Seq(X), NEW S, NEW T, Range(s) \cap S \subseteq T
    PROVE  Kept(s, S) \in Seq(T)
BY KeptIs, InSeq

LEMMA PlanOne ==
    ASSUME NEW T, NEW s \in Seq(T)
    PROVE  <<s>> \in Seq(Seq(T)) /\ Len(<<s>>) = 1
BY SingleIs

LEMMA PairOfLists ==
    ASSUME NEW T, NEW s \in Seq(T), NEW t \in Seq(T)
    PROVE  s \o t \in Seq(T) /\ FlattenSeq(<<s, t>>) \in Seq(T)
<1>1. <<s, t>> \in Seq(Seq(T))
  BY PairIs
<1>. QED  BY <1>1, FlattenIs, ConcatProperties

LEMMA SetOperationIs ==
    ASSUME NEW T, T \subseteq Tracks, NEW a \in Seq(T), NEW b \in Seq(T),
           NEW op \in {"subtract", "intersect", "union"}
    PROVE  SetOperation(a, b, op) \in Seq(T)
<1>1. a \o b \in Seq(T)
  BY ConcatProperties
<1>2. Firsts(a \o b) \in Seq(T)
  BY <1>1, FirstsIs
<1>3. Without(a, Range(b)) \in Seq(T) /\ Kept(a, Range(b)) \in Seq(T)
  BY KeptIs DEF Without
<1>. QED  BY <1>2, <1>3 DEF SetOperation

LEMMA BlendedIs ==
    ASSUME NEW T, T \subseteq Tracks, NEW a \in Seq(T), NEW b \in Seq(T),
           NEW opt \in {"append", "interleave", "interleave_all"}
    PROVE  Blended(<<a, b>>, opt) \in Seq(T)
<1>1. FlattenSeq(<<a, b>>) \in Seq(T) /\ RoundRobin(<<a, b>>) \in Seq(T)
  BY PairOfLists, RoundRobinIs
<1>2. Firsts(FlattenSeq(<<a, b>>)) \in Seq(T) /\ Firsts(RoundRobin(<<a, b>>)) \in Seq(T)
  BY <1>1, FirstsIs
<1>. QED  BY <1>1, <1>2 DEF Blended

LEMMA ShuffledIs ==
    ASSUME NEW T, T \subseteq Tracks, NEW s \in Seq(T), NEW opt
    PROVE  Shuffled(s, opt) \subseteq Seq(T)
<1>1. ASSUME NEW d \in Draws(Len(s))
      PROVE  FisherYates(s, d) \in Seq(T) /\ SpreadArtists(FisherYates(s, d)) \in Seq(T)
  BY FisherYatesIs, SpreadArtistsIs
<1>. QED  BY <1>1 DEF Shuffled

\* A tool decides to write lists of the items it has read: one list, unless it
\* splits or deletes.
LEMMA PlansIs ==
    ASSUME NEW j \in Jobs, NEW entries \in Seq(Tracks \cup {NoItem}), NEW known,
           NEW T, T \subseteq Tracks,
           Range(entries) \cap Tracks \subseteq T, Range(j.b) \cap Tracks \subseteq T,
           NEW plan \in Plans(j, entries, known)
    PROVE  /\ plan \in Seq(Seq(T))
           /\ j.tool \notin {"split", "delete"} => Len(plan) = 1
<1>. DEFINE a == Uris(entries)
            One(s) == s \in Seq(T) /\ plan = <<s>>
<1>0. /\ j.tool \in {"copy", "set_ops", "blend", "split", "shuffle", "sort", "prune",
                    "subtract_liked", "liked", "backup", "restore", "best_of",
                    "forgotten", "sonic", "porter", "delete"}
      /\ j.b \in Seq(IF j.tool \in {"set_ops", "blend"} THEN Tracks \cup {NoItem} ELSE Tracks)
      /\ j.tool = "set_ops" => j.opt \in {"subtract", "intersect", "union"}
      /\ j.tool = "blend" => j.opt \in {"append", "interleave", "interleave_all"}
      /\ ChunkSize \in Nat \ {0} /\ Size \in Nat
  BY BuildAssumption DEF BuildAssumption
<1>1. a \in Seq(T)
  BY WithinIs DEF Uris
<1>2. j.tool \notin {"set_ops", "blend"} => j.b \in Seq(T) /\ Range(j.b) \subseteq T /\ IsFiniteSet(Range(j.b))
  <2>. SUFFICES ASSUME j.tool \notin {"set_ops", "blend"}
                PROVE  j.b \in Seq(T) /\ Range(j.b) \subseteq T /\ IsFiniteSet(Range(j.b))
    OBVIOUS
  <2>1. j.b \in Seq(Tracks)
    BY <1>0
  <2>2. Range(j.b) \subseteq Tracks
    BY <2>1, RangeOfSeq
  <2>. QED  BY <2>1, <2>2, InSeq, RangeFinite
<1>3. j.tool \in {"set_ops", "blend"} => Uris(j.b) \in Seq(T)
  <2>. SUFFICES ASSUME j.tool \in {"set_ops", "blend"} PROVE Uris(j.b) \in Seq(T)
    OBVIOUS
  <2>1. j.b \in Seq(Tracks \cup {NoItem})
    BY <1>0
  <2>. QED  BY <2>1, WithinIs DEF Uris
<1>4. ASSUME NEW s, One(s) PROVE plan \in Seq(Seq(T)) /\ Len(plan) = 1
  BY <1>4, PlanOne
<1>. HIDE DEF a
<1>5. CASE j.tool = "copy"
  <2>1. One(Copied(entries))
    BY <1>1, <1>5 DEF Plans, Copied, a
  <2>. HIDE DEF One
  <2>. QED  BY <1>4, <2>1
<1>6. CASE j.tool = "set_ops"
  <2>1. One(Combined(entries, j.b, j.opt))
    <3>1. Combined(entries, j.b, j.opt) \in Seq(T)
      BY <1>0, <1>1, <1>3, <1>6, SetOperationIs DEF Combined, a
    <3>. QED  BY <1>6, <3>1 DEF Plans
  <2>. HIDE DEF One
  <2>. QED  BY <1>4, <2>1
<1>7. CASE j.tool = "blend"
  <2>1. One(Blended(<<a, Uris(j.b)>>, j.opt))
    <3>1. Blended(<<a, Uris(j.b)>>, j.opt) \in Seq(T)
      BY <1>0, <1>1, <1>3, <1>7, BlendedIs
    <3>. QED  BY <1>7, <3>1 DEF Plans, a
  <2>. HIDE DEF One
  <2>. QED  BY <1>4, <2>1
<1>8. CASE j.tool = "split"
  <2>1. plan = Chunks(a, ChunkSize)
    BY <1>8 DEF Plans, a
  <2>. QED  BY <1>0, <1>1, <1>8, <2>1, ChunksIs
<1>9. CASE j.tool = "shuffle"
  <2>1. PICK s \in Shuffled(a, j.opt) : plan = <<s>>
    BY <1>9 DEF Plans, a
  <2>2. One(s)
    BY <1>1, <2>1, ShuffledIs
  <2>. HIDE DEF One
  <2>. QED  BY <1>4, <2>2
<1>10. CASE j.tool = "sort"
  <2>1. One(SortItems(a, j.opt = "descending"))
    <3>1. SortItems(a, j.opt = "descending") \in Seq(T)
      BY <1>1, SortItemsIs
    <3>. QED  BY <1>10, <3>1 DEF Plans, a
  <2>. HIDE DEF One
  <2>. QED  BY <1>4, <2>1
<1>11. CASE j.tool = "prune"
  <2>1. One(Pruned(entries))
    <3>1. Pruned(entries) \in Seq(T)
      BY WithinIs DEF Pruned
    <3>. QED  BY <1>11, <3>1 DEF Plans
  <2>. HIDE DEF One
  <2>. QED  BY <1>4, <2>1
<1>12. CASE j.tool = "subtract_liked"
  <2>1. One(Unliked(entries, j.b))
    <3>1. Unliked(entries, j.b) \in Seq(T)
      BY <1>1, <1>2, <1>12, SetOperationIs DEF Unliked, a
    <3>. QED  BY <1>12, <3>1 DEF Plans
  <2>. HIDE DEF One
  <2>. QED  BY <1>4, <2>1
<1>13. CASE j.tool = "liked"
  <2>1. One(Mirrored(j.b, j.opt))
    <3>1. Mirrored(j.b, j.opt) \in Seq(T)
      BY <1>2, <1>13, ReverseIs DEF Mirrored
    <3>. QED  BY <1>13, <3>1 DEF Plans
  <2>. HIDE DEF One
  <2>. QED  BY <1>4, <2>1
<1>14. CASE j.tool = "backup"
  <2>1. PICK s \in Captured(entries, j.b, j.opt) : plan = <<s>>
    BY <1>14 DEF Plans
  <2>2. SetToSeqs(Range(j.b)) \subseteq Seq(T)
    BY <1>0, <1>2, <1>14, ChosenIs
  <2>3. One(s)
    BY <1>1, <2>1, <2>2 DEF Captured, a
  <2>. HIDE DEF One
  <2>. QED  BY <1>4, <2>3
<1>15. CASE j.tool = "restore"
  <2>1. One(j.b)
    BY <1>2, <1>15 DEF Plans
  <2>. HIDE DEF One
  <2>. QED  BY <1>4, <2>1
<1>16. CASE j.tool = "best_of"
  <2>1. PICK s \in BestOf(j.b) : plan = <<s>>
    BY <1>16 DEF Plans
  <2>2. BestOf(j.b) \subseteq Seq(T)
    BY <1>0, <1>2, <1>16, ChosenIs DEF BestOf
  <2>3. One(s)
    BY <2>1, <2>2
  <2>. HIDE DEF One
  <2>. QED  BY <1>4, <2>3
<1>17. CASE j.tool = "forgotten"
  <2>1. PICK s \in MostPlayed(j.b, Favourites(j.b), Size) : plan = <<s>>
    BY <1>17 DEF Plans
  <2>2. Favourites(j.b) \in SUBSET Range(j.b)
    BY DEF Favourites
  <2>3. IsFiniteSet(Favourites(j.b)) /\ Favourites(j.b) \in SUBSET T
    BY <1>2, <1>17, <2>2, FS_Subset
  <2>4. MostPlayed(j.b, Favourites(j.b), Size) \subseteq Seq(T)
    BY <1>0, <2>3, ChosenIs
  <2>5. One(s)
    BY <2>1, <2>4
  <2>. HIDE DEF One
  <2>. QED  BY <1>4, <2>5
<1>18. CASE j.tool = "sonic"
  <2>1. One(InRange(entries, known))
    <3>1. InRange(entries, known) \in Seq(T)
      BY <1>1, KeptIs DEF InRange, a
    <3>. QED  BY <1>18, <3>1 DEF Plans
  <2>. HIDE DEF One
  <2>. QED  BY <1>4, <2>1
<1>19. CASE j.tool = "porter"
  <2>1. PICK s \in Ported(j.b) : plan = <<s>>
    BY <1>19 DEF Plans
  <2>2. Ported(j.b) \subseteq Seq(T)
    <3>1. \A S : Without(j.b, S) \in Seq(T)
      BY <1>2, <1>19, KeptIs DEF Without
    <3>. QED  BY <3>1 DEF Ported
  <2>3. One(s)
    BY <2>1, <2>2
  <2>. HIDE DEF One
  <2>. QED  BY <1>4, <2>3
<1>20. CASE j.tool = "delete"
  <2>1. plan = <<>>
    BY <1>20 DEF Plans
  <2>. QED  BY <1>20, <2>1, EmptySeq
<1>. HIDE DEF One
<1>. QED  BY <1>0, <1>5, <1>6, <1>7, <1>8, <1>9, <1>10, <1>11, <1>12, <1>13, <1>14, <1>15,
             <1>16, <1>17, <1>18, <1>19, <1>20

\* A tool that finds nothing to write has decided on what it has read.
LEMMA NothingIs ==
    ASSUME NEW j \in Jobs, NEW entries \in Seq(Tracks \cup {NoItem}), NEW known,
           NEW plan \in Plans(j, entries, known), NothingToWrite(j, entries, plan)
    PROVE  ~j.new /\ j.tool # "backup" /\ Uris(entries) = plan[1]
<1>1. j.tool \in {"prune", "subtract_liked"} /\ ~j.new
  BY BuildAssumption DEF BuildAssumption, NothingToWrite
<1>2. CASE j.tool = "prune"
  <2>1. plan = <<Pruned(entries)>>
    BY <1>2 DEF Plans
  <2>2. Len(Pruned(entries)) = Len(entries)
    BY <1>2, <2>1 DEF NothingToWrite
  <2>3. Pruned(entries) = entries /\ Range(entries) \subseteq Tracks
    BY <2>2, KeptAll DEF Pruned
  <2>4. Uris(entries) = entries
    BY <2>3, KeptAll DEF Uris
  <2>. QED  BY <1>1, <1>2, <2>1, <2>3, <2>4
<1>3. CASE j.tool = "subtract_liked"
  <2>0. Uris(entries) \in Seq(Tracks)
    BY WithinIs DEF Uris
  <2>1. plan = <<Kept(Uris(entries), Tracks \ Range(j.b))>>
    BY <1>3 DEF Plans, Unliked, SetOperation, Without
  <2>2. Len(plan[1]) = Len(Uris(entries))
    BY <1>3 DEF NothingToWrite
  <2>3. Kept(Uris(entries), Tracks \ Range(j.b)) = Uris(entries)
    BY <2>0, <2>1, <2>2, KeptAll
  <2>. QED  BY <1>1, <1>3, <2>1, <2>3
<1>. QED  BY <1>1, <1>2, <1>3

-----------------------------------------------------------------------------
(* ToolBuilds: what holds at every step of a run *)

\* The items a run can write.
Inputs == (Range(job.a) \cup Range(job.b)) \cap Tracks

BuildType ==
    [pc : Busy \cup {"queued", "succeeded", "failed"} \cup Ends,
     plan : Seq(Seq(Inputs)), k : Nat \ {0}, todo : Seq(Inputs), made : Nat]

Shape ==
    /\ job \in Jobs /\ gone \in BOOLEAN /\ faults \in 0..MaxFaults
    /\ status \in {"queued", "running", "succeeded", "failed"}
    /\ status = "succeeded" => build.pc = "ended"
    /\ features \subseteq Described \cap Catalogue
    /\ lists \in Seq(Seq(Inputs))
    /\ target = job.a \/ target \in Seq(Inputs)
    /\ build \in BuildType /\ build.made <= Len(lists)

\* Which runs come to which steps.
Course ==
    /\ build.pc \in {"create", "add", "put"} =>
           /\ build.k \in 1..Len(build.plan) /\ job.tool # "delete"
           /\ job.tool = "backup" => job.new /\ build.plan[build.k] # <<>>
           /\ job.tool # "split" => Len(build.plan) = 1
    /\ build.pc = "create" => job.new /\ build.todo = build.plan[build.k]
    /\ build.pc = "put" => ~job.new /\ build.todo = build.plan[build.k]
    /\ build.pc = "add" /\ ~job.new => target \in Seq(Inputs)
    /\ build.pc = "delete" => job.tool = "delete"
    /\ build.pc = "store" => job.tool = "backup" /\ Len(build.plan) = 1

\* Some playlist holds every track of list m of the plan.
Listed(m) == \E n \in 1..Len(lists) : Range(build.plan[m]) \subseteq Range(lists[n])

\* What is written, and what is still to be.
SoFar ==
    /\ build.pc \in {"create", "add"} /\ job.new => \A m \in 1..build.k - 1 : Listed(m)
    /\ build.pc = "add" /\ job.new =>
           /\ build.made = Len(lists) /\ build.made # 0
           /\ Range(build.plan[build.k]) \subseteq Range(lists[build.made]) \cup Range(build.todo)
    /\ build.pc = "add" /\ ~job.new =>
           Range(build.plan[1]) = Range(target) \cup Range(build.todo)
    /\ build.pc = "store" /\ job.new /\ build.plan[1] # <<>> =>
           build.made # 0 /\ Range(build.plan[1]) \subseteq Range(lists[build.made])

MadeSoFar == \A m \in 1..build.k - 1 : lists[m] = build.plan[m]

\* Without a fault it is written once, in order.
Exact ==
    faults = 0 =>
        /\ build.pc \in {"queued", "save", "read", "plan", "put", "delete"} =>
               lists = <<>> /\ target = job.a
        /\ build.pc = "create" =>
               Len(lists) = build.k - 1 /\ MadeSoFar /\ target = job.a
        /\ build.pc = "put" => ~NothingToWrite(job, job.a, build.plan)
        /\ build.pc = "add" /\ job.new =>
               /\ Len(lists) = build.k /\ MadeSoFar /\ target = job.a
               /\ lists[build.k] \o build.todo = build.plan[build.k]
        /\ build.pc = "add" /\ ~job.new =>
               /\ lists = <<>> /\ target \o build.todo = build.plan[1]
               /\ ~NothingToWrite(job, job.a, build.plan)
        /\ build.pc = "store" =>
               /\ target = job.a
               /\ lists = IF ~job.new \/ build.plan[1] = <<>> THEN <<>> ELSE build.plan

AllWritten ==
    /\ job.new => \A k \in DOMAIN build.plan :
           (job.tool = "backup" /\ build.plan[k] = <<>>) \/ Listed(k)
    /\ ~job.new /\ job.tool # "backup" => Range(build.plan[1]) = Range(Uris(target))
    /\ faults = 0 =>
           /\ lists = IF ~job.new \/ (job.tool = "backup" /\ build.plan[1] = <<>>) THEN <<>> ELSE build.plan
           /\ target = IF job.new \/ job.tool = "backup" \/ NothingToWrite(job, job.a, build.plan)
                       THEN job.a ELSE build.plan[1]

Written == (build.pc = "succeeded" \/ status = "succeeded") /\ job.tool # "delete" => AllWritten

\* A snapshot holds what the target was.
SavedFirst == \E b \in saved : b.of = "pre_bulk" /\ b.uris = Uris(job.a)

Snapshots ==
    /\ (target # job.a \/ gone) /\ job.tool # "liked" => SavedFirst
    /\ build.pc \in {"read", "plan", "create", "add", "put", "delete"} /\ SavesTarget(job) => SavedFirst

Copies ==
    \A b \in saved : b.of = "backup" =>
        /\ b.copy \in 0..Len(lists)
        /\ b.copy # 0 => Range(b.uris) \subseteq Range(lists[b.copy])
        /\ job.new /\ b.uris # <<>> => b.copy # 0

BuildsInv == Shape /\ Course /\ SoFar /\ Exact /\ Written /\ Snapshots /\ Copies

-----------------------------------------------------------------------------
LEMMA InputsIs ==
    ASSUME Shape
    PROVE  /\ Inputs \subseteq Tracks
           /\ job.a \in Seq(Tracks \cup {NoItem}) /\ Range(job.a) \cap Tracks \subseteq Inputs
           /\ Range(job.b) \cap Tracks \subseteq Inputs
           /\ target \in Seq(Tracks \cup {NoItem}) /\ Range(target) \cap Tracks \subseteq Inputs
           /\ Uris(target) \in Seq(Inputs)
           /\ target \in Seq(Inputs) => Uris(target) = target
<1>1. /\ Inputs \subseteq Tracks /\ Range(job.a) \cap Tracks \subseteq Inputs
      /\ Range(job.b) \cap Tracks \subseteq Inputs
  BY DEF Inputs
<1>2. job.a \in Seq(Tracks \cup {NoItem})
  BY BuildAssumption DEF BuildAssumption, Shape
<1>3. target \in Seq(Inputs) => target \in Seq(Tracks \cup {NoItem}) /\ Range(target) \subseteq Inputs
  BY <1>1, SeqMonotonic, RangeOfSeq
<1>4. target \in Seq(Tracks \cup {NoItem}) /\ Range(target) \cap Tracks \subseteq Inputs
  BY <1>1, <1>2, <1>3 DEF Shape
<1>5. Uris(target) \in Seq(Inputs)
  BY <1>4, WithinIs DEF Uris
<1>6. target \in Seq(Inputs) => Uris(target) = target
  BY <1>1, <1>3, KeptAll DEF Uris
<1>. QED  BY <1>1, <1>2, <1>4, <1>5, <1>6

LEMMA BuildFields ==
    ASSUME Shape
    PROVE  /\ DOMAIN build = {"pc", "plan", "k", "todo", "made"}
           /\ build.plan \in Seq(Seq(Inputs)) /\ build.k \in Nat \ {0}
           /\ build.todo \in Seq(Inputs) /\ build.made \in 0..Len(lists)
           /\ Len(lists) \in Nat /\ Len(build.plan) \in Nat
           /\ DOMAIN build.plan = 1..Len(build.plan) /\ DOMAIN lists = 1..Len(lists)
<1>1. /\ DOMAIN build = {"pc", "plan", "k", "todo", "made"}
      /\ build.plan \in Seq(Seq(Inputs)) /\ build.k \in Nat \ {0}
      /\ build.todo \in Seq(Inputs) /\ build.made \in Nat /\ build.made <= Len(lists)
  BY DEF Shape, BuildType
<1>2. /\ Len(lists) \in Nat /\ Len(build.plan) \in Nat
      /\ DOMAIN build.plan = 1..Len(build.plan) /\ DOMAIN lists = 1..Len(lists)
  BY <1>1, LenProperties DEF Shape
<1>. QED  BY <1>1, <1>2

LEMMA BuildInitOK == BuildInit => BuildsInv
<1>. SUFFICES ASSUME BuildInit PROVE BuildsInv
  OBVIOUS
<1>1. /\ job \in Jobs /\ status = "queued" /\ lists = <<>> /\ target = job.a /\ gone = FALSE
      /\ saved = {} /\ features \subseteq Described \cap Catalogue /\ faults = 0
      /\ build = [pc |-> "queued", plan |-> <<>>, k |-> 1, todo |-> <<>>, made |-> 0]
  BY DEF BuildInit, Fresh
<1>2. MaxFaults \in Nat
  BY BuildAssumption DEF BuildAssumption
<1>3. <<>> \in Seq(Seq(Inputs)) /\ <<>> \in Seq(Inputs) /\ Len(<<>>) = 0
  BY EmptySeq
<1>4. build \in BuildType /\ build.made <= Len(lists)
  BY <1>1, <1>3 DEF BuildType
<1>5. Shape
  <2>1. faults \in 0..MaxFaults
    BY <1>1, <1>2
  <2>2. gone \in BOOLEAN /\ status # "succeeded"
    BY <1>1
  <2>3. lists \in Seq(Seq(Inputs))
    BY <1>1, <1>3
  <2>. QED  BY <1>1, <1>4, <2>1, <2>2, <2>3, Zenon DEF Shape
<1>6. Course /\ SoFar
  BY <1>1 DEF Course, SoFar
<1>7. Exact /\ Written /\ Snapshots /\ Copies
  BY <1>1 DEF Exact, Written, Snapshots, Copies
<1>. QED  BY <1>5, <1>6, <1>7 DEF BuildsInv

\* What a run does after list k - 1.
LEMMA TurnIs ==
    ASSUME Shape, NEW plan \in Seq(Seq(Inputs)), NEW k \in Nat \ {0}
    PROVE  LET r == Turn(plan, k)
               skips == job.tool = "backup" /\ (plan[k] = <<>> \/ ~job.new)
               writes == k <= Len(plan) /\ ~skips
           IN  /\ r \in BuildType /\ r.plan = plan /\ r.k = k /\ r.made = build.made
               /\ writes => r.pc = (IF job.new THEN "create" ELSE "put") /\ r.todo = plan[k]
               /\ ~writes => r.pc = IF job.tool = "backup" THEN "store" ELSE "succeeded"
<1>. DEFINE r == [build EXCEPT !.plan = plan, !.k = k]
            skips == job.tool = "backup" /\ (plan[k] = <<>> \/ ~job.new)
            writes == k <= Len(plan) /\ ~skips
            t == Turn(plan, k)
<1>1. Len(plan) \in Nat
  BY LenProperties
<1>2. build \in BuildType
  BY DEF Shape
<1>3. r \in BuildType /\ r.plan = plan /\ r.k = k /\ r.made = build.made
  BY <1>2 DEF BuildType
<1>4. CASE writes
  <2>1. plan[k] \in Seq(Inputs)
    BY <1>1, <1>4, ElementOfSeq
  <2>2. t = [r EXCEPT !.pc = IF job.new THEN "create" ELSE "put", !.todo = plan[k]]
    BY <1>1, <1>4 DEF Turn
  <2>. HIDE DEF r, t
  <2>3. t \in BuildType /\ t.plan = plan /\ t.k = k /\ t.made = build.made
        /\ t.pc = (IF job.new THEN "create" ELSE "put") /\ t.todo = plan[k]
    BY <1>3, <2>1, <2>2 DEF BuildType, Busy
  <2>. QED  BY <1>4, <2>3 DEF t
<1>5. CASE ~writes
  <2>1. t = [r EXCEPT !.pc = IF job.tool = "backup" THEN "store" ELSE "succeeded"]
    <3>1. CASE k > Len(plan)
      BY <3>1 DEF Turn
    <3>2. CASE ~(k > Len(plan))
      <4>1. k <= Len(plan)
        BY <1>1, <3>2
      <4>2. job.tool = "backup" /\ (plan[k] = <<>> \/ ~job.new)
        BY <1>5, <4>1
      <4>3. t = [r EXCEPT !.pc = "store"]
        BY <3>2, <4>2 DEF Turn
      <4>. QED  BY <4>2, <4>3
    <3>. QED  BY <3>1, <3>2
  <2>. HIDE DEF r, t
  <2>2. t \in BuildType /\ t.plan = plan /\ t.k = k /\ t.made = build.made
        /\ t.pc = IF job.tool = "backup" THEN "store" ELSE "succeeded"
    BY <1>3, <2>1 DEF BuildType, Busy
  <2>. QED  BY <1>5, <2>2 DEF t
<1>. QED  BY <1>4, <1>5

\* The list at hand is written: the run goes on to the next, or is done.
LEMMA ListDone ==
    ASSUME Shape, Course, build.pc \in {"create", "add", "put"},
           job' = job, status' = status, lists' \in Seq(Seq(Inputs)),
           LET r == Turn(build.plan, build.k + 1)
           IN  build'.pc = r.pc /\ build'.plan = r.plan /\ build'.k = r.k /\ build'.todo = r.todo,
           job.new =>
               /\ build'.made = Len(lists') /\ Len(lists') # 0
               /\ Range(build.plan[build.k]) \subseteq Range(lists'[Len(lists')])
               /\ \A m \in 1..build.k - 1 :
                      \E n \in 1..Len(lists') : Range(build.plan[m]) \subseteq Range(lists'[n])
               /\ faults' = 0 =>
                      /\ Len(lists') = build.k /\ target' = job.a
                      /\ \A m \in 1..build.k : lists'[m] = build.plan[m],
           ~job.new =>
               /\ target' \in Seq(Inputs) /\ Range(build.plan[1]) = Range(target')
               /\ faults' = 0 => /\ lists' = <<>> /\ target' = build.plan[1]
                                 /\ ~NothingToWrite(job, job.a, build.plan)
    PROVE  Course' /\ SoFar' /\ Exact' /\ Written'
<1>. DEFINE plan == build.plan
            k == build.k
            r == Turn(plan, k + 1)
            skips == job.tool = "backup" /\ (plan[k + 1] = <<>> \/ ~job.new)
            writes == k + 1 <= Len(plan) /\ ~skips
            In(m) == \E n \in 1..Len(lists') : Range(plan[m]) \subseteq Range(lists'[n])
<1>0. /\ plan \in Seq(Seq(Inputs)) /\ k \in 1..Len(plan) /\ Len(plan) \in Nat
      /\ Len(lists') \in Nat /\ DOMAIN plan = 1..Len(plan) /\ k + 1 \in Nat \ {0}
  BY SMTT(30), BuildFields, LenProperties DEF Course
<1>1. /\ writes => r.pc = (IF job.new THEN "create" ELSE "put") /\ r.todo = plan[k + 1]
      /\ ~writes => r.pc = IF job.tool = "backup" THEN "store" ELSE "succeeded"
      /\ r.plan = plan /\ r.k = k + 1
  <2>. HIDE DEF plan, k
  <2>. QED  BY <1>0, TurnIs
<1>2. Inputs' = Inputs
  BY DEF Inputs
<1>3. /\ job.tool # "delete" /\ (job.tool = "backup" => job.new /\ plan[k] # <<>>)
      /\ job.tool # "split" => Len(plan) = 1
  BY DEF Course
<1>4. ~job.new => job.tool # "split" /\ job.tool # "backup"
  BY <1>3, BuildAssumption DEF BuildAssumption, Shape
<1>5. status' # "succeeded"
  BY DEF Shape
<1>6. build'.plan = plan /\ build'.k = k + 1 /\ build'.pc = r.pc /\ build'.todo = r.todo
  BY <1>1
<1>7. \A m : Listed(m)' <=> In(m)
  BY <1>6 DEF Listed
<1>8. job.new => \A m \in 1..k : In(m)
  <2>. SUFFICES ASSUME job.new, NEW m \in 1..k PROVE In(m)
    OBVIOUS
  <2>1. CASE m = k
    <3>1. Len(lists') \in 1..Len(lists')
      BY <1>0
    <3>. QED  BY <2>1, <3>1
  <2>2. CASE m # k
    <3>1. m \in 1..k - 1
      BY <1>0, <2>2
    <3>. QED  BY <3>1
  <2>. QED  BY <2>1, <2>2
<1>. HIDE DEF In, r
<1>9. CASE job.new /\ k + 1 <= Len(plan)
  <2>0. k + 1 <= Len(plan)
    BY <1>9
  <2>1. Len(plan) # 1
    <3>. DEFINE n == Len(plan)
    <3>1. n \in Nat /\ k \in 1..n /\ k + 1 <= n
      BY <1>0, <2>0
    <3>. HIDE DEF n, k
    <3>2. n # 1
      BY <3>1
    <3>. QED  BY <3>2 DEF n
  <2>2. job.tool = "split"
    BY <1>3, <2>1
  <2>3. writes
    BY <1>9, <2>2
  <2>4. build'.pc = "create" /\ build'.todo = plan[k + 1]
    BY <1>1, <1>6, <1>9, <2>3
  <2>5. k + 1 \in 1..Len(plan) /\ (k + 1) - 1 = k
    BY <1>0, <1>9
  <2>. HIDE DEF plan, k, writes, skips
  <2>6. Course'
    BY <1>6, <1>9, <2>2, <2>4, <2>5 DEF Course
  <2>7. SoFar'
    BY <1>6, <1>7, <1>8, <1>9, <2>4, <2>5 DEF SoFar
  <2>8. faults' = 0 => Len(lists') = k /\ target' = job.a /\ \A m \in 1..k : lists'[m] = plan[m]
    BY <1>9 DEF plan, k
  <2>9. Exact'
    <3>1. faults' = 0 => Len(lists') = build'.k - 1 /\ MadeSoFar' /\ target' = job'.a
      BY <1>6, <2>5, <2>8 DEF MadeSoFar
    <3>. QED  BY <2>4, <3>1 DEF Exact
  <2>10. Written'
    BY <1>5, <2>4 DEF Written
  <2>. QED  BY <2>6, <2>7, <2>9, <2>10
<1>10. CASE job.new /\ ~(k + 1 <= Len(plan))
  <2>0. k = Len(plan) /\ ~writes
    BY <1>0, <1>10
  <2>1. build'.pc = IF job.tool = "backup" THEN "store" ELSE "succeeded"
    BY <1>1, <1>6, <2>0
  <2>2. faults' = 0 => target' = job.a /\ lists' = plan
    <3>. SUFFICES ASSUME faults' = 0 PROVE target' = job.a /\ lists' = plan
      OBVIOUS
    <3>1. Len(lists') = Len(plan) /\ target' = job.a /\ \A m \in 1..Len(lists') : lists'[m] = plan[m]
      BY <1>10, <2>0
    <3>. HIDE DEF plan
    <3>. QED  BY <1>0, <3>1, SeqEqual
  <2>3. build'.made # 0 /\ Range(plan[k]) \subseteq Range(lists'[build'.made])
    BY <1>10
  <2>. HIDE DEF plan, k, writes, skips
  <2>4. CASE job.tool = "backup"
    <3>1. build'.pc = "store" /\ Len(plan) = 1 /\ k = 1
      BY <1>3, <2>0, <2>1, <2>4
    <3>2. Course'
      BY <1>6, <2>4, <3>1 DEF Course
    <3>3. SoFar'
      BY <1>6, <2>3, <3>1 DEF SoFar
    <3>4. plan[1] # <<>>
      BY <1>3, <2>4, <3>1
    <3>5. Exact'
      BY <1>6, <1>10, <2>2, <3>1, <3>4 DEF Exact
    <3>6. Written'
      BY <1>5, <3>1 DEF Written
    <3>. QED  BY <3>2, <3>3, <3>5, <3>6
  <2>5. CASE job.tool # "backup"
    <3>1. build'.pc = "succeeded"
      BY <2>1, <2>5
    <3>2. Course' /\ SoFar' /\ Exact'
      BY <3>1 DEF Course, SoFar, Exact
    <3>3. AllWritten'
      <4>1. \A m \in DOMAIN plan : Listed(m)'
        BY <1>0, <1>7, <1>8, <1>10, <2>0
      <4>. QED  BY <1>6, <1>10, <2>2, <2>5, <4>1 DEF AllWritten
    <3>. QED  BY <3>2, <3>3 DEF Written
  <2>. QED  BY <2>4, <2>5
<1>11. CASE ~job.new
  <2>0. Len(plan) = 1
    BY <1>3, <1>4, <1>11
  <2>1. k = 1 /\ ~(k + 1 <= Len(plan))
    <3>. HIDE DEF plan, k
    <3>. QED  BY <1>0, <2>0
  <2>2. build'.pc = "succeeded"
    BY <1>1, <1>4, <1>6, <1>11, <2>1
  <2>3. target' \in Seq(Inputs) /\ Range(plan[1]) = Range(target')
    BY <1>11
  <2>4. faults' = 0 => lists' = <<>> /\ target' = plan[1] /\ ~NothingToWrite(job, job.a, plan)
    BY <1>11
  <2>. HIDE DEF plan, k, writes, skips
  <2>5. Course' /\ SoFar' /\ Exact'
    BY <2>2 DEF Course, SoFar, Exact
  <2>6. Uris(target') = target'
    <3>1. Range(target') \subseteq Tracks
      BY <2>3, RangeOfSeq DEF Inputs
    <3>. QED  BY <2>3, <3>1, KeptAll DEF Uris
  <2>7. AllWritten'
    BY <1>4, <1>6, <1>11, <2>3, <2>4, <2>6 DEF AllWritten
  <2>. QED  BY <2>5, <2>7 DEF Written
<1>. HIDE DEF plan, k
<1>. QED  BY <1>9, <1>10, <1>11

LEMMA ShapeStays ==
    ASSUME Shape, job' = job, gone' \in BOOLEAN, faults' \in 0..MaxFaults,
           status' \in {"queued", "running", "succeeded", "failed"},
           status' = "succeeded" => build'.pc = "ended",
           features' \subseteq Described \cap Catalogue, lists' \in Seq(Seq(Inputs)),
           target' = target \/ target' \in Seq(Inputs),
           build' \in BuildType, build'.made <= Len(lists')
    PROVE  Shape'
<1>1. Inputs' = Inputs
  BY DEF Inputs
<1>2. BuildType' = BuildType
  BY <1>1 DEF BuildType
<1>3. target' = job.a \/ target' \in Seq(Inputs)
  BY DEF Shape
<1>. QED  BY <1>1, <1>2, <1>3, Zenon DEF Shape

\* A step that changes neither the target nor a playlist, on the way to no writing step.
LEMMA QuietStep ==
    ASSUME Exact, job' = job, lists' = lists, target' = target, status' # "succeeded",
           build'.pc \in {"queued", "save", "read", "plan", "delete", "failed"} \cup Ends,
           build'.pc = "delete" => job.tool = "delete",
           faults' = 0 /\ build'.pc \in {"queued", "save", "read", "plan", "delete"} =>
               faults = 0 /\ build.pc \in {"queued", "save", "read", "plan"}
    PROVE  Course' /\ SoFar' /\ Exact' /\ Written'
<1>. USE DEF Ends
<1>1. Course'
  BY DEF Course
<1>2. SoFar'
  BY DEF SoFar
<1>3. Exact'
  <2>1. faults' = 0 /\ build'.pc \in {"queued", "save", "read", "plan", "delete"} =>
            lists' = <<>> /\ target' = job'.a
    BY DEF Exact
  <2>. QED  BY <2>1 DEF Exact
<1>4. Written'
  BY DEF Written
<1>. QED  BY <1>1, <1>2, <1>3, <1>4

LEMMA CopiesStay ==
    ASSUME Copies, Shape, job' = job, lists' \in Seq(Seq(Inputs)), Len(lists) <= Len(lists'),
           \A n \in 1..Len(lists) : Range(lists[n]) \subseteq Range(lists'[n]),
           \A b \in saved' : b.of = "backup" => b \in saved
    PROVE  Copies'
<1>1. Len(lists) \in Nat /\ Len(lists') \in Nat
  BY LenProperties DEF Shape
<1>2. SUFFICES ASSUME NEW b \in saved', b.of = "backup"
               PROVE  /\ b.copy \in 0..Len(lists')
                      /\ b.copy # 0 => Range(b.uris) \subseteq Range(lists'[b.copy])
                      /\ job.new /\ b.uris # <<>> => b.copy # 0
  BY DEF Copies
<1>3. /\ b.copy \in 0..Len(lists)
      /\ b.copy # 0 => Range(b.uris) \subseteq Range(lists[b.copy])
      /\ job.new /\ b.uris # <<>> => b.copy # 0
  BY <1>2 DEF Copies
<1>4. b.copy \in 0..Len(lists')
  BY <1>1, <1>3
<1>5. b.copy # 0 => b.copy \in 1..Len(lists)
  BY <1>1, <1>3
<1>. QED  BY <1>3, <1>4, <1>5

LEMMA SnapshotsStay ==
    ASSUME Snapshots, job' = job, saved \subseteq saved',
           target' = target \/ job.tool = "liked" \/ SavedFirst,
           gone' = gone \/ job.tool = "liked" \/ SavedFirst,
           build'.pc \in {"read", "plan", "create", "add", "put", "delete"} =>
               \/ build.pc \in {"read", "plan", "create", "add", "put", "delete"}
               \/ ~SavesTarget(job) \/ SavedFirst
    PROVE  Snapshots'
<1>1. SavedFirst => SavedFirst'
  BY DEF SavedFirst
<1>2. SavesTarget(job') = SavesTarget(job)
  OBVIOUS
<1>3. SavesTarget(job)' = SavesTarget(job)
  BY DEF SavesTarget
<1>4. (target' # job.a \/ gone') /\ job.tool # "liked" => SavedFirst'
  BY <1>1 DEF Snapshots
<1>5. build'.pc \in {"read", "plan", "create", "add", "put", "delete"} /\ SavesTarget(job) => SavedFirst'
  BY <1>1 DEF Snapshots
<1>. QED  BY <1>3, <1>4, <1>5 DEF Snapshots

LEMMA AtRefuse == BuildsInv /\ Refuse => BuildsInv'
<1>. SUFFICES ASSUME Shape, Course, Exact, Snapshots, Copies, Refuse PROVE BuildsInv'
  BY DEF BuildsInv
<1>1. /\ build.pc = "queued" /\ status' = status /\ build' = [build EXCEPT !.pc = "left"]
      /\ job' = job /\ lists' = lists /\ target' = target /\ gone' = gone
      /\ saved' = saved /\ features' = features /\ faults' = faults
  BY DEF Refuse
<1>2. build' \in BuildType /\ build'.pc = "left" /\ build'.made = build.made
  BY <1>1 DEF Shape, BuildType, Ends
<1>3. status' # "succeeded"
  BY <1>1 DEF Shape
<1>4. Shape'
  BY <1>1, <1>2, <1>3, ShapeStays DEF Shape
<1>5. Course' /\ SoFar' /\ Exact' /\ Written'
  BY <1>1, <1>2, <1>3, QuietStep DEF Ends
<1>6. Snapshots'
  BY <1>1, <1>2, SnapshotsStay
<1>7. Copies'
  BY <1>1, CopiesStay DEF Shape
<1>. QED  BY <1>4, <1>5, <1>6, <1>7 DEF BuildsInv

LEMMA AtStart == BuildsInv /\ BuildStart => BuildsInv'
<1>. SUFFICES ASSUME Shape, Course, Exact, Snapshots, Copies, BuildStart PROVE BuildsInv'
  BY DEF BuildsInv
<1>. DEFINE to == IF SavesTarget(job) THEN "save" ELSE "read"
<1>1. /\ build.pc = "queued" /\ status' = "running" /\ build' = [build EXCEPT !.pc = to]
      /\ job' = job /\ lists' = lists /\ target' = target /\ gone' = gone
      /\ saved' = saved /\ features' = features /\ faults' = faults
  BY DEF BuildStart
<1>2. build' \in BuildType /\ build'.pc = to /\ build'.made = build.made
  BY <1>1 DEF Shape, BuildType, Busy
<1>3. Shape'
  BY <1>1, <1>2, ShapeStays DEF Shape
<1>4. Course' /\ SoFar' /\ Exact' /\ Written'
  BY <1>1, <1>2, QuietStep
<1>5. Snapshots'
  BY <1>1, <1>2, SnapshotsStay
<1>6. Copies'
  BY <1>1, CopiesStay DEF Shape
<1>. QED  BY <1>3, <1>4, <1>5, <1>6 DEF BuildsInv

LEMMA AtSave == BuildsInv /\ SaveTarget => BuildsInv'
<1>. SUFFICES ASSUME Shape, Course, Exact, Snapshots, Copies, SaveTarget PROVE BuildsInv'
  BY DEF BuildsInv
<1>. DEFINE row == [uris |-> Uris(target), copy |-> 0, of |-> "pre_bulk"]
<1>1. /\ build.pc = "save" /\ status' = status /\ build' = [build EXCEPT !.pc = "read"]
      /\ saved' = saved \cup {[Row(Uris(target), 0) EXCEPT !.of = "pre_bulk"]}
      /\ job' = job /\ lists' = lists /\ target' = target /\ gone' = gone
      /\ features' = features /\ faults' = faults
  BY DEF SaveTarget
<1>2. build' \in BuildType /\ build'.pc = "read" /\ build'.made = build.made
  BY <1>1 DEF Shape, BuildType, Busy
<1>3. saved' = saved \cup {row}
  BY <1>1 DEF Row
<1>4. status' # "succeeded"
  BY <1>1 DEF Shape
<1>5. Shape'
  BY <1>1, <1>2, <1>4, ShapeStays DEF Shape
<1>6. Course' /\ SoFar' /\ Exact' /\ Written'
  BY <1>1, <1>2, <1>4, QuietStep
<1>7. Snapshots'
  <2>1. CASE job.tool = "liked"
    <3>1. ~SavesTarget(job)
      BY <2>1 DEF SavesTarget, DestructiveTools
    <3>. QED  BY <1>1, <1>3, <3>1, <2>1, SnapshotsStay
  <2>2. CASE job.tool # "liked"
    <3>1. SavedFirst'
      <4>1. CASE target = job.a
        <5>1. row \in saved' /\ row.of = "pre_bulk" /\ row.uris = Uris(job.a)
          BY <1>3, <4>1
        <5>. HIDE DEF row
        <5>2. Uris(job.a)' = Uris(job.a)
          BY <1>1
        <5>. QED  BY <5>1, <5>2 DEF SavedFirst
      <4>2. CASE target # job.a
        <5>1. SavedFirst
          BY <2>2, <4>2 DEF Snapshots
        <5>. QED  BY <1>1, <1>3, <5>1 DEF SavedFirst
      <4>. QED  BY <4>1, <4>2
    <3>. QED  BY <3>1 DEF Snapshots
  <2>. QED  BY <2>1, <2>2
<1>8. Copies'
  BY <1>1, <1>3, CopiesStay DEF Shape
<1>. QED  BY <1>5, <1>6, <1>7, <1>8 DEF BuildsInv

LEMMA AtResolve ==
    ASSUME BuildsInv, NEW found, Resolve(found) PROVE BuildsInv'
<1>0. Shape /\ Course /\ Exact /\ Snapshots /\ Copies
  BY DEF BuildsInv
<1>1. /\ build.pc = "read" /\ status' = status /\ found \subseteq Described
      /\ \/ build' = [build EXCEPT !.k = 2]
         \/ \E p \in {"plan", "stuck"} : build' = [build EXCEPT !.pc = p]
      /\ job' = job /\ lists' = lists /\ target' = target /\ gone' = gone
      /\ saved' = saved /\ faults' = faults
  BY DEF Resolve
<1>2. features' \subseteq Described \cap Catalogue
  BY <1>0 DEF Resolve, Shape
<1>3. build' \in BuildType /\ build'.pc \in {"read", "plan", "stuck"} /\ build'.made = build.made
  <2>0. build \in BuildType
    BY <1>0 DEF Shape
  <2>1. CASE build' = [build EXCEPT !.k = 2]
    BY SMTT(30), <1>1, <2>0, <2>1 DEF BuildType
  <2>2. ASSUME NEW p \in {"plan", "stuck"}, build' = [build EXCEPT !.pc = p]
        PROVE  build' \in BuildType /\ build'.pc = p /\ build'.made = build.made
    BY <2>0, <2>2 DEF Ends, BuildType, Busy
  <2>. QED  BY <1>1, <2>1, <2>2
<1>4. status' # "succeeded"
  BY <1>0, <1>1 DEF Shape
<1>5. Shape'
  BY <1>0, <1>1, <1>2, <1>3, <1>4, ShapeStays DEF Shape
<1>6. Course' /\ SoFar' /\ Exact' /\ Written'
  BY <1>0, <1>1, <1>3, <1>4, QuietStep DEF Ends
<1>7. Snapshots'
  BY <1>0, <1>1, <1>3, SnapshotsStay
<1>8. Copies'
  BY <1>0, <1>1, CopiesStay DEF Shape
<1>. QED  BY <1>5, <1>6, <1>7, <1>8 DEF BuildsInv

LEMMA AtDelete == BuildsInv /\ Delete => BuildsInv'
<1>. SUFFICES ASSUME Shape, Course, Snapshots, Copies, Delete PROVE BuildsInv'
  BY DEF BuildsInv
<1>1. /\ build.pc = "delete" /\ status' = status /\ build' = [build EXCEPT !.pc = "succeeded"]
      /\ job' = job /\ lists' = lists /\ target' = target /\ gone' = TRUE
      /\ saved' = saved /\ features' = features /\ faults' = faults
  BY DEF Delete
<1>2. build' \in BuildType /\ build'.pc = "succeeded" /\ build'.made = build.made
  BY <1>1 DEF Shape, BuildType, Busy
<1>3. job.tool = "delete" /\ status' # "succeeded"
  BY <1>1 DEF Course, Shape
<1>4. Shape'
  BY <1>1, <1>2, <1>3, ShapeStays DEF Shape
<1>5. Course' /\ SoFar' /\ Exact' /\ Written'
  BY <1>1, <1>2, <1>3 DEF Course, SoFar, Exact, Written
<1>6. SavedFirst
  <2>1. SavesTarget(job)
    BY <1>3 DEF SavesTarget, DestructiveTools
  <2>. QED  BY <1>1, <2>1 DEF Snapshots
<1>7. Snapshots'
  BY <1>1, <1>2, <1>6, SnapshotsStay
<1>8. Copies'
  BY <1>1, CopiesStay DEF Shape
<1>. QED  BY <1>4, <1>5, <1>7, <1>8 DEF BuildsInv

LEMMA AtStore == BuildsInv /\ Store => BuildsInv'
<1>. SUFFICES ASSUME Shape, Course, SoFar, Exact, Snapshots, Copies, Store PROVE BuildsInv'
  BY DEF BuildsInv
<1>. DEFINE row == [uris |-> build.plan[1], copy |-> Copy, of |-> job.tool]
<1>1. /\ build.pc = "store" /\ status' = status /\ build' = [build EXCEPT !.pc = "succeeded"]
      /\ saved' = saved \cup {row}
      /\ job' = job /\ lists' = lists /\ target' = target /\ gone' = gone
      /\ features' = features /\ faults' = faults
  BY DEF Store, Row
<1>2. build' \in BuildType /\ build'.pc = "succeeded" /\ build'.made = build.made /\ build'.plan = build.plan
  BY <1>1 DEF Shape, BuildType, Busy
<1>3. job.tool = "backup" /\ status' # "succeeded" /\ Len(build.plan) = 1
  BY <1>1 DEF Course, Shape
<1>4. Shape'
  BY <1>1, <1>2, <1>3, ShapeStays DEF Shape
<1>5. Course' /\ SoFar' /\ Exact'
  BY <1>1, <1>2, <1>3 DEF Course, SoFar, Exact
<1>6. job.new /\ build.plan[1] # <<>> =>
          build.made \in 1..Len(lists) /\ Range(build.plan[1]) \subseteq Range(lists[build.made])
  <2>1. build.made \in 0..Len(lists)
    BY BuildFields
  <2>. QED  BY <1>1, <2>1 DEF SoFar
<1>7. AllWritten'
  <2>1. DOMAIN build.plan = {1}
    <3>1. DOMAIN build.plan = 1..1
      BY <1>3, BuildFields
    <3>. QED  BY <3>1
  <2>2. job.new => build.plan[1] = <<>> \/ Listed(1)'
    BY <1>1, <1>2, <1>6 DEF Listed
  <2>3. faults' = 0 => /\ target' = job.a
                       /\ lists' = IF ~job.new \/ build.plan[1] = <<>> THEN <<>> ELSE build.plan
    BY <1>1 DEF Exact
  <2>. QED  BY <1>1, <1>2, <1>3, <2>1, <2>2, <2>3 DEF AllWritten
<1>8. Snapshots'
  BY <1>1, <1>2, SnapshotsStay
<1>9. Copies'
  <2>1. /\ Copy \in 0..Len(lists)
        /\ Copy # 0 => Range(build.plan[1]) \subseteq Range(lists[Copy])
        /\ job.new /\ build.plan[1] # <<>> => Copy # 0
    <3>0. Len(lists) \in Nat
      BY BuildFields
    <3>1. CASE job.new /\ build.plan[1] # <<>>
      <4>1. Copy = build.made
        BY <3>1 DEF Copy
      <4>2. build.made \in 1..Len(lists) /\ Range(build.plan[1]) \subseteq Range(lists[build.made])
        BY <1>6, <3>1
      <4>3. build.made # 0 /\ build.made \in 0..Len(lists)
        BY <3>0, <4>2
      <4>. QED  BY <4>1, <4>2, <4>3
    <3>2. CASE ~(job.new /\ build.plan[1] # <<>>)
      <4>1. Copy = 0
        BY <3>2 DEF Copy
      <4>. QED  BY <3>0, <3>2, <4>1
    <3>. QED  BY <3>1, <3>2
  <2>2. row.uris = build.plan[1] /\ row.copy = Copy
    OBVIOUS
  <2>. HIDE DEF row
  <2>. SUFFICES ASSUME NEW b \in saved', b.of = "backup"
                PROVE  /\ b.copy \in 0..Len(lists)
                       /\ b.copy # 0 => Range(b.uris) \subseteq Range(lists[b.copy])
                       /\ job.new /\ b.uris # <<>> => b.copy # 0
    BY <1>1 DEF Copies
  <2>3. CASE b \in saved
    BY <2>3 DEF Copies
  <2>4. CASE b = row
    BY <2>1, <2>2, <2>4
  <2>. QED  BY <1>1, <2>3, <2>4
<1>. QED  BY <1>2, <1>4, <1>5, <1>7, <1>8, <1>9 DEF BuildsInv, Written

LEMMA AtEnd == BuildsInv /\ BuildEnd => BuildsInv'
<1>. SUFFICES ASSUME Shape, Written, Snapshots, Copies, BuildEnd PROVE BuildsInv'
  BY DEF BuildsInv
<1>1. /\ build.pc \in {"succeeded", "failed"} /\ status' = build.pc
      /\ build' = [build EXCEPT !.pc = "ended"]
      /\ job' = job /\ lists' = lists /\ target' = target /\ gone' = gone
      /\ saved' = saved /\ features' = features /\ faults' = faults
  BY DEF BuildEnd, Recorded
<1>2. build' \in BuildType /\ build'.pc = "ended" /\ build'.made = build.made /\ build'.plan = build.plan
  BY <1>1 DEF Ends, Shape, BuildType, Busy
<1>3. Shape'
  BY <1>1, <1>2, ShapeStays DEF Shape
<1>4. Course' /\ SoFar' /\ Exact'
  BY <1>2 DEF Course, SoFar, Exact
<1>5. Written'
  <2>. SUFFICES ASSUME status' = "succeeded", job.tool # "delete" PROVE AllWritten'
    BY <1>1, <1>2 DEF Written
  <2>1. AllWritten
    BY <1>1 DEF Written
  <2>2. \A m : Listed(m)' <=> Listed(m)
    BY <1>1, <1>2 DEF Listed
  <2>. QED  BY <1>1, <1>2, <2>1, <2>2 DEF AllWritten
<1>6. Snapshots'
  BY <1>1, <1>2, SnapshotsStay
<1>7. Copies'
  BY <1>1, CopiesStay DEF Shape
<1>. QED  BY <1>3, <1>4, <1>5, <1>6, <1>7 DEF BuildsInv

LEMMA OneMore ==
    ASSUME Shape, faults < MaxFaults
    PROVE  faults + 1 \in 0..MaxFaults /\ faults + 1 # 0
BY BuildAssumption DEF BuildAssumption, Shape

LEMMA AtFail == BuildsInv /\ (TurnAway \/ BuildFail \/ BuildBreak \/ BuildCrash) => BuildsInv'
<1>. SUFFICES ASSUME Shape, Exact, Snapshots, Copies,
                     TurnAway \/ BuildFail \/ BuildBreak \/ BuildCrash
              PROVE  BuildsInv'
  BY DEF BuildsInv
<1>. DEFINE Over == {"failed", "left", "broken", "lost"}
<1>1. /\ build.pc \in Busy \cup {"queued", "succeeded", "failed"}
      /\ faults < MaxFaults /\ status' = status /\ faults' = faults + 1
      /\ build' = Fresh \/ \E p \in Over : build' = [build EXCEPT !.pc = p]
      /\ job' = job /\ lists' = lists /\ target' = target /\ gone' = gone
      /\ saved' = saved /\ features' = features
  BY DEF TurnAway, BuildFail, BuildBreak, BuildCrash, Busy
<1>2. faults' \in 0..MaxFaults /\ faults' # 0
  BY <1>1, OneMore
<1>3. build' \in BuildType /\ build'.pc \in {"queued"} \cup Over /\ build'.made <= Len(lists')
  <2>0. build \in BuildType /\ build.made <= Len(lists) /\ Len(lists) \in Nat
    BY BuildFields DEF Shape
  <2>1. CASE build' = Fresh
    <3>1. <<>> \in Seq(Seq(Inputs)) /\ <<>> \in Seq(Inputs)
      BY EmptySeq
    <3>2. build' = [pc |-> "queued", plan |-> <<>>, k |-> 1, todo |-> <<>>, made |-> 0]
      BY <2>1 DEF Fresh
    <3>3. build' \in BuildType /\ build'.pc = "queued" /\ build'.made = 0
      BY <3>1, <3>2 DEF BuildType
    <3>. QED  BY <1>1, <2>0, <3>3
  <2>2. ASSUME NEW p \in Over, build' = [build EXCEPT !.pc = p]
        PROVE  build' \in BuildType /\ build'.pc = p /\ build'.made <= Len(lists')
    BY <1>1, <2>0, <2>2 DEF BuildType, Ends
  <2>. QED  BY <1>1, <2>1, <2>2
<1>4. status' # "succeeded"
  BY <1>1 DEF Shape, Busy
<1>5. Shape'
  BY <1>1, <1>2, <1>3, <1>4, ShapeStays DEF Shape
<1>6. Course' /\ SoFar' /\ Exact' /\ Written'
  BY <1>1, <1>2, <1>3, <1>4, QuietStep DEF Ends
<1>7. Snapshots'
  BY <1>1, <1>3, SnapshotsStay
<1>8. Copies'
  BY <1>1, CopiesStay DEF Shape
<1>. QED  BY <1>5, <1>6, <1>7, <1>8 DEF BuildsInv

LEMMA AtPlan == BuildsInv /\ Plan => BuildsInv'
<1>. SUFFICES ASSUME Shape, Course, Exact, Snapshots, Copies, Plan PROVE BuildsInv'
  BY DEF BuildsInv
<1>1. /\ build.pc \in {"read", "plan"} /\ status' = status
      /\ job' = job /\ lists' = lists /\ target' = target /\ gone' = gone
      /\ saved' = saved /\ features' = features /\ faults' = faults
  BY DEF Plan
<1>2. PICK plan \in Plans(job, target, features) :
          build' = IF job.tool = "delete" THEN [build EXCEPT !.pc = "delete"]
                   ELSE IF NothingToWrite(job, target, plan)
                   THEN [build EXCEPT !.plan = plan, !.pc = "succeeded"]
                   ELSE Turn(plan, 1)
  BY DEF Plan
<1>3. job \in Jobs /\ status' # "succeeded" /\ build \in BuildType
  BY <1>1 DEF Shape
<1>4. /\ plan \in Seq(Seq(Inputs))
      /\ job.tool \notin {"split", "delete"} => Len(plan) = 1
  BY <1>3, InputsIs, PlansIs
<1>5. Len(plan) \in Nat /\ DOMAIN plan = 1..Len(plan) /\ Inputs' = Inputs
  BY <1>1, <1>4, LenProperties DEF Inputs
<1>6. faults' = 0 => lists' = <<>> /\ target' = job.a /\ target = job.a
  BY <1>1 DEF Exact
<1>7. CASE job.tool = "delete"
  <2>1. build' \in BuildType /\ build'.pc = "delete" /\ build'.made = build.made
    BY <1>2, <1>3, <1>7 DEF BuildType, Busy
  <2>2. Shape'
    BY <1>1, <1>3, <2>1, ShapeStays DEF Shape
  <2>3. Course' /\ SoFar' /\ Exact' /\ Written'
    BY <1>1, <1>3, <1>7, <2>1, QuietStep
  <2>4. Snapshots'
    BY <1>1, <2>1, SnapshotsStay
  <2>. QED  BY <1>1, <2>2, <2>3, <2>4, CopiesStay DEF BuildsInv, Shape
<1>8. CASE job.tool # "delete" /\ NothingToWrite(job, target, plan)
  <2>1. build' = [build EXCEPT !.plan = plan, !.pc = "succeeded"]
    BY <1>2, <1>8
  <2>2. build' \in BuildType /\ build'.pc = "succeeded" /\ build'.made = build.made /\ build'.plan = plan
    BY <1>3, <1>4, <2>1 DEF BuildType, Busy
  <2>3. Shape'
    BY <1>1, <1>3, <2>2, ShapeStays DEF Shape
  <2>4. Course' /\ SoFar' /\ Exact'
    BY <2>2 DEF Course, SoFar, Exact
  <2>5. ~job.new /\ job.tool # "backup" /\ Uris(target) = plan[1]
    BY <1>3, <1>8, InputsIs, NothingIs
  <2>6. AllWritten'
    <3>1. faults' = 0 => NothingToWrite(job, job.a, plan)
      BY <1>6, <1>8
    <3>2. Uris(target)' = Uris(target)
      BY <1>1
    <3>. QED  BY <1>1, <1>6, <2>2, <2>5, <3>1, <3>2 DEF AllWritten
  <2>7. Snapshots'
    BY <1>1, <2>2, SnapshotsStay
  <2>. QED  BY <1>1, <2>2, <2>3, <2>4, <2>6, <2>7, CopiesStay DEF BuildsInv, Written, Shape
<1>9. CASE job.tool # "delete" /\ ~NothingToWrite(job, target, plan)
  <2>. DEFINE skips == job.tool = "backup" /\ (plan[1] = <<>> \/ ~job.new)
              writes == 1 <= Len(plan) /\ ~skips
  <2>1. build' = Turn(plan, 1)
    BY <1>2, <1>9
  <2>2. /\ build' \in BuildType /\ build'.plan = plan /\ build'.k = 1 /\ build'.made = build.made
        /\ writes => build'.pc = (IF job.new THEN "create" ELSE "put") /\ build'.todo = plan[1]
        /\ ~writes => build'.pc = IF job.tool = "backup" THEN "store" ELSE "succeeded"
    <3>. HIDE DEF Turn
    <3>. QED  BY <1>4, <2>1, TurnIs
  <2>3. Shape'
    <3>1. build'.pc # "ended"
      BY <2>2
    <3>. QED  BY <1>1, <1>3, <2>2, ShapeStays DEF Shape
  <2>4. faults' = 0 => ~NothingToWrite(job, job.a, plan)
    BY <1>6, <1>9
  <2>5. ASSUME writes  PROVE Course' /\ SoFar' /\ Exact' /\ Written'
    <3>1. 1 \in 1..Len(plan) /\ (job.tool = "backup" => job.new /\ plan[1] # <<>>)
          /\ (job.tool # "split" => Len(plan) = 1)
      BY <1>4, <1>5, <1>9, <2>5
    <3>2. build'.pc = (IF job.new THEN "create" ELSE "put") /\ build'.todo = plan[1]
      BY <2>2, <2>5
    <3>. HIDE DEF skips, writes
    <3>3. Course'
      BY <1>1, <1>9, <2>2, <3>1, <3>2 DEF Course
    <3>4. SoFar'
      BY <1>1, <2>2, <3>2 DEF SoFar
    <3>5. Exact'
      <4>1. job.new /\ faults' = 0 => Len(lists') = build'.k - 1 /\ MadeSoFar'
        BY <1>6, <2>2, EmptySeq DEF MadeSoFar
      <4>. QED  BY <1>1, <1>6, <2>2, <2>4, <3>2, <4>1 DEF Exact
    <3>6. Written'
      BY <1>3, <3>2 DEF Written
    <3>. QED  BY <3>3, <3>4, <3>5, <3>6
  <2>6. ASSUME ~writes, job.tool = "backup"  PROVE Course' /\ SoFar' /\ Exact' /\ Written'
    <3>1. Len(plan) = 1 /\ build'.pc = "store"
      BY <1>4, <2>2, <2>6
    <3>2. plan[1] = <<>> \/ ~job.new
      BY <2>6, <3>1
    <3>. HIDE DEF skips, writes
    <3>3. Course'
      BY <1>1, <2>2, <2>6, <3>1 DEF Course
    <3>4. SoFar'
      BY <1>1, <2>2, <3>1, <3>2 DEF SoFar
    <3>5. Exact'
      BY <1>1, <1>6, <2>2, <3>1, <3>2 DEF Exact
    <3>6. Written'
      BY <1>3, <3>1 DEF Written
    <3>. QED  BY <3>3, <3>4, <3>5, <3>6
  <2>7. ASSUME ~writes, job.tool # "backup"  PROVE Course' /\ SoFar' /\ Exact' /\ Written'
    <3>1. build'.pc = "succeeded"
      BY <2>2, <2>7
    <3>2. ~(1 <= Len(plan))
      BY <2>7
    <3>3. Len(plan) = 0
      <4>. HIDE DEF writes
      <4>. QED  BY <1>5, <3>2
    <3>. HIDE DEF skips, writes
    <3>4. job.tool = "split" /\ plan = <<>>
      BY <1>4, <1>9, <3>3, EmptySeq
    <3>5. job.new
      BY <1>3, <3>4, BuildAssumption DEF BuildAssumption
    <3>6. Course' /\ SoFar' /\ Exact'
      BY <3>1 DEF Course, SoFar, Exact
    <3>7. DOMAIN plan = {}
      BY <1>5, <3>3
    <3>8. AllWritten'
      BY <1>1, <1>6, <2>2, <2>7, <3>4, <3>5, <3>7 DEF AllWritten
    <3>. QED  BY <3>6, <3>8 DEF Written
  <2>8. Course' /\ SoFar' /\ Exact' /\ Written'
    BY <2>5, <2>6, <2>7
  <2>9. Snapshots'
    BY <1>1, SnapshotsStay
  <2>. QED  BY <1>1, <2>3, <2>8, <2>9, CopiesStay DEF BuildsInv, Shape
<1>. QED  BY <1>7, <1>8, <1>9

\* What overwrites the target has saved it, unless it is library.liked_to_playlist.
LEMMA Overwrites ==
    ASSUME Shape, Course, Snapshots, build.pc \in {"put", "add"}, ~job.new
    PROVE  job.tool = "liked" \/ SavedFirst
<1>1. job.tool \in {"shuffle", "sort", "prune", "subtract_liked", "liked", "restore"}
  BY BuildAssumption DEF BuildAssumption, Shape, Course
<1>2. job.tool # "liked" => SavesTarget(job)
  BY <1>1 DEF SavesTarget, DestructiveTools
<1>. QED  BY <1>2 DEF Snapshots

\* A request that is sent again.
LEMMA Repeats ==
    ASSUME Shape, NEW again \in BOOLEAN, Repeatable(again)
    PROVE  faults' \in 0..MaxFaults /\ (faults' = 0 => ~again /\ faults = 0)
<1>1. CASE again
  BY <1>1, OneMore DEF Repeatable
<1>2. CASE ~again
  BY <1>2 DEF Repeatable, Shape
<1>. QED  BY <1>1, <1>2

LEMMA TurnType ==
    ASSUME Shape, NEW plan \in Seq(Seq(Inputs)), NEW k \in Nat \ {0}
    PROVE  /\ Turn(plan, k) \in BuildType /\ Turn(plan, k).made = build.made
           /\ Turn(plan, k).pc # "ended"
<1>. DEFINE r == Turn(plan, k)
            skips == job.tool = "backup" /\ (plan[k] = <<>> \/ ~job.new)
            writes == k <= Len(plan) /\ ~skips
<1>1. /\ r \in BuildType /\ r.made = build.made
      /\ writes => r.pc = (IF job.new THEN "create" ELSE "put")
      /\ ~writes => r.pc = IF job.tool = "backup" THEN "store" ELSE "succeeded"
  <2>. HIDE DEF Turn
  <2>. QED  BY TurnIs
<1>. HIDE DEF r, writes
<1>2. r.pc # "ended"
  BY <1>1
<1>. QED  BY <1>1, <1>2 DEF r

LEMMA WithMade ==
    ASSUME NEW r \in BuildType, NEW n \in Nat
    PROVE  LET t == [r EXCEPT !.made = n]
           IN  /\ t \in BuildType /\ t.made = n /\ t.pc = r.pc
               /\ t.plan = r.plan /\ t.k = r.k /\ t.todo = r.todo
BY DEF BuildType

LEMMA AtPut == BuildsInv /\ Put => BuildsInv'
<1>. SUFFICES ASSUME Shape, Course, Exact, Snapshots, Copies, Put PROVE BuildsInv'
  BY DEF BuildsInv
<1>1. /\ build.pc = "put" /\ status' = status /\ build' = AfterBatch
      /\ job' = job /\ lists' = lists /\ target' = Batch(build.todo) /\ gone' = gone
      /\ saved' = saved /\ features' = features /\ faults' = faults
  BY DEF Put
<1>2. /\ build.plan \in Seq(Seq(Inputs)) /\ build.k \in Nat \ {0} /\ build.todo \in Seq(Inputs)
      /\ build.made \in 0..Len(lists) /\ Len(lists) \in Nat /\ build \in BuildType
  BY BuildFields DEF Shape
<1>3. /\ Batch(build.todo) \in Seq(Inputs) /\ Rest(build.todo) \in Seq(Inputs)
      /\ Range(build.todo) = Range(Batch(build.todo)) \cup Range(Rest(build.todo))
      /\ build.todo = Batch(build.todo) \o Rest(build.todo)
      /\ Rest(build.todo) = <<>> => Batch(build.todo) = build.todo
  BY <1>2, BatchAndRest
<1>4. ~job.new /\ build.todo = build.plan[build.k] /\ build.k \in 1..Len(build.plan)
      /\ (job.tool # "split" => Len(build.plan) = 1) /\ (job.tool = "backup" => job.new)
      /\ job.tool # "delete"
  BY <1>1 DEF Course
<1>5. Len(build.plan) = 1 /\ build.k = 1 /\ job.tool # "split"
  <2>1. job.tool # "split"
    BY <1>4, BuildAssumption DEF BuildAssumption, Shape
  <2>2. Len(build.plan) = 1
    BY <1>4, <2>1
  <2>. QED  BY <1>4, <2>1, <2>2
<1>6. status' # "succeeded" /\ faults' \in 0..MaxFaults /\ gone' \in BOOLEAN
  BY <1>1 DEF Shape
<1>7. faults' = 0 => lists' = <<>> /\ ~NothingToWrite(job, job.a, build.plan)
  BY <1>1 DEF Exact
<1>8. Snapshots'
  <2>1. job.tool = "liked" \/ SavedFirst
    BY <1>1, <1>4, Overwrites
  <2>. QED  BY <1>1, <2>1, SnapshotsStay
<1>9. Copies'
  BY <1>1, <1>2, CopiesStay DEF Shape
<1>10. CASE Rest(build.todo) = <<>>
  <2>1. build' = Turn(build.plan, build.k + 1)
    BY <1>1, <1>10 DEF AfterBatch
  <2>2. build' \in BuildType /\ build'.made = build.made /\ build'.pc # "ended"
    <3>1. build.k + 1 \in Nat \ {0}
      BY <1>2
    <3>2. /\ Turn(build.plan, build.k + 1) \in BuildType
          /\ Turn(build.plan, build.k + 1).made = build.made
          /\ Turn(build.plan, build.k + 1).pc # "ended"
      BY <1>2, <3>1, TurnType
    <3>. HIDE DEF Turn
    <3>. QED  BY <2>1, <3>2
  <2>3. Shape'
    BY <1>1, <1>2, <1>3, <1>6, <2>2, ShapeStays DEF Shape
  <2>4. target' \in Seq(Inputs) /\ target' = build.plan[1]
    BY <1>1, <1>3, <1>4, <1>5, <1>10
  <2>5. Course' /\ SoFar' /\ Exact' /\ Written'
    BY <1>1, <1>4, <1>7, <2>1, <2>4, ListDone DEF Shape
  <2>. QED  BY <1>8, <1>9, <2>3, <2>5 DEF BuildsInv
<1>11. CASE Rest(build.todo) # <<>>
  <2>1. build' = [build EXCEPT !.pc = "add", !.todo = Rest(build.todo)]
    BY <1>1, <1>11 DEF AfterBatch
  <2>2. /\ build' \in BuildType /\ build'.pc = "add" /\ build'.todo = Rest(build.todo)
        /\ build'.plan = build.plan /\ build'.k = build.k /\ build'.made = build.made
    BY <1>2, <1>3, <2>1 DEF BuildType, Busy
  <2>3. Shape'
    BY <1>1, <1>2, <1>3, <1>6, <2>2, ShapeStays DEF Shape
  <2>4. Inputs' = Inputs
    BY <1>1 DEF Inputs
  <2>5. Course'
    BY <1>1, <1>3, <1>4, <2>2, <2>4 DEF Course
  <2>6. SoFar'
    BY <1>1, <1>3, <1>4, <1>5, <2>2 DEF SoFar
  <2>7. Exact'
    BY <1>1, <1>3, <1>4, <1>5, <1>7, <2>2 DEF Exact
  <2>8. Written'
    BY <1>6, <2>2 DEF Written
  <2>. QED  BY <1>8, <1>9, <2>3, <2>5, <2>6, <2>7, <2>8 DEF BuildsInv
<1>. QED  BY <1>10, <1>11

LEMMA AtCreate ==
    ASSUME BuildsInv, NEW again \in BOOLEAN, Create(again) PROVE BuildsInv'
<1>0. Shape /\ Course /\ SoFar /\ Exact /\ Snapshots /\ Copies
  BY DEF BuildsInv
<1>1. /\ build.pc = "create" /\ status' = status /\ lists' = Append(lists, <<>>)
      /\ job' = job /\ target' = target /\ gone' = gone
      /\ saved' = saved /\ features' = features
  BY DEF Create
<1>2. faults' \in 0..MaxFaults /\ (faults' = 0 => ~again /\ faults = 0)
  BY <1>0, Repeats DEF Create
<1>3. /\ build.plan \in Seq(Seq(Inputs)) /\ build.k \in Nat \ {0} /\ build.todo \in Seq(Inputs)
      /\ build.made \in 0..Len(lists) /\ Len(lists) \in Nat /\ build \in BuildType
      /\ lists \in Seq(Seq(Inputs))
  BY <1>0, BuildFields DEF Shape
<1>4. /\ lists' \in Seq(Seq(Inputs)) /\ Len(lists') = Len(lists) + 1
      /\ lists'[Len(lists) + 1] = <<>> /\ \A n \in 1..Len(lists) : lists'[n] = lists[n]
  <2>1. <<>> \in Seq(Inputs)
    BY EmptySeq
  <2>. QED  BY <1>1, <1>3, <2>1, AppendProperties
<1>5. /\ job.new /\ build.todo = build.plan[build.k] /\ build.k \in 1..Len(build.plan)
      /\ job.tool # "split" => Len(build.plan) = 1
      /\ job.tool = "backup" => job.new /\ build.plan[build.k] # <<>>
      /\ job.tool # "delete"
  BY <1>0, <1>1 DEF Course
<1>6. status' # "succeeded" /\ gone' \in BOOLEAN
  BY <1>0, <1>1 DEF Shape
<1>7. Snapshots'
  BY <1>0, <1>1, SnapshotsStay
<1>8. Copies'
  BY <1>0, <1>1, <1>3, <1>4, CopiesStay
<1>9. \A m \in 1..build.k - 1 :
          \E n \in 1..Len(lists') : Range(build.plan[m]) \subseteq Range(lists'[n])
  <2>. SUFFICES ASSUME NEW m \in 1..build.k - 1
                PROVE  \E n \in 1..Len(lists') : Range(build.plan[m]) \subseteq Range(lists'[n])
    OBVIOUS
  <2>1. PICK n \in 1..Len(lists) : Range(build.plan[m]) \subseteq Range(lists[n])
    BY <1>0, <1>1, <1>5 DEF SoFar, Listed
  <2>2. n \in 1..Len(lists') /\ lists'[n] = lists[n]
    BY <1>3, <1>4
  <2>. QED  BY <2>1, <2>2
<1>10. faults = 0 => /\ Len(lists) = build.k - 1 /\ target = job.a
                     /\ \A m \in 1..build.k - 1 : lists[m] = build.plan[m]
  BY <1>0, <1>1 DEF Exact, MadeSoFar
<1>11. faults' = 0 => /\ Len(lists') = build.k /\ target' = job.a
                      /\ \A m \in 1..build.k - 1 : lists'[m] = build.plan[m]
                      /\ lists'[build.k] = <<>>
  <2>. SUFFICES ASSUME faults' = 0
                PROVE  /\ Len(lists') = build.k /\ target' = job.a
                       /\ \A m \in 1..build.k - 1 : lists'[m] = build.plan[m]
                       /\ lists'[build.k] = <<>>
    OBVIOUS
  <2>1. /\ Len(lists) = build.k - 1 /\ target = job.a
        /\ \A m \in 1..build.k - 1 : lists[m] = build.plan[m]
    BY <1>2, <1>10
  <2>2. Len(lists) + 1 = build.k
    BY <1>3, <2>1
  <2>. QED  BY <1>1, <1>4, <2>1, <2>2
<1>12. CASE again
  <2>1. build' = build
    BY <1>12 DEF Create
  <2>2. Shape'
    BY <1>0, <1>1, <1>2, <1>3, <1>4, <1>6, <2>1, ShapeStays DEF Shape
  <2>3. Course'
    BY <1>1, <1>5, <2>1 DEF Course
  <2>4. SoFar'
    BY <1>1, <1>9, <2>1 DEF SoFar, Listed
  <2>5. Exact' /\ Written'
    BY <1>1, <1>2, <1>6, <1>12, <2>1 DEF Exact, Written
  <2>. QED  BY <1>7, <1>8, <2>2, <2>3, <2>4, <2>5 DEF BuildsInv
<1>13. CASE ~again /\ build.todo = <<>>
  <2>. DEFINE r == Turn(build.plan, build.k + 1)
  <2>1. build' = [r EXCEPT !.made = Len(lists) + 1]
    BY <1>13 DEF Create, MadeLast
  <2>2. r \in BuildType /\ r.pc # "ended"
    <3>1. build.k + 1 \in Nat \ {0}
      BY <1>3
    <3>. QED  BY <1>0, <1>3, <3>1, TurnType
  <2>3. /\ build' \in BuildType /\ build'.made = Len(lists') /\ build'.pc = r.pc
        /\ build'.plan = r.plan /\ build'.k = r.k /\ build'.todo = r.todo
    <3>. HIDE DEF r
    <3>1. Len(lists) + 1 \in Nat
      BY <1>3
    <3>. QED  BY <1>4, <2>1, <2>2, <3>1, WithMade
  <2>4. Shape'
    <3>1. build'.made <= Len(lists')
      BY <1>3, <1>4, <2>3
    <3>. HIDE DEF r
    <3>. QED  BY <1>0, <1>1, <1>2, <1>4, <1>6, <2>2, <2>3, <3>1, ShapeStays DEF Shape
  <2>5. Range(build.plan[build.k]) = {}
    BY <1>5, <1>13, EmptyRange
  <2>6. Len(lists') # 0
    BY <1>3, <1>4
  <2>7. faults' = 0 => \A m \in 1..build.k : lists'[m] = build.plan[m]
    <3>. SUFFICES ASSUME faults' = 0, NEW m \in 1..build.k PROVE lists'[m] = build.plan[m]
      OBVIOUS
    <3>1. m = build.k \/ m \in 1..build.k - 1
      BY <1>3
    <3>. QED  BY <1>5, <1>11, <1>13, <3>1
  <2>8. Course' /\ SoFar' /\ Exact' /\ Written'
    BY <1>0, <1>1, <1>4, <1>5, <1>9, <1>11, <2>3, <2>5, <2>6, <2>7, ListDone
  <2>. QED  BY <1>7, <1>8, <2>4, <2>8 DEF BuildsInv
<1>14. CASE ~again /\ build.todo # <<>>
  <2>1. build' = [[build EXCEPT !.pc = "add"] EXCEPT !.made = Len(lists) + 1]
    BY <1>14 DEF Create, MadeLast
  <2>2. /\ build' \in BuildType /\ build'.pc = "add" /\ build'.todo = build.todo
        /\ build'.plan = build.plan /\ build'.k = build.k /\ build'.made = Len(lists')
    <3>. DEFINE r == [build EXCEPT !.pc = "add"]
    <3>1. Len(lists) + 1 \in Nat
      BY <1>3
    <3>2. /\ r \in BuildType /\ r.pc = "add" /\ r.todo = build.todo
          /\ r.plan = build.plan /\ r.k = build.k
      BY <1>3 DEF BuildType, Busy
    <3>. HIDE DEF r
    <3>. QED  BY <1>4, <2>1, <3>1, <3>2, WithMade DEF r
  <2>3. Shape'
    <3>1. build'.made <= Len(lists')
      BY <1>3, <1>4, <2>2
    <3>. QED  BY <1>0, <1>1, <1>2, <1>4, <1>6, <2>2, <3>1, ShapeStays DEF Shape
  <2>4. Course'
    BY <1>1, <1>5, <2>2 DEF Course
  <2>5. SoFar'
    <3>1. build'.made # 0
      BY <1>3, <1>4, <2>2
    <3>. QED  BY <1>1, <1>5, <1>9, <2>2, <3>1 DEF SoFar, Listed
  <2>6. Exact'
    <3>1. <<>> \o build.todo = build.todo
      BY <1>3, ConcatEmptySeq
    <3>2. faults' = 0 => lists'[build.k] \o build.todo = build.plan[build.k]
      BY <1>5, <1>11, <3>1
    <3>3. faults' = 0 => MadeSoFar'
      BY <1>11, <2>2 DEF MadeSoFar
    <3>. QED  BY <1>1, <1>5, <1>11, <2>2, <3>2, <3>3 DEF Exact
  <2>7. Written'
    BY <1>6, <2>2 DEF Written
  <2>. QED  BY <1>7, <1>8, <2>3, <2>4, <2>5, <2>6, <2>7 DEF BuildsInv
<1>. QED  BY <1>12, <1>13, <1>14

\* A batch is added to list n.
AddedTo(ls, n, b) == [ls EXCEPT ![n] = ls[n] \o b]

LEMMA BatchAdded ==
    ASSUME NEW T, NEW ls \in Seq(Seq(T)), NEW n \in 1..Len(ls), NEW b \in Seq(T)
    PROVE  LET to == AddedTo(ls, n, b)
           IN  /\ to \in Seq(Seq(T)) /\ Len(to) = Len(ls)
               /\ to[n] = ls[n] \o b /\ Range(to[n]) = Range(ls[n]) \cup Range(b)
               /\ \A m \in 1..Len(ls) : m # n => to[m] = ls[m]
               /\ \A m \in 1..Len(ls) : Range(ls[m]) \subseteq Range(to[m])
<1>. DEFINE e == ls[n] \o b
            to == AddedTo(ls, n, b)
<1>1. ls[n] \in Seq(T) /\ Len(ls) \in Nat
  BY ElementOfSeq, LenProperties
<1>2. e \in Seq(T) /\ Range(e) = Range(ls[n]) \cup Range(b)
  BY <1>1, ConcatProperties, RangeConcatenation
<1>. DEFINE x == [ls EXCEPT ![n] = e]
<1>3. to = x
  BY DEF AddedTo
<1>. HIDE DEF e
<1>4. /\ x \in Seq(Seq(T)) /\ Len(x) = Len(ls)
      /\ \A m \in 1..Len(ls) : x[m] = IF m = n THEN e ELSE ls[m]
  BY <1>2, ExceptSeq
<1>. HIDE DEF x, to
<1>5. /\ to \in Seq(Seq(T)) /\ Len(to) = Len(ls)
      /\ \A m \in 1..Len(ls) : to[m] = IF m = n THEN e ELSE ls[m]
  BY <1>3, <1>4
<1>6. to[n] = e
  BY <1>5
<1>7. \A m \in 1..Len(ls) : Range(ls[m]) \subseteq Range(to[m])
  <2>. SUFFICES ASSUME NEW m \in 1..Len(ls) PROVE Range(ls[m]) \subseteq Range(to[m])
    OBVIOUS
  <2>1. CASE m = n
    BY <1>2, <1>6, <2>1
  <2>2. CASE m # n
    BY <1>5, <2>2
  <2>. QED  BY <2>1, <2>2
<1>8. /\ to \in Seq(Seq(T)) /\ Len(to) = Len(ls)
      /\ to[n] = ls[n] \o b /\ Range(to[n]) = Range(ls[n]) \cup Range(b)
      /\ \A m \in 1..Len(ls) : m # n => to[m] = ls[m]
  BY <1>1, <1>2, <1>5, <1>6 DEF e
<1>. QED  BY <1>7, <1>8 DEF to

\* The request that adds to a playlist just made.
LEMMA AtAddNew ==
    ASSUME BuildsInv, NEW again \in BOOLEAN, Add(again), job.new PROVE BuildsInv'
<1>0. Shape /\ Course /\ SoFar /\ Exact /\ Snapshots /\ Copies
  BY DEF BuildsInv
<1>. DEFINE k == build.k
            b == Batch(build.todo)
            rest == Rest(build.todo)
<1>1. /\ build.pc = "add" /\ status' = status
      /\ job' = job /\ target' = target /\ gone' = gone
      /\ saved' = saved /\ features' = features
      /\ lists' = [lists EXCEPT ![build.made] = lists[build.made] \o b]
  BY DEF Add
<1>2. faults' \in 0..MaxFaults /\ (faults' = 0 => ~again /\ faults = 0)
  BY <1>0, Repeats DEF Add
<1>3. /\ build.plan \in Seq(Seq(Inputs)) /\ k \in Nat \ {0} /\ build.todo \in Seq(Inputs)
      /\ build.made \in 1..Len(lists) /\ Len(lists) \in Nat /\ build \in BuildType
      /\ lists \in Seq(Seq(Inputs)) /\ build.made = Len(lists)
  <2>1. build.made \in 0..Len(lists) /\ build.made # 0 /\ build.made = Len(lists) /\ Len(lists) \in Nat
    BY <1>0, <1>1, BuildFields DEF SoFar
  <2>2. build.made \in 1..Len(lists)
    BY <2>1
  <2>. QED  BY <1>0, <2>1, <2>2, BuildFields DEF Shape
<1>4. /\ b \in Seq(Inputs) /\ rest \in Seq(Inputs)
      /\ Range(build.todo) = Range(b) \cup Range(rest)
      /\ build.todo = b \o rest /\ (rest = <<>> => b = build.todo)
  BY <1>3, BatchAndRest
<1>. HIDE DEF b, rest
<1>5. /\ lists' \in Seq(Seq(Inputs)) /\ Len(lists') = Len(lists)
      /\ lists'[build.made] = lists[build.made] \o b
      /\ Range(lists'[build.made]) = Range(lists[build.made]) \cup Range(b)
      /\ \A m \in 1..Len(lists) : m # build.made => lists'[m] = lists[m]
      /\ \A m \in 1..Len(lists) : Range(lists[m]) \subseteq Range(lists'[m])
  <2>. DEFINE n == build.made
              to == AddedTo(lists, n, b)
  <2>1. n \in 1..Len(lists) /\ lists \in Seq(Seq(Inputs)) /\ b \in Seq(Inputs)
    BY <1>3, <1>4
  <2>2. lists' = to
    BY <1>1 DEF AddedTo
  <2>. HIDE DEF n
  <2>3. /\ to \in Seq(Seq(Inputs)) /\ Len(to) = Len(lists)
        /\ to[n] = lists[n] \o b /\ Range(to[n]) = Range(lists[n]) \cup Range(b)
        /\ \A m \in 1..Len(lists) : m # n => to[m] = lists[m]
        /\ \A m \in 1..Len(lists) : Range(lists[m]) \subseteq Range(to[m])
    BY <2>1, BatchAdded
  <2>. HIDE DEF to
  <2>. QED  BY <2>2, <2>3 DEF n
<1>6. /\ k \in 1..Len(build.plan) /\ (job.tool # "split" => Len(build.plan) = 1)
      /\ (job.tool = "backup" => build.plan[k] # <<>>) /\ job.tool # "delete"
  BY <1>0, <1>1 DEF Course
<1>7. status' # "succeeded" /\ gone' \in BOOLEAN
  BY <1>0, <1>1 DEF Shape
<1>8. Snapshots'
  <2>1. build.pc \in {"read", "plan", "create", "add", "put", "delete"}
    BY <1>1
  <2>. QED  BY <1>0, <1>1, <2>1, SnapshotsStay
<1>9. Copies'
  <2>1. Len(lists) <= Len(lists')
    BY <1>3, <1>5
  <2>. QED  BY <1>0, <1>1, <1>5, <2>1, CopiesStay
<1>10. \A m \in 1..k - 1 :
           \E n \in 1..Len(lists') : Range(build.plan[m]) \subseteq Range(lists'[n])
  <2>. SUFFICES ASSUME NEW m \in 1..k - 1
                PROVE  \E n \in 1..Len(lists') : Range(build.plan[m]) \subseteq Range(lists'[n])
    OBVIOUS
  <2>1. PICK n \in 1..Len(lists) : Range(build.plan[m]) \subseteq Range(lists[n])
    BY <1>0, <1>1 DEF SoFar, Listed
  <2>2. n \in 1..Len(lists') /\ Range(lists[n]) \subseteq Range(lists'[n])
    BY <1>5
  <2>. QED  BY <2>1, <2>2
<1>11. Range(build.plan[k]) \subseteq Range(lists'[build.made]) \cup Range(rest)
  <2>1. Range(build.plan[k]) \subseteq Range(lists[build.made]) \cup Range(build.todo)
    BY <1>0, <1>1 DEF SoFar
  <2>. QED  BY <1>4, <1>5, <2>1
<1>12. faults' = 0 =>
           /\ Len(lists') = k /\ target' = job.a /\ build.made = k
           /\ \A m \in 1..k - 1 : lists'[m] = build.plan[m]
           /\ lists'[k] \o rest = build.plan[k]
  <2>. SUFFICES ASSUME faults' = 0
                PROVE  /\ Len(lists') = k /\ target' = job.a /\ build.made = k
                       /\ \A m \in 1..k - 1 : lists'[m] = build.plan[m]
                       /\ lists'[k] \o rest = build.plan[k]
    OBVIOUS
  <2>1. /\ Len(lists) = k /\ target = job.a /\ \A m \in 1..k - 1 : lists[m] = build.plan[m]
        /\ lists[k] \o build.todo = build.plan[k]
    BY <1>0, <1>1, <1>2 DEF Exact, MadeSoFar
  <2>2. \A m \in 1..k - 1 : m \in 1..Len(lists) /\ m # build.made
    BY <1>3, <2>1
  <2>3. lists[k] \in Seq(Inputs)
    BY <1>3, <2>1, ElementOfSeq
  <2>4. lists[k] \o (b \o rest) = (lists[k] \o b) \o rest
    <3>. DEFINE s == lists[k]
    <3>1. s \in Seq(Inputs) /\ b \in Seq(Inputs) /\ rest \in Seq(Inputs)
      BY <1>4, <2>3
    <3>. HIDE DEF s
    <3>2. s \o (b \o rest) = (s \o b) \o rest
      BY <3>1, ConcatAssociative
    <3>. QED  BY <3>2 DEF s
  <2>5. build.made = k
    BY <1>3, <2>1
  <2>6. lists'[k] = lists[k] \o b
    BY <1>5, <2>5
  <2>7. lists'[k] \o rest = build.plan[k]
    BY <1>4, <2>1, <2>4, <2>6
  <2>. QED  BY <1>1, <1>5, <2>1, <2>2, <2>5, <2>7
<1>13. CASE again
  <2>1. build' = build
    BY <1>13 DEF Add
  <2>2. Shape'
    BY <1>0, <1>1, <1>2, <1>3, <1>5, <1>7, <2>1, ShapeStays DEF Shape
  <2>3. Course'
    BY <1>1, <1>6, <2>1 DEF Course
  <2>4. SoFar'
    <3>1. Range(build.plan[k]) \subseteq Range(lists'[build.made]) \cup Range(build.todo)
      BY <1>4, <1>11
    <3>2. build.made # 0 /\ build.made = Len(lists')
      BY <1>3, <1>5
    <3>. QED  BY <1>1, <1>10, <2>1, <3>1, <3>2 DEF SoFar, Listed
  <2>5. Exact' /\ Written'
    BY <1>1, <1>2, <1>7, <1>13, <2>1 DEF Exact, Written
  <2>. QED  BY <1>8, <1>9, <2>2, <2>3, <2>4, <2>5 DEF BuildsInv
<1>14. CASE ~again /\ rest = <<>>
  <2>1. build' = Turn(build.plan, k + 1)
    BY <1>14 DEF Add, AfterBatch, rest
  <2>2. build' \in BuildType /\ build'.pc # "ended"
    <3>1. k + 1 \in Nat \ {0}
      BY <1>3
    <3>. QED  BY <1>0, <1>3, <2>1, <3>1, TurnType
  <2>3. build'.made = build.made
    <3>1. k + 1 \in Nat \ {0}
      BY <1>3
    <3>. HIDE DEF Turn, k
    <3>. QED  BY <1>0, <1>3, <2>1, <3>1, TurnIs
  <2>4. Shape'
    <3>1. build'.made <= Len(lists')
      BY <1>3, <1>5, <2>3
    <3>. QED  BY <1>0, <1>1, <1>2, <1>5, <1>7, <2>2, <3>1, ShapeStays DEF Shape
  <2>5. Range(build.plan[k]) \subseteq Range(lists'[Len(lists')])
    BY <1>3, <1>5, <1>11, <1>14, EmptyRange
  <2>6. Len(lists') # 0 /\ build'.made = Len(lists')
    BY <1>3, <1>5, <2>3
  <2>7. faults' = 0 => \A m \in 1..k : lists'[m] = build.plan[m]
    <3>. SUFFICES ASSUME faults' = 0, NEW m \in 1..k PROVE lists'[m] = build.plan[m]
      OBVIOUS
    <3>1. m = k \/ m \in 1..k - 1
      BY <1>3
    <3>2. lists'[k] = build.plan[k]
      <4>1. lists'[k] \o <<>> = build.plan[k] /\ Len(lists') = k
        BY <1>12, <1>14
      <4>2. lists'[k] \in Seq(Inputs)
        BY <1>3, <1>5, <4>1, ElementOfSeq
      <4>. QED  BY <4>1, <4>2, ConcatEmptySeq
    <3>. QED  BY <1>12, <3>1, <3>2
  <2>8. Course' /\ SoFar' /\ Exact' /\ Written'
    <3>1. job.new /\ build.pc \in {"create", "add", "put"}
      BY <1>1
    <3>. QED  BY <1>0, <1>1, <1>5, <1>10, <1>12, <2>1, <2>5, <2>6, <2>7, <3>1, ListDone
  <2>. QED  BY <1>8, <1>9, <2>4, <2>8 DEF BuildsInv
<1>15. CASE ~again /\ rest # <<>>
  <2>1. build' = [build EXCEPT !.pc = "add", !.todo = rest]
    BY <1>15 DEF Add, AfterBatch, rest
  <2>2. /\ build' \in BuildType /\ build'.pc = "add" /\ build'.todo = rest
        /\ build'.plan = build.plan /\ build'.k = k /\ build'.made = build.made
    BY <1>3, <1>4, <2>1 DEF BuildType, Busy
  <2>3. Shape'
    <3>1. build'.made <= Len(lists')
      BY <1>3, <1>5, <2>2
    <3>. QED  BY <1>0, <1>1, <1>2, <1>5, <1>7, <2>2, <3>1, ShapeStays DEF Shape
  <2>4. Course'
    BY <1>1, <1>6, <2>2 DEF Course
  <2>5. SoFar'
    <3>1. build.made # 0 /\ build.made = Len(lists')
      BY <1>3, <1>5
    <3>. QED  BY <1>1, <1>10, <1>11, <2>2, <3>1 DEF SoFar, Listed
  <2>6. Exact'
    <3>1. faults' = 0 => MadeSoFar'
      BY <1>12, <2>2 DEF MadeSoFar
    <3>. QED  BY <1>1, <1>12, <2>2, <3>1 DEF Exact
  <2>7. Written'
    BY <1>7, <2>2 DEF Written
  <2>. QED  BY <1>8, <1>9, <2>3, <2>4, <2>5, <2>6, <2>7 DEF BuildsInv
<1>. QED  BY <1>13, <1>14, <1>15

\* The request that adds behind the first batch of the target.
LEMMA AtAddTarget ==
    ASSUME BuildsInv, NEW again \in BOOLEAN, Add(again), ~job.new PROVE BuildsInv'
<1>0. Shape /\ Course /\ SoFar /\ Exact /\ Snapshots /\ Copies
  BY DEF BuildsInv
<1>. DEFINE b == Batch(build.todo)
            rest == Rest(build.todo)
<1>1. /\ build.pc = "add" /\ status' = status
      /\ job' = job /\ lists' = lists /\ gone' = gone
      /\ saved' = saved /\ features' = features /\ target' = target \o b
  BY DEF Add
<1>2. faults' \in 0..MaxFaults /\ (faults' = 0 => ~again /\ faults = 0)
  BY <1>0, Repeats DEF Add
<1>3. /\ build.plan \in Seq(Seq(Inputs)) /\ build.k \in Nat \ {0} /\ build.todo \in Seq(Inputs)
      /\ build.made \in 0..Len(lists) /\ Len(lists) \in Nat /\ build \in BuildType
      /\ lists \in Seq(Seq(Inputs)) /\ target \in Seq(Inputs)
  BY <1>0, <1>1, BuildFields DEF Shape, Course
<1>4. /\ b \in Seq(Inputs) /\ rest \in Seq(Inputs)
      /\ Range(build.todo) = Range(b) \cup Range(rest)
      /\ build.todo = b \o rest /\ (rest = <<>> => b = build.todo)
  BY <1>3, BatchAndRest
<1>. HIDE DEF b, rest
<1>5. target' \in Seq(Inputs) /\ Range(target') = Range(target) \cup Range(b)
  BY <1>1, <1>3, <1>4, ConcatProperties, RangeConcatenation
<1>6. /\ build.k \in 1..Len(build.plan) /\ (job.tool # "split" => Len(build.plan) = 1)
      /\ job.tool # "backup" /\ job.tool # "delete"
  BY <1>0, <1>1 DEF Course
<1>7. status' # "succeeded" /\ gone' \in BOOLEAN
  BY <1>0, <1>1 DEF Shape
<1>8. Snapshots'
  <2>1. job.tool = "liked" \/ SavedFirst
    BY <1>0, <1>1, Overwrites
  <2>2. build.pc \in {"read", "plan", "create", "add", "put", "delete"}
    BY <1>1
  <2>. QED  BY <1>0, <1>1, <2>1, <2>2, SnapshotsStay
<1>9. Copies'
  BY <1>0, <1>1, <1>3, CopiesStay
<1>10. Range(build.plan[1]) = Range(target') \cup Range(rest)
  <2>1. Range(build.plan[1]) = Range(target) \cup Range(build.todo)
    BY <1>0, <1>1 DEF SoFar
  <2>. QED  BY <1>4, <1>5, <2>1
<1>11. faults' = 0 => /\ lists' = <<>> /\ target' \o rest = build.plan[1]
                      /\ ~NothingToWrite(job, job.a, build.plan)
  <2>. SUFFICES ASSUME faults' = 0
                PROVE  /\ lists' = <<>> /\ target' \o rest = build.plan[1]
                       /\ ~NothingToWrite(job, job.a, build.plan)
    OBVIOUS
  <2>1. /\ lists = <<>> /\ target \o build.todo = build.plan[1]
        /\ ~NothingToWrite(job, job.a, build.plan)
    BY <1>0, <1>1, <1>2 DEF Exact
  <2>2. target \o (b \o rest) = (target \o b) \o rest
    <3>. DEFINE s == target
    <3>1. s \in Seq(Inputs) /\ b \in Seq(Inputs) /\ rest \in Seq(Inputs)
      BY <1>3, <1>4
    <3>. HIDE DEF s
    <3>2. s \o (b \o rest) = (s \o b) \o rest
      BY <3>1, ConcatAssociative
    <3>. QED  BY <3>2 DEF s
  <2>. QED  BY <1>1, <1>4, <2>1, <2>2
<1>12. Inputs' = Inputs
  BY <1>1 DEF Inputs
<1>13. CASE again
  <2>1. build' = build
    BY <1>13 DEF Add
  <2>2. Shape'
    BY <1>0, <1>1, <1>2, <1>3, <1>5, <1>7, <2>1, ShapeStays DEF Shape
  <2>3. Course'
    BY <1>1, <1>5, <1>6, <1>12, <2>1 DEF Course
  <2>4. SoFar'
    <3>1. Range(build.plan[1]) = Range(target') \cup Range(build.todo)
      <4>1. Range(build.plan[1]) = Range(target) \cup Range(build.todo)
        BY <1>0, <1>1 DEF SoFar
      <4>. QED  BY <1>4, <1>5, <4>1
    <3>. QED  BY <1>1, <2>1, <3>1 DEF SoFar
  <2>5. Exact' /\ Written'
    BY <1>1, <1>2, <1>7, <1>13, <2>1 DEF Exact, Written
  <2>. QED  BY <1>8, <1>9, <2>2, <2>3, <2>4, <2>5 DEF BuildsInv
<1>14. CASE ~again /\ rest = <<>>
  <2>1. build' = Turn(build.plan, build.k + 1)
    BY <1>14 DEF Add, AfterBatch, rest
  <2>2. build' \in BuildType /\ build'.pc # "ended"
    <3>1. build.k + 1 \in Nat \ {0}
      BY <1>3
    <3>. QED  BY <1>0, <1>3, <2>1, <3>1, TurnType
  <2>3. build'.made = build.made
    <3>1. build.k + 1 \in Nat \ {0}
      BY <1>3
    <3>. HIDE DEF Turn
    <3>. QED  BY <1>0, <1>3, <2>1, <3>1, TurnIs
  <2>4. Shape'
    <3>1. build'.made <= Len(lists')
      BY <1>1, <1>3, <2>3
    <3>. QED  BY <1>0, <1>1, <1>2, <1>3, <1>5, <1>7, <2>2, <3>1, ShapeStays DEF Shape
  <2>5. Range(build.plan[1]) = Range(target')
    BY <1>10, <1>14, EmptyRange
  <2>6. target' \o <<>> = target'
    BY <1>5, ConcatEmptySeq
  <2>7. faults' = 0 => target' = build.plan[1]
    BY <1>11, <1>14, <2>6
  <2>8. Course' /\ SoFar' /\ Exact' /\ Written'
    <3>1. ~job.new /\ build.pc \in {"create", "add", "put"} /\ lists' \in Seq(Seq(Inputs))
      BY <1>1, <1>3
    <3>. QED  BY <1>0, <1>1, <1>5, <1>11, <2>1, <2>5, <2>7, <3>1, ListDone
  <2>. QED  BY <1>8, <1>9, <2>4, <2>8 DEF BuildsInv
<1>15. CASE ~again /\ rest # <<>>
  <2>1. build' = [build EXCEPT !.pc = "add", !.todo = rest]
    BY <1>15 DEF Add, AfterBatch, rest
  <2>2. /\ build' \in BuildType /\ build'.pc = "add" /\ build'.todo = rest
        /\ build'.plan = build.plan /\ build'.k = build.k /\ build'.made = build.made
    BY <1>3, <1>4, <2>1 DEF BuildType, Busy
  <2>3. Shape'
    <3>1. build'.made <= Len(lists')
      BY <1>1, <1>3, <2>2
    <3>. QED  BY <1>0, <1>1, <1>2, <1>3, <1>5, <1>7, <2>2, <3>1, ShapeStays DEF Shape
  <2>4. Course'
    BY <1>1, <1>5, <1>6, <1>12, <2>2 DEF Course
  <2>5. SoFar'
    BY <1>1, <1>10, <2>2 DEF SoFar
  <2>6. Exact'
    BY <1>1, <1>11, <2>2 DEF Exact
  <2>7. Written'
    BY <1>7, <2>2 DEF Written
  <2>. QED  BY <1>8, <1>9, <2>3, <2>4, <2>5, <2>6, <2>7 DEF BuildsInv
<1>. QED  BY <1>13, <1>14, <1>15

LEMMA AtStutter ==
    ASSUME BuildsInv, UNCHANGED buildVars PROVE BuildsInv'
<1>0. Shape /\ Course /\ SoFar /\ Exact /\ Written /\ Snapshots /\ Copies
  BY DEF BuildsInv
<1>1. /\ job' = job /\ status' = status /\ lists' = lists /\ target' = target /\ gone' = gone
      /\ saved' = saved /\ features' = features /\ build' = build /\ faults' = faults
  BY DEF buildVars
<1>2. Inputs' = Inputs /\ \A m : Listed(m)' <=> Listed(m)
  BY <1>1 DEF Inputs, Listed
<1>3. BuildType' = BuildType
  BY <1>2 DEF BuildType
<1>4. Shape' /\ Course'
  BY <1>0, <1>1, <1>2, <1>3 DEF Shape, Course
<1>5. SoFar' /\ Exact'
  BY <1>0, <1>1, <1>2 DEF SoFar, Exact, MadeSoFar
<1>6. Written'
  BY <1>0, <1>1, <1>2 DEF Written, AllWritten
<1>7. Snapshots' /\ Copies'
  BY <1>0, <1>1 DEF Snapshots, SavedFirst, Copies
<1>. QED  BY <1>4, <1>5, <1>6, <1>7 DEF BuildsInv

LEMMA BuildsInvStep == BuildsInv /\ [BuildNext]_buildVars => BuildsInv'
<1>. SUFFICES ASSUME BuildsInv, [BuildNext]_buildVars PROVE BuildsInv'
  OBVIOUS
<1>1. CASE BuildStart
  BY <1>1, AtStart
<1>2. CASE SaveTarget
  BY <1>2, AtSave
<1>3. CASE \E found \in SUBSET Described : Resolve(found)
  BY <1>3, AtResolve
<1>4. CASE Plan
  BY <1>4, AtPlan
<1>5. ASSUME NEW again \in BOOLEAN, Create(again) PROVE BuildsInv'
  BY <1>5, AtCreate
<1>6. ASSUME NEW again \in BOOLEAN, Add(again) PROVE BuildsInv'
  BY <1>6, AtAddNew, AtAddTarget
<1>7. CASE Put
  BY <1>7, AtPut
<1>8. CASE Delete
  BY <1>8, AtDelete
<1>9. CASE Store
  BY <1>9, AtStore
<1>10. CASE BuildEnd
  BY <1>10, AtEnd
<1>11. CASE TurnAway \/ BuildFail \/ BuildBreak \/ BuildCrash
  BY <1>11, AtFail
<1>12. CASE UNCHANGED buildVars
  BY <1>12, AtStutter
<1>13. CASE Refuse
  BY <1>13, AtRefuse
<1>. QED  BY <1>1, <1>2, <1>3, <1>4, <1>5, <1>6, <1>7, <1>8, <1>9, <1>10, <1>11, <1>12, <1>13
          DEF BuildNext, BuildStep, BuildDone

LEMMA BuildsTheorem == BuildSpec => []BuildsInv
BY BuildInitOK, BuildsInvStep, PTL DEF BuildSpec

\* The state of a run is well formed whatever the tool, and the playlists that
\* create_playlist, add_items and replace_items have written hold items of its
\* inputs only: no ordering, selection or cut reads past the list it is given.
THEOREM BuildTypeCorrect == BuildSpec => []BuildTypeOK
<1>1. ASSUME BuildsInv PROVE BuildTypeOK
  <2>0. Shape /\ SoFar
    BY <1>1 DEF BuildsInv
  <2>1. /\ job \in Jobs /\ gone \in BOOLEAN /\ faults \in 0..MaxFaults
        /\ status \in {"queued", "running", "succeeded", "failed"}
        /\ features \subseteq Described \cap Catalogue
        /\ build.pc \in Busy \cup {"queued", "succeeded", "failed"} \cup Ends
    BY <2>0 DEF Shape, BuildType
  <2>2. build.made \in 0..Len(lists) /\ (build.pc = "add" /\ job.new => build.made = Len(lists))
    BY <2>0, BuildFields DEF SoFar
  <2>3. ASSUME NEW l \in Range(lists) \cup {target} PROVE Range(l) \subseteq Range(job.a) \cup Range(job.b)
    <3>1. l \in Seq(Inputs) \/ l = job.a
      BY <2>0, RangeOfSeq DEF Shape
    <3>2. l \in Seq(Inputs) => Range(l) \subseteq Inputs
      BY RangeOfSeq
    <3>. QED  BY <3>1, <3>2 DEF Inputs
  <2>. QED  BY <2>1, <2>2, <2>3 DEF BuildTypeOK
<1>. QED  BY <1>1, BuildsTheorem, PTL

\* For every tool, input, batch size and number of faults: when execute_tool_run has
\* recorded "succeeded", its playlists hold every track that the tool decided on,
\* although requests are repeated and workers start over, and without such an
\* accident they are what it decided, batch by batch.
THEOREM BuildsDone == BuildSpec => []DoneMeansDone
<1>1. ASSUME BuildsInv PROVE DoneMeansDone
  <2>. SUFFICES ASSUME status = "succeeded" /\ job.tool # "delete" PROVE
        /\ job.new => \A k \in DOMAIN build.plan :
               \/ job.tool = "backup" /\ build.plan[k] = <<>>
               \/ \E l \in Range(lists) : Range(build.plan[k]) \subseteq Range(l)
        /\ ~job.new /\ job.tool # "backup" => Range(build.plan[1]) = Range(Uris(target))
        /\ faults = 0 =>
               /\ lists = IF ~job.new \/ (job.tool = "backup" /\ build.plan[1] = <<>>) THEN <<>> ELSE build.plan
               /\ target = IF job.new \/ job.tool = "backup" \/ NothingToWrite(job, job.a, build.plan)
                           THEN job.a ELSE build.plan[1]
    BY Zenon DEF DoneMeansDone
  <2>1. AllWritten /\ Shape
    BY <1>1 DEF BuildsInv, Written
  <2>2. \A k : Listed(k) => \E l \in Range(lists) : Range(build.plan[k]) \subseteq Range(l)
    BY <2>1, BuildFields DEF Listed, Range
  <2>. QED  BY <2>1, <2>2 DEF AllWritten
<1>. QED  BY <1>1, BuildsTheorem, PTL

\* Wherever a run fails or starts over: what it has overwritten or deleted is in a
\* snapshot that execute_tool_run committed before, unless the tool is
\* library.liked_to_playlist, and the copy that a row of _store_backup names has
\* all of its tracks.
THEOREM BackupsTheorem == BuildSpec => []BackupsSound
<1>1. BuildsInv => BackupsSound
  BY DEF BuildsInv, Snapshots, SavedFirst, Copies, BackupsSound, OverwrittenIsSaved, BackupsTrue
<1>. QED  BY <1>1, BuildsTheorem, PTL

-----------------------------------------------------------------------------
(* ToolBuilds: what the computations promise *)

\* What is put in order stands, place by place, as the order has it.
LEMMA InOrderRearranges ==
    ASSUME NEW T, NEW s \in Seq(T), NEW R, StrictOrder(R, Len(s))
    PROVE  \E p \in [DOMAIN s -> DOMAIN s] :
               /\ Rearranges(p, s, InOrder(s, R))
               /\ \A i \in DOMAIN s, j \in DOMAIN s : i < j => <<p[i], p[j]>> \in R
<1>. DEFINE N == Len(s)
            Below(i) == {j \in 1..N : <<j, i>> \in R}
            Place(i) == Cardinality(Below(i))
            At(q) == CHOOSE i \in 1..N : Place(i) = q - 1
            p == [q \in 1..N |-> At(q)]
<1>1. N \in Nat /\ DOMAIN s = 1..N
  BY LenProperties
<1>2. \A q \in 1..N : \E i \in 1..N : Place(i) = q - 1
  BY <1>1, Ranked
<1>3. InOrder(s, R) = [q \in 1..N |-> s[At(q)]]
  BY <1>1 DEF InOrder
<1>4. ASSUME NEW i \in 1..N, NEW j \in 1..N, <<j, i>> \in R
      PROVE  Place(j) <= Place(i)
  <2>1. Below(j) \in SUBSET Below(i)
    BY <1>1, <1>4 DEF StrictOrder
  <2>2. IsFiniteSet(1..N) /\ Below(i) \in SUBSET (1..N)
    BY <1>1, FS_Interval
  <2>. HIDE DEF Below
  <2>3. IsFiniteSet(Below(i))
    BY <2>2, FS_Subset
  <2>. QED  BY <2>1, <2>3, FS_Subset
<1>. HIDE DEF N, Place
<1>5. \A q \in 1..N : At(q) \in 1..N /\ Place(At(q)) = q - 1
  BY <1>2
<1>. HIDE DEF At
<1>6. /\ p \in [1..N -> 1..N] /\ InOrder(s, R) = [q \in 1..N |-> s[p[q]]]
      /\ \A q \in 1..N : Place(p[q]) = q - 1
  BY <1>3, <1>5
<1>. HIDE DEF p
<1>7. \A i \in 1..N, j \in 1..N : p[i] = p[j] => i = j
  <2>1. ASSUME NEW i \in 1..N, NEW j \in 1..N, p[i] = p[j] PROVE i - 1 = j - 1
    BY <1>6, <2>1
  <2>. QED  BY <1>1, <2>1
<1>8. ASSUME NEW i \in 1..N, NEW j \in 1..N, i < j PROVE <<p[i], p[j]>> \in R
  <2>0. i # j
    BY <1>1, <1>8
  <2>1. p[i] \in 1..N /\ p[j] \in 1..N /\ p[i] # p[j]
    BY <1>6, <1>7, <2>0
  <2>2. <<p[i], p[j]>> \in R \/ <<p[j], p[i]>> \in R
    BY <2>1 DEF StrictOrder, N
  <2>3. CASE <<p[j], p[i]>> \in R
    <3>1. j - 1 <= i - 1
      BY <1>4, <1>6, <2>1, <2>3
    <3>. QED  BY <1>1, <1>8, <3>1
  <2>. QED  BY <2>2, <2>3
<1>9. Rearranges(p, s, InOrder(s, R))
  BY <1>1, <1>6, <1>7 DEF Rearranges
<1>. QED  BY <1>1, <1>6, <1>8, <1>9

LEMMA SortRightIs ==
    ASSUME NEW s \in Seq(Tracks), NEW desc \in BOOLEAN
    PROVE  SortRight(s, SortItems(s, desc), desc)
<1>. DEFINE R == IF desc THEN Descending(s) ELSE Ascending(s)
            key(i) == SortKey[s[i]]
<1>1. Len(s) \in Nat /\ DOMAIN s = 1..Len(s)
  BY LenProperties
<1>2. SortItems(s, desc) = InOrder(s, R) /\ StrictOrder(R, Len(s))
  BY SortOrder DEF SortItems
<1>3. \A i \in DOMAIN s, j \in DOMAIN s : <<i, j>> \in R =>
          (IF desc THEN key(i) > key(j) ELSE key(i) < key(j)) \/ (key(i) = key(j) /\ i < j)
  BY DEF Ascending, Descending
<1>. HIDE DEF R
<1>4. PICK p \in [DOMAIN s -> DOMAIN s] :
          /\ Rearranges(p, s, InOrder(s, R))
          /\ \A i \in DOMAIN s, j \in DOMAIN s : i < j => <<p[i], p[j]>> \in R
  BY <1>2, InOrderRearranges
<1>5. \A i \in DOMAIN s : SortKey[InOrder(s, R)[i]] = key(p[i])
  BY <1>4 DEF Rearranges
<1>. HIDE DEF key
<1>6. ASSUME NEW i \in DOMAIN s, NEW j \in DOMAIN s, i < j
      PROVE  LET k == SortKey[InOrder(s, R)[i]]
                 l == SortKey[InOrder(s, R)[j]]
             IN  (IF desc THEN k > l ELSE k < l) \/ (k = l /\ p[i] < p[j])
  <2>. DEFINE a == p[i]
              b == p[j]
  <2>1. a \in DOMAIN s /\ b \in DOMAIN s /\ <<a, b>> \in R
    BY <1>4, <1>6
  <2>2. SortKey[InOrder(s, R)[i]] = key(a) /\ SortKey[InOrder(s, R)[j]] = key(b)
    BY <1>5
  <2>. HIDE DEF a, b
  <2>3. (IF desc THEN key(a) > key(b) ELSE key(a) < key(b)) \/ (key(a) = key(b) /\ a < b)
    BY <1>3, <2>1
  <2>. QED  BY <2>2, <2>3 DEF a, b
<1>. QED  BY <1>2, <1>4, <1>6 DEF SortRight

\* What is seen for the first time is appended.
LEMMA EachOnceIs ==
    ASSUME NEW s \in Seq(Tracks)
    PROVE  EachOnce(s, Firsts(s))
<1>. DEFINE N == Len(s)
            K(x) == [out \in Seq(Tracks) |-> IF x \in Range(out) THEN out ELSE Append(out, x)]
            F == [n \in 1..N |-> K(s[n])]
            Before(n, x, y) == \E m \in 1..n : s[m] = x /\ \A k \in 1..n : s[k] = y => m < k
            Once(n, out) == /\ Range(out) = {s[k] : k \in 1..n}
                            /\ \A i \in 1..Len(out), j \in 1..Len(out) :
                                   i < j => Before(n, out[i], out[j])
            V == [n \in 0..N |-> {out \in Seq(Tracks) : Once(n, out)}]
<1>1. N \in Nat /\ DOMAIN s = 1..N
  BY LenProperties
<1>2. Firsts(s) = Looped(F, <<>>)
  BY Zenon DEF Firsts
<1>3. \A n \in 1..N, x \in Seq(Tracks) :
          F[n][x] = IF s[n] \in Range(x) THEN x ELSE Append(x, s[n])
  OBVIOUS
<1>4. Len(F) = N
  <2>1. F \in [1..N -> {K(s[n]) : n \in 1..N}]
    OBVIOUS
  <2>. HIDE DEF F, K, N
  <2>. QED  BY <1>1, <2>1, FunIsSeq
<1>5. \A n \in 0..N : \A x : x \in V[n] <=> x \in Seq(Tracks) /\ Once(n, x)
  OBVIOUS
<1>. HIDE DEF F, V
<1>6. <<>> \in V[0]
  <2>1. Range(<<>>) = {} /\ Len(<<>>) = 0 /\ <<>> \in Seq(Tracks)
    BY EmptySeq DEF Range
  <2>2. {s[k] : k \in 1..0} = {}
    OBVIOUS
  <2>3. Once(0, <<>>)
    BY <2>1, <2>2
  <2>. HIDE DEF Once, N
  <2>4. 0 \in 0..N
    BY <1>1
  <2>. QED  BY <1>5, <2>1, <2>3, <2>4
<1>7. ASSUME NEW n \in 1..N, NEW x \in V[n - 1] PROVE F[n][x] \in V[n]
  <2>1. n - 1 \in 0..N /\ n \in 0..N /\ n - 1 \in Nat
    BY <1>1
  <2>2. x \in Seq(Tracks) /\ Once(n - 1, x)
    <3>. HIDE DEF Once
    <3>. QED  BY <1>5, <1>7, <2>1
  <2>3. s[n] \in Tracks /\ Len(x) \in Nat
    BY ElementOfSeq, <2>2, LenProperties
  <2>4. {s[k] : k \in 1..n} = {s[k] : k \in 1..n - 1} \cup {s[n]}
    BY <1>1
  <2>5. \A i \in 1..Len(x), j \in 1..Len(x) : i < j => Before(n - 1, x[i], x[j])
    BY <2>2
  <2>6. \A i \in 1..Len(x) : \E k \in 1..n - 1 : s[k] = x[i]
    <3>1. \A i \in 1..Len(x) : x[i] \in Range(x)
      BY <2>2, LenProperties DEF Range
    <3>. QED  BY <2>2, <3>1
  <2>7. CASE s[n] \in Range(x)
    <3>1. F[n][x] = x
      BY <1>3, <2>2, <2>7
    <3>2. Range(x) = {s[k] : k \in 1..n}
      BY <2>2, <2>4, <2>7
    <3>3. ASSUME NEW i \in 1..Len(x), NEW j \in 1..Len(x), i < j
          PROVE  Before(n, x[i], x[j])
      <4>1. PICK m \in 1..n - 1 : s[m] = x[i] /\ \A k \in 1..n - 1 : s[k] = x[j] => m < k
        BY <2>5, <3>3
      <4>2. m \in 1..n /\ m < n
        BY <1>1
      <4>3. \A k \in 1..n : k = n \/ k \in 1..n - 1
        BY <1>1
      <4>. QED  BY <4>1, <4>2, <4>3
    <3>4. Once(n, x)
      BY <3>2, <3>3
    <3>. HIDE DEF Once
    <3>. QED  BY <1>5, <2>1, <2>2, <3>1, <3>4
  <2>8. CASE s[n] \notin Range(x)
    <3>. DEFINE y == Append(x, s[n])
    <3>1. F[n][x] = y
      BY <1>3, <2>2, <2>8
    <3>2. y \in Seq(Tracks) /\ Range(y) = Range(x) \cup {s[n]}
      BY <2>2, <2>3, AppendRange
    <3>3. Range(y) = {s[k] : k \in 1..n}
      BY <2>2, <2>4, <3>2
    <3>4. Len(y) = Len(x) + 1 /\ y[Len(x) + 1] = s[n] /\ \A i \in 1..Len(x) : y[i] = x[i]
      BY <2>2, <2>3, AppendProperties
    <3>5. \A k \in 1..n : s[k] = s[n] => k = n
      <4>1. \A k \in 1..n - 1 : s[k] # s[n]
        BY <2>2, <2>8
      <4>. QED  BY <1>1, <4>1
    <3>. HIDE DEF y
    <3>6. ASSUME NEW i \in 1..Len(y), NEW j \in 1..Len(y), i < j
          PROVE  Before(n, y[i], y[j])
      <4>1. i \in 1..Len(x) /\ y[i] = x[i]
        BY <2>3, <3>4, <3>6
      <4>2. CASE j \in 1..Len(x)
        <5>1. y[j] = x[j]
          BY <3>4, <4>2
        <5>2. PICK m \in 1..n - 1 : s[m] = x[i] /\ \A k \in 1..n - 1 : s[k] = x[j] => m < k
          BY <2>5, <3>6, <4>1, <4>2
        <5>3. m \in 1..n /\ m < n
          BY <1>1
        <5>4. \A k \in 1..n : k = n \/ k \in 1..n - 1
          BY <1>1
        <5>. QED  BY <4>1, <5>1, <5>2, <5>3, <5>4
      <4>3. CASE j = Len(x) + 1
        <5>1. y[j] = s[n]
          BY <3>4, <4>3
        <5>2. PICK m \in 1..n - 1 : s[m] = x[i]
          BY <2>6, <4>1
        <5>3. m \in 1..n /\ m < n
          BY <1>1
        <5>. QED  BY <3>5, <4>1, <5>1, <5>2, <5>3
      <4>. QED  BY <2>3, <3>4, <4>2, <4>3
    <3>7. Once(n, y)
      BY <3>3, <3>6
    <3>. HIDE DEF Once
    <3>. QED  BY <1>5, <2>1, <3>1, <3>2, <3>7
  <2>. QED  BY <2>7, <2>8
<1>8. Looped(F, <<>>) \in V[N]
  <2>. HIDE DEF N
  <2>. QED  BY <1>1, <1>4, <1>6, <1>7, LoopedIs
<1>. DEFINE out == Firsts(s)
<1>9. out \in Seq(Tracks) /\ Once(N, out)
  <2>. HIDE DEF Once
  <2>1. N \in 0..N
    BY <1>1
  <2>. QED  BY <1>2, <1>5, <1>8, <2>1
<1>. HIDE DEF out
<1>10. Range(out) = Range(s)
  BY <1>9, RangeEquality
<1>11. DOMAIN out = 1..Len(out)
  BY <1>9, LenProperties
<1>12. ASSUME NEW i \in 1..Len(out), NEW j \in 1..Len(out), i < j
       PROVE  \E m \in Positions(s, out[i]) : \A n \in Positions(s, out[j]) : m < n
  <2>1. PICK m \in 1..N : s[m] = out[i] /\ \A k \in 1..N : s[k] = out[j] => m < k
    BY <1>9, <1>12
  <2>. QED  BY <1>1, <2>1 DEF Positions
<1>. QED  BY <1>10, <1>11, <1>12 DEF EachOnce, out

\* The first n items of s, filtered to out along p.
Picked(s, S, n, out, p) ==
    /\ p \in [1..Len(out) -> 1..n]
    /\ \A i \in 1..Len(out), j \in 1..Len(out) : i < j => p[i] < p[j]
    /\ \A i \in 1..Len(out) : out[i] = s[p[i]] /\ out[i] \in S
    /\ \A k \in 1..n : s[k] \in S => \E i \in 1..Len(out) : p[i] = k

LEMMA PickedMore ==
    ASSUME NEW T, NEW s \in Seq(T), NEW S, NEW n \in 1..Len(s), NEW x \in Seq(T), NEW p,
           Picked(s, S, n - 1, x, p), s[n] \in S
    PROVE  \E q : Picked(s, S, n, Append(x, s[n]), q)
<1>. DEFINE y == Append(x, s[n])
            M == Len(x) + 1
            q == [i \in 1..M |-> IF i = M THEN n ELSE p[i]]
<1>1. Len(x) \in Nat /\ Len(s) \in Nat /\ s[n] \in T
  BY LenProperties, ElementOfSeq
<1>2. Len(y) = M /\ y[M] = s[n] /\ \A i \in 1..Len(x) : y[i] = x[i]
  BY <1>1, AppendProperties
<1>. HIDE DEF y
<1>3. \A i \in 1..M : i = M \/ (i \in 1..Len(x) /\ i # M)
  BY <1>1
<1>3a. \A i \in 1..Len(x) : i \in 1..M /\ i # M
  BY <1>1
<1>3b. M \in 1..M
  BY <1>1
<1>4. \A i \in 1..Len(x) : p[i] \in 1..n - 1 /\ p[i] \in 1..n /\ p[i] < n
  BY DEF Picked
<1>5. n \in 1..n
  OBVIOUS
<1>. HIDE DEF M
<1>6. q[M] = n /\ \A i \in 1..Len(x) : q[i] = p[i]
  BY <1>3a, <1>3b
<1>7. q \in [1..M -> 1..n]
  BY <1>3, <1>4, <1>5
<1>. HIDE DEF q
<1>8. ASSUME NEW i \in 1..M, NEW j \in 1..M, i < j PROVE q[i] < q[j]
  <2>1. i \in 1..Len(x)
    BY <1>1, <1>8 DEF M
  <2>2. CASE j \in 1..Len(x)
    BY <1>6, <1>8, <2>1, <2>2 DEF Picked
  <2>3. CASE j = M
    BY <1>4, <1>6, <2>1, <2>3
  <2>. QED  BY <1>3, <2>2, <2>3
<1>9. ASSUME NEW i \in 1..M PROVE y[i] = s[q[i]] /\ y[i] \in S
  <2>1. CASE i = M
    BY <1>2, <1>6, <2>1
  <2>2. CASE i \in 1..Len(x)
    BY <1>2, <1>6, <2>2 DEF Picked
  <2>. QED  BY <1>3, <2>1, <2>2
<1>10. ASSUME NEW k \in 1..n, s[k] \in S PROVE \E i \in 1..M : q[i] = k
  <2>1. CASE k = n
    BY <1>3b, <1>6, <2>1
  <2>2. CASE k # n
    <3>1. k \in 1..n - 1
      BY <2>2
    <3>2. PICK i \in 1..Len(x) : p[i] = k
      BY <1>10, <3>1 DEF Picked
    <3>. QED  BY <1>3a, <1>6, <3>2
  <2>. QED  BY <2>1, <2>2
<1>11. Picked(s, S, n, y, q)
  BY <1>2, <1>7, <1>8, <1>9, <1>10 DEF Picked
<1>. QED  BY <1>11 DEF y

\* A filter keeps what it should, and its order.
LEMMA SelectsIs ==
    ASSUME NEW T, NEW s \in Seq(T), NEW S
    PROVE  Selects(s, S, Kept(s, S))
<1>0. PICK f : Keeps(f, s, S)
  BY KeepsExists
<1>. DEFINE N == Len(s)
            G == {n \in 0..N : f[n] \in Seq(T) /\ \E p : Picked(s, S, n, f[n], p)}
<1>1. N \in Nat /\ DOMAIN s = 1..N
  BY LenProperties
<1>2. 0 \in G
  <2>1. f[0] = <<>> /\ <<>> \in Seq(T) /\ Len(<<>>) = 0
    BY <1>0, EmptySeq DEF Keeps
  <2>2. Picked(s, S, 0, <<>>, [i \in 1..0 |-> i])
    BY <2>1 DEF Picked
  <2>3. f[0] \in Seq(T) /\ \E p : Picked(s, S, 0, f[0], p)
    BY <2>1, <2>2, Zenon
  <2>4. 0 \in 0..N
    BY <1>1
  <2>. HIDE DEF N
  <2>. QED  BY <2>3, <2>4
<1>3. ASSUME NEW n \in 1..N, n - 1 \in G PROVE n \in G
  <2>1. f[n - 1] \in Seq(T) /\ s[n] \in T
    BY <1>3, ElementOfSeq
  <2>2. PICK p : Picked(s, S, n - 1, f[n - 1], p)
    BY <1>3
  <2>3. CASE s[n] \in S
    <3>1. f[n] = Append(f[n - 1], s[n])
      BY <1>0, <2>3 DEF Keeps
    <3>2. f[n] \in Seq(T)
      BY <2>1, <3>1, AppendProperties
    <3>3. \E q : Picked(s, S, n, f[n], q)
      BY <2>1, <2>2, <2>3, <3>1, PickedMore
    <3>. QED  BY <1>1, <3>2, <3>3
  <2>4. CASE s[n] \notin S
    <3>1. f[n] = f[n - 1]
      BY <1>0, <2>4 DEF Keeps
    <3>2. \A k \in 1..n : s[k] \in S => k \in 1..n - 1
      BY <1>1, <2>4
    <3>3. p \in [1..Len(f[n]) -> 1..n]
      <4>1. 1..n - 1 \subseteq 1..n
        BY <1>1
      <4>. QED  BY <2>2, <3>1, <4>1 DEF Picked
    <3>4. Picked(s, S, n, f[n], p)
      BY <2>2, <3>1, <3>2, <3>3 DEF Picked
    <3>. QED  BY <1>1, <2>1, <3>1, <3>4
  <2>. QED  BY <2>3, <2>4
<1>4. N \in G
  <2>. HIDE DEF G, N
  <2>1. \A n \in 0..N : n \in G
    BY <1>1, <1>2, <1>3, UpTo
  <2>. QED  BY <1>1, <2>1
<1>. DEFINE out == Kept(s, S)
<1>5. f[N] = out
  BY <1>0 DEF Keeps
<1>6. out \in Seq(T) /\ \E p : Picked(s, S, N, out, p)
  <2>. HIDE DEF out, N
  <2>. QED  BY <1>4, <1>5
<1>. HIDE DEF out
<1>7. PICK p : Picked(s, S, N, out, p)
  BY <1>6
<1>8. DOMAIN out = 1..Len(out)
  BY <1>6, LenProperties
<1>9. /\ p \in [DOMAIN out -> DOMAIN s]
      /\ \A i \in DOMAIN out, j \in DOMAIN out : i < j => p[i] < p[j]
      /\ \A i \in DOMAIN out : out[i] = s[p[i]] /\ out[i] \in S
      /\ \A i \in DOMAIN s : s[i] \in S => \E n \in DOMAIN out : p[n] = i
  BY <1>1, <1>7, <1>8 DEF Picked
<1>10. Selects(s, S, out)
  <2>. HIDE DEF N
  <2>. QED  BY <1>9, Zenon DEF Selects
<1>. QED  BY <1>10 DEF out

\* The places 1..N in some order.
Orders(N) == {p \in [1..N -> 1..N] : \A i \in 1..N, j \in 1..N : p[i] = p[j] => i = j}

\* h: the order after each pass of a shuffle of 1..N.
Shuffles(h, N, d) ==
    /\ h[0] = [i \in 1..N |-> i]
    /\ \A n \in 1..N : h[n] = Exchange(h[n - 1], N + 1 - n, d[N + 1 - n])
    /\ \A n \in 0..N : h[n] \in Orders(N)

LEMMA ExchangeIs ==
    ASSUME NEW N \in Nat, NEW x, DOMAIN x = 1..N, NEW i \in 1..N, NEW j \in 1..i
    PROVE  /\ i # 1 => Exchange(x, i, j)[i] = x[j] /\ Exchange(x, i, j)[j] = x[i]
           /\ \A k \in 1..N : k # i /\ k # j => Exchange(x, i, j)[k] = x[k]
<1>1. CASE i = 1
  BY <1>1 DEF Exchange
<1>2. CASE i # 1
  <2>1. Exchange(x, i, j) = [x EXCEPT ![i] = x[j], ![j] = x[i]]
    BY <1>2 DEF Exchange
  <2>2. DOMAIN x = 1..N /\ i \in 1..N /\ j \in 1..N
    OBVIOUS
  <2>. QED  BY <1>2, <2>1, <2>2
<1>. QED  BY <1>1, <1>2

LEMMA DrawsAre ==
    ASSUME NEW N \in Nat, NEW d \in Draws(N), NEW i \in 1..N
    PROVE  i # 1 => d[i] \in 1..i
BY DEF Draws

LEMMA ShufflesExist ==
    ASSUME NEW N \in Nat, NEW d \in Draws(N)
    PROVE  \E h : Shuffles(h, N, d) /\ h[N] = FisherYates([i \in 1..N |-> i], d)
<1>. DEFINE s == [i \in 1..N |-> i]
<1>1. s \in Seq(1..N) /\ Len(s) = N /\ s \in Orders(N)
  <2>1. s \in [1..N -> 1..N]
    OBVIOUS
  <2>2. s \in Seq(1..N) /\ Len(s) = N
    BY <2>1, FunIsSeq
  <2>. QED  BY <2>2 DEF Orders
<1>2. Range(s) = 1..N
  BY DEF Range
<1>. HIDE DEF s
<1>3. PICK h : ShufflePasses(h, s, d)
  BY <1>1, ShuffleRuns
<1>4. /\ h[0] = s /\ h[N] = FisherYates(s, d)
      /\ \A n \in 1..N : h[n] = Exchange(h[n - 1], N + 1 - n, d[N + 1 - n])
      /\ \A n \in 0..N : h[n] \in [1..N -> 1..N]
  BY <1>1, <1>2, <1>3 DEF ShufflePasses
<1>5. \A n \in 0..N : h[n] \in Orders(N)
  <2>. DEFINE G == {n \in 0..N : h[n] \in Orders(N)}
  <2>1. 0 \in G
    BY <1>1, <1>4
  <2>2. ASSUME NEW n \in 1..N, n - 1 \in G PROVE n \in G
    <3>. DEFINE i == N + 1 - n
                x == h[n - 1]
    <3>1. i \in 1..N /\ n \in 0..N
      OBVIOUS
    <3>2. x \in [1..N -> 1..N] /\ h[n] \in [1..N -> 1..N] /\ h[n] = Exchange(x, i, d[i])
      <4>1. n - 1 \in 0..N
        OBVIOUS
      <4>. QED  BY <1>4, <3>1, <4>1
    <3>3. \A a \in 1..N, b \in 1..N : x[a] = x[b] => a = b
      BY <2>2 DEF Orders
    <3>. HIDE DEF i, x, G
    <3>4. CASE i = 1
      BY <2>2, <3>1, <3>2, <3>4 DEF Exchange, G, x
    <3>5. CASE i # 1
      <4>1. d[i] \in 1..i
        BY <3>1, <3>5, DrawsAre
      <4>0. d[i] \in 1..N
        BY <3>1, <4>1
      <4>2. /\ h[n][i] = x[d[i]] /\ h[n][d[i]] = x[i]
            /\ \A k \in 1..N : k # i /\ k # d[i] => h[n][k] = x[k]
        <5>1. DOMAIN x = 1..N /\ h[n] = Exchange(x, i, d[i])
          BY <3>2
        <5>. QED  BY <3>1, <3>5, <4>1, <5>1, ExchangeIs
      <4>3. \A a \in 1..N, b \in 1..N : h[n][a] = h[n][b] => a = b
        BY <3>1, <3>3, <4>0, <4>2
      <4>. QED  BY <3>1, <3>2, <4>3 DEF Orders, G
    <3>. QED  BY <3>4, <3>5
  <2>. HIDE DEF G
  <2>3. \A n \in 0..N : n \in G
    BY <2>1, <2>2, UpTo
  <2>. QED  BY <2>3 DEF G
<1>6. Shuffles(h, N, d)
  BY <1>4, <1>5 DEF Shuffles, s
<1>. QED  BY <1>4, <1>6 DEF s

\* The places from the last one on are settled, one by every pass.
LEMMA Settled ==
    ASSUME NEW N \in Nat, NEW d \in Draws(N), NEW h, Shuffles(h, N, d), NEW n \in 1..N
    PROVE  h[N][N + 1 - n] = h[n][N + 1 - n]
<1>. DEFINE G == {m \in 0..N : m >= n => h[m][N + 1 - n] = h[n][N + 1 - n]}
<1>1. 0 \in G
  OBVIOUS
<1>2. ASSUME NEW m \in 1..N, m - 1 \in G PROVE m \in G
  <2>1. CASE m <= n
    BY <2>1
  <2>2. CASE m > n
    <3>. DEFINE i == N + 1 - m
                k == N + 1 - n
                x == h[m - 1]
    <3>1. i \in 1..N /\ k \in 1..N /\ i < k /\ m - 1 \in 0..N /\ m - 1 >= n
      BY <2>2
    <3>2. x \in [1..N -> 1..N] /\ h[m] = Exchange(x, i, d[i])
      BY <3>1 DEF Shuffles, Orders
    <3>3. x[k] = h[n][k]
      BY <1>2, <3>1
    <3>. HIDE DEF i, k, x
    <3>4. h[m][k] = x[k]
      <4>1. CASE i = 1
        BY <3>2, <4>1 DEF Exchange
      <4>2. CASE i # 1
        <5>1. d[i] \in 1..i
          BY <3>1, <4>2, DrawsAre
        <5>2. k # i /\ k # d[i]
          BY <3>1, <5>1
        <5>3. DOMAIN x = 1..N /\ h[m] = Exchange(x, i, d[i])
          BY <3>2
        <5>. QED  BY <3>1, <4>2, <5>1, <5>2, <5>3, ExchangeIs
      <4>. QED  BY <4>1, <4>2
    <3>5. h[m][k] = h[n][k]
      BY <3>3, <3>4
    <3>. QED  BY <3>5 DEF k
  <2>. QED  BY <2>1, <2>2
<1>3. \A m \in 0..N : m \in G
  <2>. HIDE DEF G
  <2>. QED  BY <1>1, <1>2, UpTo
<1>. QED  BY <1>3

\* Different draws come to different orders.
LEMMA DrawsDiffer ==
    ASSUME NEW N \in Nat, NEW d \in Draws(N), NEW e \in Draws(N), NEW g, NEW h,
           Shuffles(g, N, d), Shuffles(h, N, e), g[N] = h[N]
    PROVE  d = e
<1>. DEFINE G == {n \in 0..N : g[n] = h[n] /\ \A k \in 1..n : N + 1 - k # 1 => d[N + 1 - k] = e[N + 1 - k]}
<1>1. 0 \in G
  BY DEF Shuffles
<1>2. ASSUME NEW n \in 1..N, n - 1 \in G PROVE n \in G
  <2>. DEFINE i == N + 1 - n
              x == g[n - 1]
  <2>1. i \in 1..N /\ n - 1 \in 0..N /\ n \in 0..N
    OBVIOUS
  <2>2. x = h[n - 1] /\ x \in Orders(N) /\ x \in [1..N -> 1..N]
    BY <1>2, <2>1 DEF Shuffles, Orders
  <2>3. g[n] = Exchange(x, i, d[i]) /\ h[n] = Exchange(x, i, e[i])
    BY <2>2 DEF Shuffles
  <2>4. g[n][i] = h[n][i]
    BY Settled
  <2>5. i # 1 => d[i] = e[i]
    <3>. HIDE DEF i, x
    <3>1. SUFFICES ASSUME i # 1 PROVE d[i] = e[i]
      OBVIOUS
    <3>2. d[i] \in 1..i /\ e[i] \in 1..i
      BY <2>1, <3>1, DrawsAre
    <3>3. g[n][i] = x[d[i]] /\ h[n][i] = x[e[i]]
      <4>1. DOMAIN x = 1..N
        BY <2>2
      <4>. QED  BY <2>1, <2>3, <3>1, <3>2, <4>1, ExchangeIs
    <3>4. d[i] \in 1..N /\ e[i] \in 1..N
      BY <2>1, <3>2
    <3>. QED  BY <2>2, <2>4, <3>3, <3>4 DEF Orders
  <2>6. g[n] = h[n]
    <3>. HIDE DEF i, x
    <3>. QED  BY <2>3, <2>5 DEF Exchange
  <2>7. \A k \in 1..n : k = n \/ k \in 1..n - 1
    OBVIOUS
  <2>. QED  BY <1>2, <2>1, <2>5, <2>6, <2>7
<1>3. \A n \in 0..N : n \in G
  <2>. HIDE DEF G
  <2>. QED  BY <1>1, <1>2, UpTo
<1>4. ASSUME NEW i \in 2..N PROVE d[i] = e[i]
  <2>. DEFINE k == N + 1 - i
  <2>1. k \in 1..N /\ k \in 0..N /\ N + 1 - k = i /\ i # 1
    OBVIOUS
  <2>2. k \in G
    BY <1>3, <2>1
  <2>3. k \in 1..k
    BY <2>1
  <2>. HIDE DEF k
  <2>. QED  BY <2>1, <2>2, <2>3
<1>5. d \in [2..N -> 1..N] /\ e \in [2..N -> 1..N]
  BY DEF Draws
<1>. QED  BY <1>4, <1>5

\* The items go where the places go.
LEMMA ShuffledAlong ==
    ASSUME NEW T, NEW s \in Seq(T), NEW d \in Draws(Len(s)), NEW g, Shuffles(g, Len(s), d)
    PROVE  FisherYates(s, d) = [i \in 1..Len(s) |-> s[g[Len(s)][i]]]
<1>. DEFINE N == Len(s)
<1>1. N \in Nat /\ s \in [1..N -> T]
  BY LenProperties
<1>2. PICK h : ShufflePasses(h, s, d)
  BY ShuffleRuns
<1>3. /\ h[0] = s /\ h[N] = FisherYates(s, d)
      /\ \A n \in 1..N : h[n] = Exchange(h[n - 1], N + 1 - n, d[N + 1 - n])
      /\ \A n \in 0..N : h[n] \in [1..N -> Range(s)]
  BY <1>2 DEF ShufflePasses
<1>. HIDE DEF N
<1>. DEFINE G == {n \in 0..N : h[n] = [i \in 1..N |-> s[g[n][i]]]}
<1>4. 0 \in G
  <2>1. g[0] = [i \in 1..N |-> i] /\ h[0] = s /\ 0 \in 0..N
    BY <1>1, <1>3 DEF Shuffles, N
  <2>2. s = [i \in 1..N |-> s[g[0][i]]]
    BY <1>1, <2>1
  <2>. QED  BY <2>1, <2>2
<1>5. ASSUME NEW n \in 1..N, n - 1 \in G PROVE n \in G
  <2>. DEFINE i == N + 1 - n
              x == g[n - 1]
              y == h[n - 1]
  <2>1. i \in 1..N /\ n - 1 \in 0..N /\ n \in 0..N
    BY <1>1
  <2>2. x \in [1..N -> 1..N] /\ g[n] = Exchange(x, i, d[i])
    BY <2>1 DEF Shuffles, Orders, N
  <2>3. y \in [1..N -> Range(s)] /\ h[n] = Exchange(y, i, d[i]) /\ h[n] \in [1..N -> Range(s)]
    BY <1>3, <2>1
  <2>4. \A k \in 1..N : y[k] = s[x[k]]
    BY <1>5
  <2>. HIDE DEF i, x, y
  <2>5. \A k \in 1..N : h[n][k] = s[g[n][k]]
    <3>1. CASE i = 1
      BY <2>2, <2>3, <2>4, <3>1 DEF Exchange
    <3>2. CASE i # 1
      <4>1. d[i] \in 1..i
        BY <1>1, <2>1, <3>2, DrawsAre DEF N
      <4>2. /\ h[n][i] = y[d[i]] /\ h[n][d[i]] = y[i]
            /\ \A k \in 1..N : k # i /\ k # d[i] => h[n][k] = y[k]
        BY <1>1, <2>1, <2>3, <3>2, <4>1, ExchangeIs
      <4>3. /\ g[n][i] = x[d[i]] /\ g[n][d[i]] = x[i]
            /\ \A k \in 1..N : k # i /\ k # d[i] => g[n][k] = x[k]
        <5>1. DOMAIN x = 1..N /\ g[n] = Exchange(x, i, d[i])
          BY <2>2
        <5>2. N \in Nat /\ i \in 1..N
          BY <1>1, <2>1
        <5>. QED  BY <3>2, <4>1, <5>1, <5>2, ExchangeIs
      <4>4. d[i] \in 1..N
        BY <1>1, <2>1, <4>1
      <4>. QED  BY <2>1, <2>4, <4>2, <4>3, <4>4
    <3>. QED  BY <3>1, <3>2
  <2>. QED  BY <2>1, <2>3, <2>5
<1>6. \A n \in 0..N : n \in G
  <2>. HIDE DEF G
  <2>. QED  BY <1>1, <1>4, <1>5, UpTo
<1>7. N \in G
  BY <1>1, <1>6
<1>. QED  BY <1>3, <1>7 DEF N

LEMMA ShuffleRightIs ==
    ASSUME NEW s \in Seq(Tracks)
    PROVE  ShuffleRight(s)
<1>. DEFINE N == Len(s)
            places == [i \in DOMAIN s |-> i]
            order(d) == FisherYates(places, d)
<1>1. N \in Nat /\ DOMAIN s = 1..N
  BY LenProperties
<1>2. places = [i \in 1..N |-> i]
  BY <1>1
<1>. HIDE DEF N, places
<1>3. ASSUME NEW d \in Draws(N) PROVE Rearranges(order(d), s, FisherYates(s, d))
  <2>1. PICK g : Shuffles(g, N, d) /\ g[N] = order(d)
    BY <1>1, <1>2, ShufflesExist
  <2>2. order(d) \in Orders(N)
    <3>1. N \in 0..N
      BY <1>1
    <3>. QED  BY <2>1, <3>1 DEF Shuffles
  <2>3. FisherYates(s, d) = [i \in 1..N |-> s[order(d)[i]]]
    BY <2>1, ShuffledAlong DEF N
  <2>. HIDE DEF order
  <2>. QED  BY <1>1, <2>2, <2>3 DEF Orders, Rearranges
<1>4. ASSUME NEW d \in Draws(N), NEW e \in Draws(N), order(d) = order(e) PROVE d = e
  <2>1. PICK g : Shuffles(g, N, d) /\ g[N] = order(d)
    BY <1>1, <1>2, ShufflesExist
  <2>2. PICK h : Shuffles(h, N, e) /\ h[N] = order(e)
    BY <1>1, <1>2, ShufflesExist
  <2>. HIDE DEF order
  <2>. QED  BY <1>1, <1>4, <2>1, <2>2, DrawsDiffer
<1>. QED  BY <1>3, <1>4 DEF ShuffleRight, N, places

LEMMA Quotient ==
    ASSUME NEW a \in Nat, NEW b \in Nat \ {0}
    PROVE  a \div b \in Nat /\ (a \div b) * b <= a /\ a < (a \div b) * b + b
OBVIOUS

LEMMA Parts ==
    ASSUME NEW N \in Nat, NEW size \in Nat \ {0}
    PROVE  LET k == (N + size - 1) \div size
           IN  /\ k \in Nat /\ N <= k * size
               /\ \A n \in 1..k : (n - 1) * size \in Nat /\ (n - 1) * size < N /\ n * size = (n - 1) * size + size
               /\ \A n \in 1..k : n < k => n * size < N
<1>. DEFINE a == N + size - 1
            k == a \div size
<1>1. a \in Nat
  OBVIOUS
<1>. HIDE DEF a
<1>2. k \in Nat /\ k * size <= a /\ a < k * size + size
  BY <1>1, Quotient
<1>. HIDE DEF k
<1>3. N <= k * size
  <2>1. k * size \in Nat
    BY <1>2
  <2>. QED  BY <1>2, <2>1 DEF a
<1>4. ASSUME NEW n \in Nat, NEW m \in Nat, n < m PROVE n * size + size <= m * size
  <2>1. PICK d \in Nat : m = n + 1 + d
    <3>1. m - n - 1 \in Nat /\ m = n + 1 + (m - n - 1)
      BY <1>4
    <3>. QED  BY <3>1
  <2>2. m * size = n * size + size + d * size
    BY <2>1
  <2>3. d * size \in Nat /\ n * size \in Nat
    OBVIOUS
  <2>. QED  BY <2>2, <2>3
<1>5. ASSUME NEW n \in 1..k
      PROVE  (n - 1) * size \in Nat /\ (n - 1) * size < N /\ n * size = (n - 1) * size + size
  <2>1. n \in Nat /\ n - 1 \in Nat /\ n - 1 < k /\ k \in Nat
    BY <1>2
  <2>2. (n - 1) * size + size <= k * size
    BY <1>4, <2>1
  <2>3. n * size = (n - 1) * size + size /\ (n - 1) * size \in Nat
    BY <2>1
  <2>4. k * size \in Nat
    BY <1>2
  <2>. QED  BY <1>2, <2>2, <2>3, <2>4 DEF a
<1>6. ASSUME NEW n \in 1..k, n < k PROVE n * size < N
  <2>1. n \in Nat /\ k \in Nat /\ n * size \in Nat /\ k * size \in Nat
    BY <1>2
  <2>2. n * size + size <= k * size
    BY <1>4, <1>6, <2>1
  <2>. QED  BY <1>2, <2>1, <2>2 DEF a
<1>. QED  BY <1>2, <1>3, <1>5, <1>6 DEF k, a

\* A slice and the one that follows it.
LEMMA SlicesMeet ==
    ASSUME NEW T, NEW s \in Seq(T), NEW i \in 0..Len(s), NEW j \in i..Len(s)
    PROVE  SubSeq(s, 1, j) = SubSeq(s, 1, i) \o SubSeq(s, i + 1, j)
<1>. DEFINE N == Len(s)
            a == SubSeq(s, 1, i)
            b == SubSeq(s, i + 1, j)
            c == SubSeq(s, 1, j)
<1>1. N \in Nat /\ i \in 0..N /\ j \in i..N
  BY LenProperties
<1>2. \A n \in 1..N : s[n] \in T
  BY ElementOfSeq
<1>. HIDE DEF N
<1>3. a \in Seq(T) /\ Len(a) = i /\ \A n \in 1..i : a[n] = s[n]
  <2>1. \A n \in 1..i : s[n] \in T
    BY <1>1, <1>2
  <2>. QED  BY <1>1, <2>1, SubSeqProperties
<1>4. c \in Seq(T) /\ Len(c) = j /\ \A n \in 1..j : c[n] = s[n]
  <2>1. \A n \in 1..j : s[n] \in T
    BY <1>1, <1>2
  <2>. QED  BY <1>1, <2>1, SubSeqProperties
<1>5. b \in Seq(T) /\ Len(b) = j - i /\ \A n \in 1..j - i : b[n] = s[i + n]
  <2>1. \A n \in i + 1..j : s[n] \in T
    BY <1>1, <1>2
  <2>. QED  BY <1>1, <2>1, SubSeqProperties
<1>. HIDE DEF a, b, c
<1>6. /\ a \o b \in Seq(T) /\ Len(a \o b) = j
      /\ \A n \in 1..j : (a \o b)[n] = IF n <= i THEN a[n] ELSE b[n - i]
  BY <1>1, <1>3, <1>5, ConcatProperties
<1>7. \A n \in 1..j : c[n] = (a \o b)[n]
  <2>. TAKE n \in 1..j
  <2>1. CASE n <= i
    BY <1>1, <1>3, <1>4, <1>6, <2>1
  <2>2. CASE ~(n <= i)
    <3>1. n - i \in 1..j - i /\ i + (n - i) = n
      BY <1>1, <2>2
    <3>2. b[n - i] = s[i + (n - i)]
      BY <1>5, <3>1
    <3>. QED  BY <1>4, <1>6, <2>2, <3>1, <3>2
  <2>. QED  BY <2>1, <2>2
<1>8. a \o b = c
  BY <1>4, <1>6, <1>7, SeqEqual
<1>. QED  BY <1>8 DEF a, b, c

LEMMA SplitRightIs ==
    ASSUME NEW T, NEW s \in Seq(T), ChunkSize \in Nat \ {0}
    PROVE  SplitRight(s, Chunks(s, ChunkSize))
<1>. DEFINE N == Len(s)
            size == ChunkSize
            k == (N + size - 1) \div size
            end(n) == IF n * size < N THEN n * size ELSE N
            part(n) == SubSeq(s, (n - 1) * size + 1, end(n))
            cs == [n \in 1..k |-> part(n)]
<1>1. N \in Nat /\ size \in Nat \ {0}
  BY LenProperties
<1>2. Chunks(s, ChunkSize) = cs
  BY Zenon DEF Chunks
<1>3. Chunks(s, ChunkSize) \in Seq(Seq(T))
  BY ChunksIs
<1>. HIDE DEF N, size
<1>4. /\ k \in Nat /\ N <= k * size
      /\ \A n \in 1..k : (n - 1) * size \in Nat /\ (n - 1) * size < N /\ n * size = (n - 1) * size + size
      /\ \A n \in 1..k : n < k => n * size < N
  BY <1>1, Parts
<1>5. \A n \in 1..N : s[n] \in T
  BY ElementOfSeq DEF N
<1>. HIDE DEF k
<1>6. ASSUME NEW n \in 1..k
      PROVE  /\ (n - 1) * size \in 0..N /\ end(n) \in (n - 1) * size + 1..N
             /\ Len(part(n)) = end(n) - (n - 1) * size
  <2>. DEFINE i == (n - 1) * size
              j == end(n)
  <2>1. i \in 0..N /\ j \in i + 1..N
    <3>1. i \in Nat /\ i < N /\ n * size = i + size
      BY <1>4
    <3>. HIDE DEF i
    <3>. QED  BY <1>1, <3>1
  <2>. HIDE DEF i, j
  <2>2. SubSeq(s, i + 1, j) \in Seq(T) /\ Len(SubSeq(s, i + 1, j)) = j - i
    <3>1. \A m \in i + 1..j : s[m] \in T
      BY <1>1, <1>5, <2>1
    <3>. QED  BY <1>1, <2>1, <3>1, SubSeqProperties
  <2>. QED  BY <2>1, <2>2 DEF i, j
<1>7. Len(cs) = k /\ \A n \in 1..k : cs[n] = part(n)
  <2>1. cs \in [1..k -> {part(n) : n \in 1..k}]
    OBVIOUS
  <2>. HIDE DEF cs, part
  <2>. QED  BY <1>4, <2>1, FunIsSeq DEF cs
<1>8. PICK h : Joins(h, cs, T)
  BY <1>2, <1>3, FlattenRuns
<1>9. /\ h[0] = <<>> /\ h[k] = FlattenSeq(cs)
      /\ \A n \in 1..k : h[n] = h[n - 1] \o part(n)
  BY <1>7, <1>8 DEF Joins
<1>. HIDE DEF cs
<1>10. end(0) = 0 /\ end(k) = N
  <2>1. 0 * size = 0 /\ k * size \in Nat
    BY <1>1, <1>4
  <2>. QED  BY <1>1, <1>4, <2>1
<1>. DEFINE G == {n \in 0..k : h[n] = SubSeq(s, 1, end(n))}
<1>11. 0 \in G
  <2>1. SubSeq(s, 1, 0) = <<>>
    <3>1. SubSeq(s, 1, 0) \in Seq(T) /\ Len(SubSeq(s, 1, 0)) = 0
      BY SubSeqProperties
    <3>. QED  BY <3>1, EmptySeq
  <2>2. h[0] = SubSeq(s, 1, end(0)) /\ 0 \in 0..k
    <3>. HIDE DEF end
    <3>. QED  BY <1>4, <1>9, <1>10, <2>1
  <2>. HIDE DEF end
  <2>. QED  BY <2>2
<1>12. ASSUME NEW n \in 1..k, n - 1 \in G PROVE n \in G
  <2>1. end(n - 1) = (n - 1) * size
    BY <1>4
  <2>2. (n - 1) * size \in 0..N /\ end(n) \in (n - 1) * size..N /\ n \in 0..k
    <3>. HIDE DEF end
    <3>. QED  BY <1>1, <1>4, <1>6
  <2>3. h[n] = SubSeq(s, 1, end(n - 1)) \o SubSeq(s, end(n - 1) + 1, end(n))
    BY <1>9, <1>12, <2>1
  <2>. HIDE DEF end, part
  <2>4. h[n] = SubSeq(s, 1, end(n))
    BY <2>1, <2>2, <2>3, SlicesMeet DEF N
  <2>. QED  BY <2>2, <2>4
<1>13. k \in G
  <2>1. \A n \in 0..k : n \in G
    <3>. HIDE DEF G
    <3>. QED  BY <1>4, <1>11, <1>12, UpTo
  <2>. QED  BY <1>4, <2>1
<1>14. FlattenSeq(cs) = s
  <2>1. FlattenSeq(cs) = SubSeq(s, 1, N)
    <3>. HIDE DEF end
    <3>. QED  BY <1>9, <1>10, <1>13
  <2>2. SubSeq(s, 1, N) = s
    <3>1. SubSeq(s, 1, N) \in Seq(T) /\ Len(SubSeq(s, 1, N)) = N /\ \A m \in 1..N : SubSeq(s, 1, N)[m] = s[m]
      BY <1>1, <1>5, SubSeqProperties DEF N
    <3>. QED  BY <3>1, SeqEqual DEF N
  <2>. QED  BY <2>1, <2>2
<1>15. ASSUME NEW n \in 1..k
       PROVE  /\ cs[n] # <<>> /\ (n < k => Len(cs[n]) = size) /\ Len(cs[n]) <= size
  <2>1. Len(cs[n]) = end(n) - (n - 1) * size
    BY <1>6, <1>7
  <2>2. (n - 1) * size \in Nat /\ n * size = (n - 1) * size + size /\ (n < k => n * size < N)
    BY <1>4
  <2>3. end(n) >= (n - 1) * size + 1
    BY <1>6, <2>2
  <2>4. Len(cs[n]) # 0 /\ (n < k => Len(cs[n]) = size) /\ Len(cs[n]) <= size
    BY <1>1, <2>1, <2>2, <2>3
  <2>. QED  BY <2>4, EmptySeq
<1>16. DOMAIN cs = 1..k
  BY <1>7 DEF cs
<1>17. SplitRight(s, cs)
  BY <1>7, <1>14, <1>15, <1>16 DEF SplitRight, size
<1>. QED  BY <1>2, <1>17

Less(x, y) == IF x <= y THEN x ELSE y

\* Where the items of a and b stand after n rounds.
InTurns(u, a, b, n) ==
    /\ Len(u) = Less(n, Len(a)) + Less(n, Len(b))
    /\ \A i \in 1..Less(n, Len(a)) : u[i + Less(i - 1, Len(b))] = a[i]
    /\ \A i \in 1..Less(n, Len(b)) : u[i + Less(i, Len(a))] = b[i]

LEMMA NextRound ==
    ASSUME NEW T, NEW a \in Seq(T), NEW b \in Seq(T), NEW u \in Seq(T),
           NEW n \in Nat \ {0}, InTurns(u, a, b, n - 1)
    PROVE  InTurns(u \o (Nth(a, n) \o Nth(b, n)), a, b, n)
<1>. DEFINE x == Nth(a, n)
            y == Nth(b, n)
            v == x \o y
            w == u \o v
            A == Len(a)
            B == Len(b)
<1>1. A \in Nat /\ B \in Nat
  BY LenProperties
<1>2. /\ x \in Seq(T) /\ y \in Seq(T)
      /\ n <= A => Len(x) = 1 /\ x[1] = a[n]
      /\ ~(n <= A) => Len(x) = 0
      /\ n <= B => Len(y) = 1 /\ y[1] = b[n]
      /\ ~(n <= B) => Len(y) = 0
  BY NthIs
<1>3. /\ Len(u) = Less(n - 1, A) + Less(n - 1, B)
      /\ \A i \in 1..Less(n - 1, A) : u[i + Less(i - 1, B)] = a[i]
      /\ \A i \in 1..Less(n - 1, B) : u[i + Less(i, A)] = b[i]
  BY DEF InTurns
<1>. HIDE DEF A, B, x, y
<1>4. v \in Seq(T) /\ Len(v) = Len(x) + Len(y)
      /\ \A i \in 1..Len(x) + Len(y) : v[i] = IF i <= Len(x) THEN x[i] ELSE y[i - Len(x)]
  BY <1>2, ConcatProperties
<1>. HIDE DEF v
<1>5. Len(w) = Len(u) + Len(v)
      /\ \A i \in 1..Len(u) + Len(v) : w[i] = IF i <= Len(u) THEN u[i] ELSE v[i - Len(u)]
  BY <1>4, ConcatProperties
<1>. HIDE DEF w
<1>6. Len(x) = (IF n <= A THEN 1 ELSE 0) /\ Len(y) = IF n <= B THEN 1 ELSE 0
  BY <1>2
<1>7. Len(w) = Less(n, A) + Less(n, B)
  BY <1>1, <1>3, <1>4, <1>5, <1>6 DEF Less
<1>8. ASSUME NEW i \in 1..Less(n, A) PROVE w[i + Less(i - 1, B)] = a[i]
  <2>1. CASE i <= n - 1
    <3>1. i \in 1..Less(n - 1, A)
      BY <1>1, <2>1 DEF Less
    <3>2. i + Less(i - 1, B) \in 1..Len(u)
      BY <1>1, <1>3, <3>1 DEF Less
    <3>3. w[i + Less(i - 1, B)] = u[i + Less(i - 1, B)]
      <4>. DEFINE k == i + Less(i - 1, B)
      <4>1. k \in 1..Len(u) /\ k \in 1..Len(u) + Len(v) /\ k <= Len(u)
        BY <1>1, <1>3, <1>4, <1>6, <3>2 DEF Less
      <4>. HIDE DEF k
      <4>2. w[k] = u[k]
        BY <1>5, <4>1
      <4>. QED  BY <4>2 DEF k
    <3>. QED  BY <1>3, <3>1, <3>3
  <2>2. CASE i = n
    <3>1. n <= A
      BY <1>1, <2>2 DEF Less
    <3>. DEFINE k == i + Less(i - 1, B)
    <3>2. k = Len(u) + 1 /\ Len(u) \in Nat /\ 1 <= Len(x) /\ Len(v) >= 1 /\ Len(x) + Len(y) >= 1
      BY <1>1, <1>3, <1>4, <1>6, <2>2, <3>1 DEF Less
    <3>. HIDE DEF k
    <3>3. k \in 1..Len(u) + Len(v) /\ ~(k <= Len(u)) /\ k - Len(u) = 1
      BY <1>4, <1>6, <3>2
    <3>4. w[k] = v[1]
      BY <1>5, <3>3
    <3>5. v[1] = x[1]
      BY <1>4, <1>6, <3>2
    <3>. QED  BY <1>2, <2>2, <3>1, <3>4, <3>5 DEF k
  <2>3. i <= n - 1 \/ i = n
    BY <1>1 DEF Less
  <2>. QED  BY <2>1, <2>2, <2>3
<1>9. ASSUME NEW i \in 1..Less(n, B) PROVE w[i + Less(i, A)] = b[i]
  <2>1. CASE i <= n - 1
    <3>1. i \in 1..Less(n - 1, B)
      BY <1>1, <2>1 DEF Less
    <3>3. w[i + Less(i, A)] = u[i + Less(i, A)]
      <4>. DEFINE k == i + Less(i, A)
      <4>1. k \in 1..Len(u) + Len(v) /\ k <= Len(u)
        BY <1>1, <1>3, <1>4, <1>6, <3>1 DEF Less
      <4>. HIDE DEF k
      <4>2. w[k] = u[k]
        BY <1>5, <4>1
      <4>. QED  BY <4>2 DEF k
    <3>. QED  BY <1>3, <3>1, <3>3
  <2>2. CASE i = n
    <3>1. n <= B
      BY <1>1, <2>2 DEF Less
    <3>. DEFINE k == i + Less(i, A)
    <3>2. k = Len(u) + Len(x) + 1 /\ Len(u) \in Nat /\ Len(x) \in Nat /\ Len(y) = 1
      BY <1>1, <1>3, <1>6, <2>2, <3>1 DEF Less
    <3>. HIDE DEF k
    <3>3. k \in 1..Len(u) + Len(v) /\ ~(k <= Len(u)) /\ k - Len(u) = Len(x) + 1
      BY <1>4, <3>2
    <3>4. w[k] = v[Len(x) + 1]
      BY <1>5, <3>3
    <3>5. v[Len(x) + 1] = y[1]
      <4>1. Len(x) + 1 \in 1..Len(x) + Len(y) /\ ~(Len(x) + 1 <= Len(x)) /\ Len(x) + 1 - Len(x) = 1
        BY <3>2
      <4>. QED  BY <1>4, <4>1
    <3>. QED  BY <1>2, <2>2, <3>1, <3>4, <3>5 DEF k
  <2>3. i <= n - 1 \/ i = n
    BY <1>1 DEF Less
  <2>. QED  BY <2>1, <2>2, <2>3
<1>10. InTurns(w, a, b, n)
  BY <1>7, <1>8, <1>9 DEF InTurns, A, B
<1>. QED  BY <1>10 DEF w, v, x, y

LEMMA TurnsRightIs ==
    ASSUME NEW T, NEW a \in Seq(T), NEW b \in Seq(T)
    PROVE  TurnsRight(a, b, RoundRobin(<<a, b>>))
<1>. DEFINE A == Len(a)
            B == Len(b)
            out == RoundRobin(<<a, b>>)
<1>1. A \in Nat /\ B \in Nat /\ DOMAIN a = 1..A /\ DOMAIN b = 1..B
  BY LenProperties
<1>2. PICK h : \E M : Rounds(h, a, b, M, T)
  BY RoundRobinRuns
<1>3. PICK M : Rounds(h, a, b, M, T)
  BY <1>2
<1>. HIDE DEF A, B, out
<1>4. /\ M \in Nat /\ A <= M /\ B <= M /\ h[0] = <<>> /\ h[M] = out
      /\ \A n \in 1..M : h[n] = h[n - 1] \o (Nth(a, n) \o Nth(b, n))
      /\ \A n \in 0..M : h[n] \in Seq(T)
  BY <1>3 DEF Rounds, A, B, out
<1>. DEFINE G == {n \in 0..M : InTurns(h[n], a, b, n)}
<1>5. 0 \in G
  <2>1. Less(0, A) = 0 /\ Less(0, B) = 0 /\ Len(<<>>) = 0 /\ 1..0 = {} /\ 0 \in 0..M
    BY <1>1, <1>4 DEF Less
  <2>2. InTurns(h[0], a, b, 0)
    BY <1>4, <2>1 DEF InTurns, A, B
  <2>. QED  BY <2>1, <2>2
<1>6. ASSUME NEW n \in 1..M, n - 1 \in G PROVE n \in G
  <2>1. n - 1 \in 0..M /\ n \in 0..M /\ n \in Nat \ {0}
    BY <1>4
  <2>2. h[n - 1] \in Seq(T) /\ h[n] = h[n - 1] \o (Nth(a, n) \o Nth(b, n))
    BY <1>4, <2>1
  <2>3. InTurns(h[n], a, b, n)
    BY <1>6, <2>1, <2>2, NextRound
  <2>. QED  BY <2>1, <2>3
<1>7. M \in G
  <2>1. \A n \in 0..M : n \in G
    <3>. HIDE DEF G
    <3>. QED  BY <1>4, <1>5, <1>6, UpTo
  <2>. QED  BY <1>4, <2>1
<1>8. Less(M, A) = A /\ Less(M, B) = B
  BY <1>1, <1>4 DEF Less
<1>9. /\ Len(out) = A + B
      /\ \A i \in 1..A : out[i + Less(i - 1, B)] = a[i]
      /\ \A i \in 1..B : out[i + Less(i, A)] = b[i]
  BY <1>4, <1>7, <1>8 DEF InTurns, A, B
<1>10. /\ \A i \in 1..A : Min({i - 1, B}) = Less(i - 1, B)
       /\ \A i \in 1..B : Min({i, A}) = Less(i, A)
  BY <1>1, MinIs DEF Less
<1>. QED  BY <1>1, <1>9, <1>10 DEF TurnsRight, A, B, out

\* p and q: where the items of out, and those left in the pool, stand in s.
Places(out, pool, s, n, p, q) ==
    /\ Len(out) = n /\ p \in [1..n -> 1..Len(s)] /\ q \in [1..Len(s) - n -> 1..Len(s)]
    /\ \A i \in 1..n : out[i] = s[p[i]]
    /\ \A i \in 1..Len(s) - n : pool[i] = s[q[i]]
    /\ \A i \in 1..n, j \in 1..n : p[i] = p[j] => i = j
    /\ \A i \in 1..n, j \in 1..Len(s) - n : p[i] # q[j]
    /\ \A i \in 1..Len(s) - n, j \in 1..Len(s) - n : i < j => q[i] < q[j]

\* The items of an artist keep their order, and two of them are neighbours only
\* when all that follows, the pool included, is theirs.
Spaced(out, pool, s, n, p, q) ==
    /\ \A i \in 1..n, j \in 1..n : i < j /\ ArtistOf[out[i]] = ArtistOf[out[j]] => p[i] < p[j]
    /\ \A i \in 1..n, j \in 1..Len(s) - n : ArtistOf[out[i]] = ArtistOf[pool[j]] => p[i] < q[j]
    /\ \A i \in 1..n - 1 : ArtistOf[out[i]] = ArtistOf[out[i + 1]] =>
           /\ \A m \in i..n : ArtistOf[out[m]] = ArtistOf[out[i]]
           /\ \A j \in 1..Len(s) - n : ArtistOf[pool[j]] = ArtistOf[out[i]]

LEMMA SpreadStep ==
    ASSUME NEW T, NEW s \in Seq(T), NEW n \in 1..Len(s), NEW out \in Seq(T), NEW pool \in Seq(T),
           Len(pool) = Len(s) - (n - 1), NEW p, NEW q,
           Places(out, pool, s, n - 1, p, q), Spaced(out, pool, s, n - 1, p, q),
           NEW out2 \in Seq(T), NEW pool2 \in Seq(T),
           Moved([out |-> out, pool |-> pool]) = [out |-> out2, pool |-> pool2]
    PROVE  \E p2 : \E q2 : Places(out2, pool2, s, n, p2, q2) /\ Spaced(out2, pool2, s, n, p2, q2)
<1>. DEFINE N == Len(s)
            i == NextOf(out, pool)
            p2 == [k \in 1..n |-> IF k = n THEN q[i] ELSE p[k]]
            q2 == [k \in 1..N - n |-> q[IF k < i THEN k ELSE k + 1]]
            L == N - (n - 1)
            A(x) == ArtistOf[x]
<1>1. N \in Nat /\ n \in 1..N /\ Len(pool) = L /\ L = N - n + 1 /\ L \in 1..N
  BY LenProperties
<1>. HIDE DEF N
<1>2. pool # <<>>
  <2>1. Len(pool) # 0
    BY <1>1
  <2>. QED  BY <2>1, EmptySeq
<1>3. /\ i \in 1..L
      /\ \/ /\ i = 1 /\ out # <<>>
            /\ \A k \in 1..L : A(pool[k]) = A(Last(out))
         \/ /\ out # <<>> => A(pool[i]) # A(Last(out))
            /\ \A k \in 1..L : k < i => out # <<>> /\ A(pool[k]) = A(Last(out))
  BY <1>1, <1>2, NextOfIs
<1>4. out2 = Append(out, pool[i]) /\ pool2 = RemoveAt(pool, i)
  BY DEF Moved
<1>5. /\ Len(out) = n - 1 /\ p \in [1..n - 1 -> 1..N] /\ q \in [1..L -> 1..N]
      /\ \A k \in 1..n - 1 : out[k] = s[p[k]]
      /\ \A k \in 1..L : pool[k] = s[q[k]]
      /\ \A k \in 1..n - 1, j \in 1..n - 1 : p[k] = p[j] => k = j
      /\ \A k \in 1..n - 1, j \in 1..L : p[k] # q[j]
      /\ \A k \in 1..L, j \in 1..L : k < j => q[k] < q[j]
  BY DEF Places, N
<1>6. /\ \A k \in 1..n - 1, j \in 1..n - 1 : k < j /\ A(out[k]) = A(out[j]) => p[k] < p[j]
      /\ \A k \in 1..n - 1, j \in 1..L : A(out[k]) = A(pool[j]) => p[k] < q[j]
      /\ \A k \in 1..n - 2 : A(out[k]) = A(out[k + 1]) =>
             /\ \A m \in k..n - 1 : A(out[m]) = A(out[k])
             /\ \A j \in 1..L : A(pool[j]) = A(out[k])
  <2>1. n - 1 - 1 = n - 2
    BY <1>1
  <2>. QED  BY <2>1 DEF Spaced, N
<1>. HIDE DEF i, L
<1>7. pool[i] \in T
  BY <1>1, <1>3, ElementOfSeq
<1>8. /\ Len(out2) = n /\ out2[n] = pool[i] /\ \A k \in 1..n - 1 : out2[k] = out[k]
  <2>1. Len(out) + 1 = n
    BY <1>1, <1>5
  <2>. QED  BY <1>4, <1>5, <1>7, <2>1, AppendProperties
<1>9. \A k \in 1..N - n : pool2[k] = pool[IF k < i THEN k ELSE k + 1]
  <2>1. Len(pool) - 1 = N - n /\ i \in 1..Len(pool)
    BY <1>1, <1>3
  <2>. QED  BY <1>4, <2>1, RemoveAtIs
<1>10. \A k \in 1..N - n : /\ (IF k < i THEN k ELSE k + 1) \in 1..L
                           /\ (IF k < i THEN k ELSE k + 1) # i
  BY <1>1, <1>3
<1>11. out # <<>> <=> n - 1 # 0
  BY <1>5, EmptySeq
<1>12. out # <<>> => Last(out) = out[n - 1]
  BY <1>5 DEF Last
<1>13. /\ p2 \in [1..n -> 1..N] /\ p2[n] = q[i]
       /\ \A k \in 1..n - 1 : p2[k] = p[k] /\ k \in 1..n
  BY <1>1, <1>3, <1>5
<1>14. /\ q2 \in [1..N - n -> 1..N]
       /\ \A k \in 1..N - n : q2[k] = q[IF k < i THEN k ELSE k + 1]
  BY <1>1, <1>5, <1>10
<1>. HIDE DEF p2, q2, A
<1>15. \A k \in 1..n : k \in 1..n - 1 \/ k = n
  BY <1>1
<1>16. Places(out2, pool2, s, n, p2, q2)
  <2>1. \A k \in 1..n : out2[k] = s[p2[k]]
    <3>1. out2[n] = s[p2[n]]
      <4>1. pool[i] = s[q[i]]
        BY <1>3, <1>5
      <4>. QED  BY <1>8, <1>13, <4>1
    <3>2. ASSUME NEW k \in 1..n - 1 PROVE out2[k] = s[p2[k]]
      <4>1. out[k] = s[p[k]]
        BY <1>5
      <4>2. p2[k] = p[k] /\ out2[k] = out[k]
        BY <1>8, <1>13
      <4>. QED  BY <4>1, <4>2, Zenon
    <3>. QED  BY <1>15, <3>1, <3>2
  <2>2. ASSUME NEW k \in 1..N - n PROVE pool2[k] = s[q2[k]]
    <3>. DEFINE l == IF k < i THEN k ELSE k + 1
    <3>1. l \in 1..L /\ pool2[k] = pool[l] /\ q2[k] = q[l]
      BY <1>9, <1>10, <1>14
    <3>. HIDE DEF l
    <3>2. pool[l] = s[q[l]]
      BY <1>5, <3>1
    <3>. QED  BY <3>1, <3>2, Zenon
  <2>3. ASSUME NEW k \in 1..n, NEW j \in 1..n, p2[k] = p2[j] PROVE k = j
    <3>1. \A m \in 1..n - 1 : p2[m] # p2[n]
      BY <1>3, <1>5, <1>13
    <3>2. k \in 1..n - 1 /\ j \in 1..n - 1 => k = j
      BY <1>5, <1>13, <2>3
    <3>. QED  BY <1>15, <2>3, <3>1, <3>2
  <2>4. ASSUME NEW k \in 1..n, NEW j \in 1..N - n PROVE p2[k] # q2[j]
    <3>. DEFINE l == IF j < i THEN j ELSE j + 1
    <3>1. l \in 1..L /\ l # i /\ q2[j] = q[l]
      BY <1>10, <1>14
    <3>. HIDE DEF l
    <3>2. CASE k \in 1..n - 1
      BY <1>5, <1>13, <3>1, <3>2
    <3>3. CASE k = n
      <4>1. l < i \/ i < l
        BY <1>1, <1>3, <3>1
      <4>2. q[l] < q[i] \/ q[i] < q[l]
        BY <1>3, <1>5, <3>1, <4>1
      <4>3. q[l] \in 1..N /\ q[i] \in 1..N
        BY <1>3, <1>5, <3>1
      <4>. QED  BY <1>1, <1>13, <3>1, <3>3, <4>2, <4>3
    <3>. QED  BY <1>15, <3>2, <3>3
  <2>5. ASSUME NEW k \in 1..N - n, NEW j \in 1..N - n, k < j PROVE q2[k] < q2[j]
    <3>. DEFINE l == IF j < i THEN j ELSE j + 1
                m == IF k < i THEN k ELSE k + 1
    <3>1. l \in 1..L /\ m \in 1..L /\ q2[j] = q[l] /\ q2[k] = q[m]
      BY <1>10, <1>14
    <3>2. m < l
      BY <1>1, <1>3, <2>5
    <3>. HIDE DEF l, m
    <3>. QED  BY <1>5, <3>1, <3>2
  <2>. QED  BY <1>8, <1>13, <1>14, <2>1, <2>2, <2>3, <2>4, <2>5 DEF Places, N
<1>17. ASSUME NEW k \in 1..n, NEW j \in 1..n, k < j, A(out2[k]) = A(out2[j]) PROVE p2[k] < p2[j]
  <2>1. k \in 1..n - 1
    BY <1>1, <1>17
  <2>2. CASE j \in 1..n - 1
    BY <1>6, <1>8, <1>13, <1>17, <2>1, <2>2
  <2>3. CASE j = n
    BY <1>3, <1>6, <1>8, <1>13, <1>17, <2>1, <2>3
  <2>. QED  BY <1>15, <2>2, <2>3
<1>18. ASSUME NEW k \in 1..n, NEW j \in 1..N - n, A(out2[k]) = A(pool2[j]) PROVE p2[k] < q2[j]
  <2>. DEFINE l == IF j < i THEN j ELSE j + 1
  <2>1. l \in 1..L /\ l # i /\ q2[j] = q[l] /\ pool2[j] = pool[l]
    BY <1>9, <1>10, <1>14
  <2>. HIDE DEF l
  <2>2. CASE k \in 1..n - 1
    BY <1>6, <1>8, <1>13, <1>18, <2>1, <2>2
  <2>3. CASE k = n
    <3>1. A(pool[i]) = A(pool[l])
      BY <1>8, <1>18, <2>1, <2>3
    <3>2. ~(l < i)
      <4>1. SUFFICES ASSUME l < i PROVE FALSE
        OBVIOUS
      <4>2. l # 1 \/ i # 1
        BY <4>1, <1>1, <1>3, <2>1
      <4>3. i # 1
        BY <4>1, <1>1, <1>3, <2>1
      <4>. QED  BY <1>3, <2>1, <3>1, <4>1, <4>3
    <3>3. i < l
      BY <1>1, <1>3, <2>1, <3>2
    <3>. QED  BY <1>3, <1>5, <1>13, <2>1, <2>3, <3>3
  <2>. QED  BY <1>15, <2>2, <2>3
<1>19. ASSUME NEW k \in 1..n - 1, A(out2[k]) = A(out2[k + 1])
       PROVE  /\ \A m \in k..n : A(out2[m]) = A(out2[k])
              /\ \A j \in 1..N - n : A(pool2[j]) = A(out2[k])
  <2>1. ASSUME NEW m \in k..n PROVE m = n \/ (m \in k..n - 1 /\ m \in 1..n - 1)
    BY <1>1
  <2>2. CASE k \in 1..n - 2
    <3>1. k \in 1..n - 1 /\ k + 1 \in 1..n - 1
      BY <1>1, <2>2
    <3>2. A(out[k]) = A(out[k + 1])
      BY <1>8, <1>19, <3>1
    <3>3. /\ \A m \in k..n - 1 : A(out[m]) = A(out[k])
          /\ \A j \in 1..L : A(pool[j]) = A(out[k])
      BY <1>6, <2>2, <3>2
    <3>4. A(out2[n]) = A(out2[k])
      BY <1>3, <1>8, <3>1, <3>3
    <3>5. \A m \in k..n : A(out2[m]) = A(out2[k])
      BY <1>8, <2>1, <3>1, <3>3, <3>4
    <3>6. ASSUME NEW j \in 1..N - n PROVE A(pool2[j]) = A(out2[k])
      <4>. DEFINE l == IF j < i THEN j ELSE j + 1
      <4>1. l \in 1..L /\ pool2[j] = pool[l]
        BY <1>9, <1>10
      <4>. HIDE DEF l
      <4>. QED  BY <1>8, <3>1, <3>3, <4>1
    <3>. QED  BY <3>5, <3>6
  <2>3. CASE k = n - 1
    <3>1. k \in 1..n - 1 /\ k + 1 = n /\ n - 1 # 0
      BY <1>1, <2>3
    <3>2. out # <<>> /\ Last(out) = out[k]
      BY <1>11, <1>12, <2>3, <3>1
    <3>3. A(out[k]) = A(pool[i])
      BY <1>8, <1>19, <3>1
    <3>4. \A j \in 1..L : A(pool[j]) = A(out[k])
      BY <1>3, <3>2, <3>3
    <3>5. \A m \in k..n : A(out2[m]) = A(out2[k])
      <4>1. \A m \in k..n : m = k \/ m = n
        BY <1>1, <2>3
      <4>. QED  BY <1>19, <3>1, <4>1
    <3>6. ASSUME NEW j \in 1..N - n PROVE A(pool2[j]) = A(out2[k])
      <4>. DEFINE l == IF j < i THEN j ELSE j + 1
      <4>1. l \in 1..L /\ pool2[j] = pool[l]
        BY <1>9, <1>10
      <4>. HIDE DEF l
      <4>. QED  BY <1>8, <3>1, <3>4, <4>1
    <3>. QED  BY <3>5, <3>6
  <2>4. k \in 1..n - 2 \/ k = n - 1
    BY <1>1
  <2>. QED  BY <2>2, <2>3, <2>4
<1>20. Spaced(out2, pool2, s, n, p2, q2)
  BY <1>17, <1>18, <1>19 DEF Spaced, N, A
<1>. QED  BY <1>16, <1>20

LEMMA SpreadStart ==
    ASSUME NEW T, NEW s \in Seq(T)
    PROVE  \E p : \E q : Places(<<>>, s, s, 0, p, q) /\ Spaced(<<>>, s, s, 0, p, q)
<1>. DEFINE N == Len(s)
            p == [i \in 1..0 |-> 1]
            q == [i \in 1..N |-> i]
<1>1. N \in Nat /\ N - 0 = N /\ 1..0 = {} /\ Len(<<>>) = 0 /\ 1..0 - 1 = {}
  BY LenProperties
<1>2. p \in [1..0 -> 1..N] /\ q \in [1..N -> 1..N] /\ \A i \in 1..N : q[i] = i
  BY <1>1
<1>. HIDE DEF p, q, N
<1>3. Places(<<>>, s, s, 0, p, q)
  BY <1>1, <1>2 DEF Places, N
<1>4. Spaced(<<>>, s, s, 0, p, q)
  BY <1>1 DEF Spaced, N
<1>. QED  BY <1>3, <1>4

LEMMA SpreadRightIs ==
    ASSUME NEW s \in Seq(Tracks)
    PROVE  SpreadRight(s)
<1>. DEFINE N == Len(s)
            Good(n, r) == \E p : \E q : /\ Places(r.out, r.pool, s, n, p, q)
                                        /\ Spaced(r.out, r.pool, s, n, p, q)
<1>1. N \in Nat /\ DOMAIN s = 1..N
  BY LenProperties
<1>2. PICK h : SpreadPasses(h, s, Tracks)
  BY SpreadRuns
<1>. HIDE DEF N
<1>3. /\ h[0].out = <<>> /\ h[0].pool = s /\ h[N].out = SpreadArtists(s)
      /\ \A n \in 1..N : h[n] = Moved(h[n - 1])
      /\ \A n \in 0..N : h[n].out \in Seq(Tracks) /\ h[n].pool \in Seq(Tracks) /\ Len(h[n].pool) = N - n
  BY <1>2 DEF SpreadPasses, N
<1>. DEFINE G == {n \in 0..N : Good(n, h[n])}
<1>4. 0 \in G
  <2>1. Good(0, h[0])
    BY <1>3, SpreadStart
  <2>. HIDE DEF Good
  <2>. QED  BY <1>1, <2>1
<1>5. ASSUME NEW n \in 1..N, n - 1 \in G PROVE n \in G
  <2>. DEFINE out == h[n - 1].out
              pool == h[n - 1].pool
              out2 == h[n].out
              pool2 == h[n].pool
  <2>1. n - 1 \in 0..N /\ n \in 0..N
    BY <1>1
  <2>2. /\ out \in Seq(Tracks) /\ pool \in Seq(Tracks) /\ Len(pool) = N - (n - 1)
        /\ out2 \in Seq(Tracks) /\ pool2 \in Seq(Tracks)
    BY <1>3, <2>1
  <2>3. Moved([out |-> out, pool |-> pool]) = [out |-> out2, pool |-> pool2]
    <3>1. h[n] = Moved(h[n - 1])
      BY <1>3
    <3>2. Moved(h[n - 1]) = [out |-> Append(out, pool[NextOf(out, pool)]), pool |-> RemoveAt(pool, NextOf(out, pool))]
      BY DEF Moved
    <3>3. Moved([out |-> out, pool |-> pool]) =
              [out |-> Append(out, pool[NextOf(out, pool)]), pool |-> RemoveAt(pool, NextOf(out, pool))]
      BY DEF Moved
    <3>. QED  BY <3>1, <3>2, <3>3
  <2>4. PICK p : \E q : Places(out, pool, s, n - 1, p, q) /\ Spaced(out, pool, s, n - 1, p, q)
    BY <1>5
  <2>5. PICK q : Places(out, pool, s, n - 1, p, q) /\ Spaced(out, pool, s, n - 1, p, q)
    BY <2>4
  <2>6. Good(n, h[n])
    <3>. HIDE DEF out, pool, out2, pool2
    <3>1. \E p2 : \E q2 : Places(out2, pool2, s, n, p2, q2) /\ Spaced(out2, pool2, s, n, p2, q2)
      BY <2>2, <2>3, <2>5, SpreadStep DEF N
    <3>. QED  BY <3>1 DEF out2, pool2
  <2>. HIDE DEF Good
  <2>. QED  BY <2>1, <2>6
<1>6. N \in G
  <2>1. \A n \in 0..N : n \in G
    <3>. HIDE DEF G
    <3>. QED  BY <1>1, <1>4, <1>5, UpTo
  <2>. QED  BY <1>1, <2>1
<1>. DEFINE out == SpreadArtists(s)
            pool == h[N].pool
<1>7. \E p : \E q : Places(out, pool, s, N, p, q) /\ Spaced(out, pool, s, N, p, q)
  BY <1>3, <1>6
<1>8. PICK p : \E q : Places(out, pool, s, N, p, q) /\ Spaced(out, pool, s, N, p, q)
  BY <1>7
<1>9. PICK q : Places(out, pool, s, N, p, q) /\ Spaced(out, pool, s, N, p, q)
  BY <1>8
<1>10. out \in Seq(Tracks)
  BY SpreadArtistsIs
<1>. HIDE DEF out, pool, Good
<1>11. /\ Len(out) = N /\ p \in [1..N -> 1..N]
       /\ \A i \in 1..N : out[i] = s[p[i]]
       /\ \A i \in 1..N, j \in 1..N : p[i] = p[j] => i = j
  BY <1>9 DEF Places, N
<1>12. DOMAIN out = DOMAIN s
  BY <1>1, <1>10, <1>11, LenProperties
<1>13. Rearranges(p, s, out)
  BY <1>1, <1>11, <1>12 DEF Rearranges
<1>14. \A i \in 1..N, j \in 1..N : i < j /\ ArtistOf[out[i]] = ArtistOf[out[j]] => p[i] < p[j]
  BY <1>9 DEF Spaced, N
<1>15. \A i \in 1..N - 1 : ArtistOf[out[i]] = ArtistOf[out[i + 1]] =>
           \A m \in i..N : ArtistOf[out[m]] = ArtistOf[out[i]]
  BY <1>9 DEF Spaced, N
<1>16. p \in [DOMAIN s -> DOMAIN s]
  BY <1>1, <1>11
<1>17. /\ \A i \in DOMAIN s, j \in DOMAIN s : i < j /\ ArtistOf[out[i]] = ArtistOf[out[j]] => p[i] < p[j]
       /\ \A i \in 1..Len(s) - 1 : ArtistOf[out[i]] = ArtistOf[out[i + 1]] =>
              \A m \in i..Len(s) : ArtistOf[out[m]] = ArtistOf[out[i]]
  BY <1>1, <1>14, <1>15 DEF N
<1>. QED  BY <1>13, <1>16, <1>17 DEF SpreadRight, out

LEMMA ListsRead ==
    ASSUME Shape
    PROVE  /\ Uris(target) \in Seq(Tracks) /\ target \in Seq(Tracks \cup {NoItem})
           /\ Uris(job.b) \in Seq(Tracks) /\ Range(Uris(job.b)) = Range(job.b) \cap Tracks
<1>1. Uris(target) \in Seq(Tracks) /\ target \in Seq(Tracks \cup {NoItem})
  BY InputsIs, SeqMonotonic
<1>2. job.b \in Seq(Tracks \cup {NoItem})
  <2>1. job.b \in Seq(IF job.tool \in {"set_ops", "blend"} THEN Tracks \cup {NoItem} ELSE Tracks)
    BY BuildAssumption DEF BuildAssumption, Shape
  <2>2. Tracks \subseteq Tracks \cup {NoItem}
    OBVIOUS
  <2>. QED  BY <2>1, <2>2, SeqMonotonic
<1>3. Uris(job.b) \in Seq(Tracks \cup {NoItem}) /\ Range(Uris(job.b)) = Range(job.b) \cap Tracks
  BY <1>2, KeptIs DEF Uris
<1>4. Range(Uris(job.b)) \subseteq Tracks
  BY <1>3
<1>5. Uris(job.b) \in Seq(Tracks)
  BY <1>3, <1>4, InSeq
<1>. QED  BY <1>1, <1>3, <1>5

LEMMA AppendedIs ==
    ASSUME NEW T, NEW a \in Seq(T), NEW b \in Seq(T)
    PROVE  FlattenSeq(<<a, b>>) = a \o b
<1>1. <<a, b>> \in Seq(Seq(T)) /\ Len(<<a, b>>) = 2 /\ <<a, b>>[1] = a /\ <<a, b>>[2] = b
  BY PairIs
<1>2. FlattenSeq(<<a, b>>) = <<a, b>>[1] \o <<a, b>>[2]
  BY <1>1, FlattenPair
<1>. QED  BY <1>1, <1>2

LEMMA OrderingsIs ==
    ASSUME Shape
    PROVE  OrderingsRight
<1>. DEFINE uris == Uris(target)
            more == Uris(job.b)
<1>1. uris \in Seq(Tracks) /\ more \in Seq(Tracks)
  BY ListsRead
<1>2. job \in Jobs /\ ChunkSize \in Nat \ {0}
  BY BuildAssumption DEF BuildAssumption, Shape
<1>. HIDE DEF uris, more
<1>3. ASSUME job.tool = "sort", NEW plan \in Plans(job, target, {})
      PROVE  SortRight(uris, plan[1], job.opt = "descending")
  <2>1. plan = <<SortItems(uris, job.opt = "descending")>>
    BY <1>3 DEF Plans, uris
  <2>2. plan[1] = SortItems(uris, job.opt = "descending") /\ (job.opt = "descending") \in BOOLEAN
    BY <2>1
  <2>. QED  BY <1>1, <2>2, SortRightIs
<1>4. ShuffleRight(uris) /\ \A d \in Draws(Len(uris)) : SpreadRight(FisherYates(uris, d))
  BY <1>1, FisherYatesIs, ShuffleRightIs, SpreadRightIs
<1>5. ASSUME job.tool = "blend", NEW plan \in Plans(job, target, {})
      PROVE  CASE job.opt = "append" -> EachOnce(uris \o more, plan[1])
               [] job.opt = "interleave" -> EachOnce(RoundRobin(<<uris, more>>), plan[1])
               [] job.opt = "interleave_all" -> TurnsRight(uris, more, plan[1])
  <2>1. plan = <<Blended(<<uris, more>>, job.opt)>>
    BY <1>5 DEF Plans, uris, more
  <2>2. plan[1] = Blended(<<uris, more>>, job.opt)
    BY <2>1
  <2>3. job.opt \in {"append", "interleave", "interleave_all"}
    BY <1>2, <1>5, BuildAssumption DEF BuildAssumption
  <2>4. CASE job.opt = "append"
    <3>1. uris \o more \in Seq(Tracks) /\ FlattenSeq(<<uris, more>>) = uris \o more
      BY <1>1, ConcatProperties, AppendedIs
    <3>2. plan[1] = Firsts(uris \o more)
      BY <2>2, <2>4, <3>1 DEF Blended
    <3>3. EachOnce(uris \o more, plan[1])
      BY <3>1, <3>2, EachOnceIs
    <3>. QED  BY <2>4, <3>3
  <2>5. CASE job.opt = "interleave"
    <3>1. RoundRobin(<<uris, more>>) \in Seq(Tracks)
      BY <1>1, RoundRobinIs
    <3>2. plan[1] = Firsts(RoundRobin(<<uris, more>>))
      BY <2>2, <2>5 DEF Blended
    <3>3. EachOnce(RoundRobin(<<uris, more>>), plan[1])
      BY <3>1, <3>2, EachOnceIs
    <3>. QED  BY <2>5, <3>3
  <2>6. CASE job.opt = "interleave_all"
    <3>1. plan[1] = RoundRobin(<<uris, more>>)
      BY <2>2, <2>6 DEF Blended
    <3>2. TurnsRight(uris, more, plan[1])
      BY <1>1, <3>1, TurnsRightIs
    <3>. QED  BY <2>6, <3>2
  <2>. QED  BY <2>3, <2>4, <2>5, <2>6
<1>6. ASSUME job.tool = "split", NEW plan \in Plans(job, target, {})
      PROVE  SplitRight(uris, plan)
  <2>1. plan = Chunks(uris, ChunkSize)
    BY <1>6 DEF Plans, uris
  <2>. QED  BY <1>1, <1>2, <2>1, SplitRightIs
<1>. QED  BY <1>3, <1>4, <1>5, <1>6 DEF OrderingsRight, uris, more

LEMMA SelectionsIs ==
    ASSUME Shape
    PROVE  SelectionsRight
<1>. DEFINE a == Uris(target)
            b == Uris(job.b)
<1>1. /\ a \in Seq(Tracks) /\ target \in Seq(Tracks \cup {NoItem})
      /\ b \in Seq(Tracks) /\ Range(b) = Range(job.b) \cap Tracks
  BY ListsRead
<1>2. job \in Jobs
  BY DEF Shape
<1>. HIDE DEF a, b
<1>3. ASSUME job.tool = "prune", NEW plan \in Plans(job, target, {})
      PROVE  Selects(target, Tracks \ Local, plan[1])
  <2>1. plan = <<Pruned(target)>>
    BY <1>3 DEF Plans
  <2>2. {x \in Tracks : ~Unavailable(x)} = Tracks \ Local
    BY AlgebraAssumption DEF AlgebraAssumption, Unavailable
  <2>3. plan[1] = Kept(target, Tracks \ Local)
    BY <2>1, <2>2 DEF Pruned
  <2>. QED  BY <1>1, <2>3, SelectsIs
<1>4. Without(a, Range(b)) = Kept(a, Tracks \ Range(b)) /\ Without(a, Range(job.b)) = Kept(a, Tracks \ Range(b))
  <2>1. Tracks \ Range(b) = Tracks \ Range(job.b)
    BY <1>1
  <2>. QED  BY <2>1 DEF Without
<1>5. ASSUME job.tool = "subtract_liked", NEW plan \in Plans(job, target, {})
      PROVE  Selects(a, Tracks \ Range(b), plan[1])
  <2>1. plan = <<Unliked(target, job.b)>>
    BY <1>5 DEF Plans
  <2>2. plan[1] = Kept(a, Tracks \ Range(b))
    BY <1>4, <2>1 DEF Unliked, SetOperation, a
  <2>. QED  BY <1>1, <2>2, SelectsIs
<1>6. ASSUME job.tool = "set_ops", NEW plan \in Plans(job, target, {})
      PROVE  CASE job.opt = "subtract" -> Selects(a, Tracks \ Range(b), plan[1])
               [] job.opt = "intersect" -> Selects(a, Range(b), plan[1])
               [] job.opt = "union" -> EachOnce(a \o b, plan[1])
  <2>1. plan = <<SetOperation(a, b, job.opt)>>
    BY <1>6 DEF Plans, Combined, a, b
  <2>2. plan[1] = SetOperation(a, b, job.opt)
    BY <2>1
  <2>3. job.opt \in {"subtract", "intersect", "union"}
    BY <1>2, <1>6, BuildAssumption DEF BuildAssumption
  <2>4. CASE job.opt = "subtract"
    <3>1. plan[1] = Kept(a, Tracks \ Range(b))
      BY <1>4, <2>2, <2>4 DEF SetOperation
    <3>2. Selects(a, Tracks \ Range(b), plan[1])
      BY <1>1, <3>1, SelectsIs
    <3>. QED  BY <2>4, <3>2
  <2>5. CASE job.opt = "intersect"
    <3>1. plan[1] = Kept(a, Range(b))
      BY <2>2, <2>5 DEF SetOperation
    <3>2. Selects(a, Range(b), plan[1])
      BY <1>1, <3>1, SelectsIs
    <3>. QED  BY <2>5, <3>2
  <2>6. CASE job.opt = "union"
    <3>1. a \o b \in Seq(Tracks) /\ plan[1] = Firsts(a \o b)
      BY <1>1, <2>2, <2>6, ConcatProperties DEF SetOperation
    <3>2. EachOnce(a \o b, plan[1])
      BY <3>1, EachOnceIs
    <3>. QED  BY <2>6, <3>2
  <2>. QED  BY <2>3, <2>4, <2>5, <2>6
<1>. QED  BY <1>3, <1>5, <1>6 DEF SelectionsRight, a, b

\* What a tool decides to write is what its name promises, whatever it reads: a
\* sort is stable, a shuffle gives every order once, artists are spread as far as
\* a greedy pass can, lists are taken in turns, volumes are full and in order, a
\* selection keeps what it should and a union drops only repetitions.
THEOREM PlansTheorem == BuildSpec => []PlansRight
<1>1. BuildsInv => PlansRight
  BY OrderingsIs, SelectionsIs DEF BuildsInv, PlansRight
<1>. QED  BY <1>1, BuildsTheorem, PTL
=============================================================================
