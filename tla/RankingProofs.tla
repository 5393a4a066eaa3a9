---------------------------- MODULE RankingProofs ----------------------------
(* Proofs about Ranking: that scores order the chunks totally, and what the    *)
(* two sorts keep.                                                             *)
EXTENDS Ranking, FiniteSetTheorems, SequenceTheorems, WellFoundedInduction, TLAPS

(* Lists and what cutting them leaves. *)

\* A function on 1..m is a sequence of that length.
LEMMA ListIsSequence ==
    ASSUME NEW S, NEW m \in Nat, NEW s \in [1..m -> S]
    PROVE  s \in Seq(S) /\ Len(s) = m
  BY IsASeq, LenProperties

Kept(n, m) == IF n < m THEN n ELSE m

\* Truncate returns a prefix.
LEMMA Prefix ==
    ASSUME NEW S, NEW m \in Nat, NEW s \in [1..m -> S], NEW n \in Nat
    PROVE  /\ Kept(n, m) \in 0..n /\ Truncate(s, n) \in [1..Kept(n, m) -> S]
           /\ Len(Truncate(s, n)) = Kept(n, m)
           /\ \A i \in 1..Kept(n, m) : i \in 1..m /\ Truncate(s, n)[i] = s[i]
<1>1. Len(s) = m
  BY ListIsSequence
<1> DEFINE l == Kept(n, m)
<1>2. l \in Nat /\ l \in 0..n /\ l <= m
  BY DEF Kept
<1>3. Truncate(s, n) = [i \in 1..l |-> s[i]]
  BY <1>1 DEF Truncate, Kept
<1> HIDE DEF l
<1>4. \A i \in 1..l : i \in 1..m /\ s[i] \in S
  BY <1>2
<1>5. Truncate(s, n) \in [1..l -> S]
  BY <1>3, <1>4
<1>6. Len(Truncate(s, n)) = l
  BY <1>2, <1>5, ListIsSequence
<1> QED BY <1>2, <1>3, <1>4, <1>5, <1>6 DEF l

(* Scores. *)

LEMMA SparseFetchLimitType ==
    ASSUME NEW n \in Nat PROVE SparseFetchLimit(n) \in Nat
  BY RankingAssumption DEF SparseFetchLimit

\* Both lists of hits are lists of chunks.
LEMMA HitsAreChunks ==
    ASSUME TypeOK
    PROVE  /\ \E m \in Nat : Dense \in [1..m -> Chunk]
           /\ \E m \in Nat : Sparse \in [1..m -> Chunk]
           /\ k \in Nat
<1>1. Cardinality(Chunk) \in Nat
  BY RankingAssumption, FS_CardinalityType
<1>2. PICK a \in Nat : near \in [1..a -> Chunk]
  BY <1>1 DEF TypeOK, Rankings
<1>3. PICK b \in Nat : matching \in [1..b -> Chunk]
  BY <1>1 DEF TypeOK, Rankings
<1>4. k \in Nat /\ SparseFetchLimit(k) \in Nat
  BY RankingAssumption, SparseFetchLimitType DEF TypeOK
<1>5. \E m \in Nat : Dense \in [1..m -> Chunk]
  <2>1. Kept(k, a) \in Nat
    BY <1>4 DEF Kept
  <2>2. Truncate(near, k) \in [1..Kept(k, a) -> Chunk]
    BY <1>2, <1>4, Prefix
  <2> QED BY <2>1, <2>2 DEF Dense
<1>6. \E m \in Nat : Sparse \in [1..m -> Chunk]
  <2>1. Kept(SparseFetchLimit(k), b) \in Nat
    BY <1>4 DEF Kept
  <2>2. Truncate(matching, SparseFetchLimit(k)) \in [1..Kept(SparseFetchLimit(k), b) -> Chunk]
    BY <1>3, <1>4, Prefix
  <2> QED BY <2>1, <2>2 DEF Sparse
<1> QED BY <1>4, <1>5, <1>6

LEMMA EntriesAreChunks ==
    ASSUME TypeOK
    PROVE  /\ Entries \subseteq Chunk /\ IsFiniteSet(Entries)
           /\ Cardinality(Entries) \in Nat
<1>1. Entries \subseteq Chunk
  BY HitsAreChunks DEF Entries, Listed
<1> QED BY <1>1, RankingAssumption, FS_Subset, FS_CardinalityType

LEMMA Quotient ==
    ASSUME NEW n \in Nat PROVE Scale \div (RrfK + n) \in Nat
  BY DEF Scale, RrfK

LEMMA ContributionType ==
    ASSUME NEW m \in Nat, NEW s \in [1..m -> Chunk], NEW c \in Chunk
    PROVE  Contribution(s, c) \in Nat
<1>1. CASE c \in Listed(s)
  <2> DEFINE n == CHOOSE i \in DOMAIN s : s[i] = c
  <2>1. n \in Nat
    BY <1>1 DEF Listed
  <2> HIDE DEF n
  <2>2. Scale \div (RrfK + n) \in Nat
    BY <2>1, Quotient
  <2> QED BY <1>1, <2>2 DEF Contribution, n
<1>2. CASE c \notin Listed(s)
  BY <1>2 DEF Contribution
<1> QED BY <1>1, <1>2

LEMMA FusedScoreType ==
    ASSUME TypeOK PROVE FusedScore \in [Chunk -> Nat]
<1>1. \A c \in Chunk : Contribution(Dense, c) \in Nat /\ Contribution(Sparse, c) \in Nat
  BY HitsAreChunks, ContributionType
<1>2. \A c \in Chunk : Contribution(Dense, c) + Contribution(Sparse, c) \in Nat
  BY <1>1
<1> QED BY <1>2 DEF FusedScore

\* ComputeRecencyFactor is defined for whatever it is given, and returns a value
\* between the floor and one.
LEMMA FactorType ==
    ASSUME TypeOK, NEW c \in Chunk
    PROVE  RecencyFactor(c) \in Floor..Ceiling
<1>1. CASE IsFinite(Decayed(c))
  <2>1. Decayed(c) \in Nat
    BY <1>1 DEF IsFinite
  <2> QED BY <1>1, <2>1 DEF RecencyFactor, Clamp, Floor, Ceiling
<1>2. CASE ~IsFinite(Decayed(c))
  BY <1>2 DEF RecencyFactor, Floor, Ceiling
<1> QED BY <1>1, <1>2

\* Under a lambda that is not finite every factor is the floor: the exponential is
\* infinite or not a number, or is zero and below the floor.
LEMMA FloorUnlessFinite ==
    ASSUME lambda \notin Int, NEW c \in Chunk
    PROVE  RecencyFactor(c) = Floor
<1>1. Decayed(c) \in {0, Infinity, NaN}
  BY DEF Decayed
<1>2. CASE Decayed(c) = 0
  <2>1. MaxFinite \in Nat /\ IsFinite(0)
    BY RankingAssumption DEF IsFinite
  <2> QED BY <1>2, <2>1 DEF RecencyFactor, Clamp, Floor, Ceiling
<1>3. CASE Decayed(c) \in {Infinity, NaN}
  <2>1. Decayed(c) \notin Nat
    BY <1>3, RankingAssumption
  <2> QED BY <2>1 DEF RecencyFactor, IsFinite
<1> QED BY <1>1, <1>2, <1>3

\* Under a finite one the exponential is what Exp says it is.
LEMMA FiniteDecay ==
    ASSUME TypeOK, lambda \in Int, NEW c \in Chunk
    PROVE  /\ -(lambda * NonNegative(Age(c))) \in Exponent
           /\ Decayed(c) = Exp[-(lambda * NonNegative(Age(c)))]
           /\ Decayed(c) \in Nat
<1>1. -(lambda * NonNegative(Age(c))) \in Exponent
  BY ExponentAssumption DEF TypeOK, Age
<1>2. Decayed(c) = Exp[-(lambda * NonNegative(Age(c)))]
  <2>1. lambda # Infinity /\ lambda # MinusInfinity
    BY RankingAssumption
  <2> QED BY <2>1 DEF Decayed
<1> QED BY <1>1, <1>2, RankingAssumption

LEMMA DecayedScoreType ==
    ASSUME TypeOK PROVE DecayedScore \in [Chunk -> Nat]
<1>1. \A c \in Chunk : FusedScore[c] \in Nat /\ RecencyFactor(c) \in Nat
  BY FusedScoreType, FactorType DEF Floor, Ceiling
<1>2. \A c \in Chunk : FusedScore[c] * RecencyFactor(c) \in Nat
  BY <1>1
<1> QED BY <1>2 DEF DecayedScore

\* Score and key together leave no two chunks unordered, and no two both ways.
LEMMA TotalOrder ==
    ASSUME NEW score \in [Chunk -> Nat], NEW a \in Chunk, NEW b \in Chunk
    PROVE  /\ a # b => Outranks(score, a, b) \/ Outranks(score, b, a)
           /\ ~(Outranks(score, a, b) /\ Outranks(score, b, a))
           /\ ~Outranks(score, a, a)
<1>1. /\ a \in [document_id : Nat, chunk_index : Nat]
      /\ b \in [document_id : Nat, chunk_index : Nat]
  BY RankingAssumption
<1>2. a.document_id = b.document_id /\ a.chunk_index = b.chunk_index => a = b
  BY <1>1
<1>3. a # b => Precedes(a, b) \/ Precedes(b, a)
  BY <1>1, <1>2 DEF Precedes
<1>4. ~(Precedes(a, b) /\ Precedes(b, a)) /\ ~Precedes(a, a)
  BY <1>1 DEF Precedes
<1>5. score[a] \in Nat /\ score[b] \in Nat
  OBVIOUS
<1> QED BY <1>3, <1>4, <1>5 DEF Outranks

\* What a sort returns lists the set, each element above all that follow.
LEMMA SortedFacts ==
    ASSUME NEW score \in [Chunk -> Nat], NEW S \in SUBSET Chunk,
           Cardinality(S) \in Nat, NEW s \in Sorted(S, score)
    PROVE  /\ s \in [1..Cardinality(S) -> S]
           /\ Listed(s) = S
           /\ \A n, m \in DOMAIN s : n < m => Outranks(score, s[n], s[m])
<1>1. s \in [1..Cardinality(S) -> S]
  BY DEF Sorted
<1>2. Listed(s) = S
  BY <1>1 DEF Sorted, Listed
<1>3. ASSUME NEW n \in DOMAIN s, NEW m \in DOMAIN s, n < m
      PROVE  Outranks(score, s[n], s[m])
  <2>1. s[n] \in Chunk /\ s[m] \in Chunk /\ s[n] # s[m] /\ ~Outranks(score, s[m], s[n])
    BY <1>1, <1>3 DEF Sorted
  <2> QED BY <2>1, TotalOrder
<1> QED BY <1>1, <1>2, <1>3
-----------------------------------------------------------------------------
(* The invariant: the scores depend on the inputs alone, so what a search has *)
(* put in order stays in order.                                               *)

RankInv ==
    /\ TypeOK
    /\ StrictlyRanked
    /\ NoBetterLeftOut
    /\ MemoryPermutesHybrid
    /\ pc = "search" => fused = <<>>
    /\ pc # "ranked" => memory = <<>>

LEMMA InputsDecideScores ==
    ASSUME UNCHANGED inputs
    PROVE  /\ Dense' = Dense /\ Sparse' = Sparse /\ Entries' = Entries
           /\ FusedScore' = FusedScore /\ DecayedScore' = DecayedScore
<1>1. near' = near /\ matching' = matching /\ created' = created /\ k' = k /\ lambda' = lambda
  BY DEF inputs
<1>2. Dense' = Dense /\ Sparse' = Sparse
  BY <1>1 DEF Dense, Sparse
<1>3. Entries' = Entries /\ FusedScore' = FusedScore
  BY <1>2 DEF Entries, FusedScore
<1>4. DecayedScore' = DecayedScore
  BY <1>1, <1>3 DEF DecayedScore, RecencyFactor, Decayed, Age
<1> QED BY <1>2, <1>3, <1>4

LEMMA EmptyIsAList == \A n \in Nat : <<>> \in Lists(n)
<1>1. <<>> \in [1..0 -> Chunk]
  OBVIOUS
<1> QED BY <1>1 DEF Lists

LEMMA InitRanks == Init => RankInv
<1> SUFFICES ASSUME Init PROVE RankInv
  OBVIOUS
<1>1. k \in Nat
  BY RankingAssumption DEF Init
<1>2. TypeOK
  BY <1>1, EmptyIsAList DEF Init, TypeOK
<1>3. DOMAIN fused = {} /\ DOMAIN memory = {}
  BY DEF Init
<1> QED BY <1>2, <1>3 DEF Init, RankInv, StrictlyRanked, NoBetterLeftOut, MemoryPermutesHybrid

\* The k best of what a sort leaves: nothing that outranks one of them is cut off.
LEMMA FuseRanks ==
    ASSUME RankInv, Fuse PROVE RankInv'
<1>1. TypeOK /\ memory = <<>> /\ k \in Nat
  BY HitsAreChunks DEF RankInv, Fuse
<1>2. PICK s \in Sorted(Entries, FusedScore) : fused' = Truncate(s, k)
  BY DEF Fuse
<1> DEFINE size == Cardinality(Entries)
           kept == Kept(k, size)
<1>3. size \in Nat /\ Entries \in SUBSET Chunk
  BY <1>1, EntriesAreChunks
<1>4. /\ s \in [1..size -> Entries]
      /\ Listed(s) = Entries
      /\ \A n, m \in 1..size : n < m => Outranks(FusedScore, s[n], s[m])
  BY <1>1, <1>2, <1>3, FusedScoreType, SortedFacts
<1>5. /\ kept \in 0..k /\ fused' \in [1..kept -> Entries] /\ Len(fused') = kept
      /\ \A i \in 1..kept : i \in 1..size /\ fused'[i] = s[i]
  <2> HIDE DEF size
  <2>1. /\ Kept(k, size) \in 0..k /\ Truncate(s, k) \in [1..Kept(k, size) -> Entries]
        /\ Len(Truncate(s, k)) = Kept(k, size)
        /\ \A i \in 1..Kept(k, size) : i \in 1..size /\ Truncate(s, k)[i] = s[i]
    <3>1. k \in Nat /\ size \in Nat /\ s \in [1..size -> Entries]
      BY <1>1, <1>3, <1>4
    <3>2. Kept(k, size) \in 0..k
      BY <3>1, Prefix
    <3>3. Truncate(s, k) \in [1..Kept(k, size) -> Entries]
      BY <3>1, Prefix
    <3>4. Len(Truncate(s, k)) = Kept(k, size)
      BY <3>2, <3>3, <1>1, ListIsSequence
    <3>5. \A i \in 1..Kept(k, size) : i \in 1..size /\ Truncate(s, k)[i] = s[i]
      <4>1. Len(s) = size
        BY <3>1, ListIsSequence
      <4> QED BY <3>1, <4>1 DEF Truncate, Kept
    <3> QED BY <3>2, <3>3, <3>4, <3>5
  <2>2. /\ Kept(k, size) \in 0..k /\ fused' \in [1..Kept(k, size) -> Entries]
        /\ Len(fused') = Kept(k, size)
        /\ \A i \in 1..Kept(k, size) : i \in 1..size /\ fused'[i] = s[i]
    BY <1>2, <2>1, Zenon
  <2> QED BY <2>2
<1>6. UNCHANGED inputs /\ memory' = <<>> /\ pc' = "fused"
  BY <1>1 DEF Fuse
<1>7. /\ Dense' = Dense /\ Sparse' = Sparse /\ Entries' = Entries
      /\ FusedScore' = FusedScore /\ DecayedScore' = DecayedScore
  BY <1>6, InputsDecideScores
<1>8. TypeOK'
  <2>1. fused' \in [1..kept -> Chunk] /\ kept \in 0..k
    BY <1>3, <1>5
  <2> HIDE DEF kept
  <2>2. fused' \in Lists(k)
    BY <2>1 DEF Lists
  <2> QED BY <1>1, <1>6, <2>2, EmptyIsAList DEF TypeOK, inputs, Lists
<1>9. StrictlyRanked'
  <2>1. \A n, m \in DOMAIN fused' : n < m => Outranks(FusedScore, fused'[n], fused'[m])
    BY <1>4, <1>5
  <2>2. DOMAIN memory' = {}
    BY <1>6
  <2> QED BY <1>7, <2>1, <2>2 DEF StrictlyRanked, Outranks, Precedes
<1>10. NoBetterLeftOut'
  <2>1. ASSUME NEW c \in Entries, c \notin Listed(fused')
        PROVE  Len(fused') = k /\ \A n \in DOMAIN fused' : Outranks(FusedScore, fused'[n], c)
    <3>1. PICK j \in 1..size : c = s[j]
      BY <1>4, <2>1 DEF Listed
    <3>2. j \notin 1..kept
      BY <1>5, <2>1, <3>1 DEF Listed
    <3>3. kept = k /\ \A n \in 1..kept : n < j
      BY <1>1, <1>3, <3>2 DEF Kept
    <3> QED BY <1>4, <1>5, <3>1, <3>3
  <2>2. k' = k /\ Listed(fused)' = Listed(fused')
    BY <1>6 DEF inputs, Listed
  <2>3. \A c \in Entries' : \/ c \in Listed(fused)'
                            \/ /\ Len(fused') = k'
                               /\ \A n \in DOMAIN fused' : Outranks(FusedScore', fused'[n], c)
    BY <1>7, <2>1, <2>2, Zenon
  <2> QED BY <2>3 DEF NoBetterLeftOut, Entries, Outranks, Precedes
<1> QED BY <1>6, <1>8, <1>9, <1>10 DEF RankInv, MemoryPermutesHybrid

\* The decay puts the same chunks in another order.
LEMMA DecayRanks ==
    ASSUME RankInv, Decay PROVE RankInv'
<1>1. TypeOK /\ k \in Nat /\ pc = "fused"
  BY HitsAreChunks DEF RankInv, Decay
<1>2. UNCHANGED inputs /\ fused' = fused /\ pc' = "ranked"
  BY DEF Decay
<1>3. /\ Dense' = Dense /\ Sparse' = Sparse
      /\ FusedScore' = FusedScore /\ DecayedScore' = DecayedScore
  BY <1>2, InputsDecideScores
<1>4. PICK n \in 0..k : fused \in [1..n -> Chunk]
  BY <1>1 DEF TypeOK, Lists
<1> DEFINE S == Listed(fused)
<1>5. S \in SUBSET Chunk /\ Cardinality(S) \in 0..k
  <2>1. fused \in Surjection(1..n, S)
    BY <1>4 DEF Surjection, Listed
  <2>2. n \in Nat /\ n <= k
    BY <1>1, <1>4
  <2>3. ExistsSurjection(1..n, S)
    BY <2>1 DEF ExistsSurjection
  <2> HIDE DEF S
  <2>4. Cardinality(S) <= n
    BY <2>2, <2>3, FS_SurjCardinalityBound
  <2>5. S \in SUBSET Chunk
    BY <1>4 DEF S, Listed
  <2>6. Cardinality(S) \in Nat
    BY <2>5, RankingAssumption, FS_Subset, FS_CardinalityType
  <2> QED BY <1>1, <2>2, <2>4, <2>5, <2>6
<1>6. memory' \in Sorted(S, DecayedScore)
  BY DEF Decay
<1> HIDE DEF S
<1>7. /\ memory' \in [1..Cardinality(S) -> S]
      /\ Listed(memory') = S
      /\ \A i, j \in DOMAIN memory' : i < j => Outranks(DecayedScore, memory'[i], memory'[j])
  BY <1>1, <1>5, <1>6, DecayedScoreType, SortedFacts
<1>8. TypeOK'
  <2>1. memory' \in [1..Cardinality(S) -> Chunk]
    BY <1>5, <1>7
  <2>2. memory' \in Lists(k)
    BY <1>5, <2>1 DEF Lists
  <2> QED BY <1>1, <1>2, <2>2 DEF TypeOK, inputs, Lists
<1>9. StrictlyRanked'
  BY <1>2, <1>3, <1>7 DEF RankInv, StrictlyRanked, Outranks, Precedes
<1>10. NoBetterLeftOut'
  <2>1. k' = k
    BY <1>2 DEF inputs
  <2> QED BY <1>1, <1>2, <1>3, <2>1 DEF RankInv, NoBetterLeftOut, Outranks, Precedes
<1>11. MemoryPermutesHybrid'
  BY <1>2, <1>7 DEF MemoryPermutesHybrid, Listed, S
<1> QED BY <1>2, <1>8, <1>9, <1>10, <1>11 DEF RankInv

LEMMA StutterRanks ==
    ASSUME RankInv, UNCHANGED vars PROVE RankInv'
<1>1. UNCHANGED <<near, matching, created, k, lambda, pc, fused, memory>>
  BY DEF vars, inputs
<1>2. /\ Dense' = Dense /\ Sparse' = Sparse
      /\ FusedScore' = FusedScore /\ DecayedScore' = DecayedScore
  BY <1>1, InputsDecideScores DEF inputs
<1>3. TypeOK' = TypeOK
  BY <1>1 DEF TypeOK, Lists
<1>4. StrictlyRanked' = StrictlyRanked
  BY <1>1, <1>2 DEF StrictlyRanked, Outranks, Precedes
<1>5. NoBetterLeftOut' = NoBetterLeftOut
  BY <1>1, <1>2 DEF NoBetterLeftOut, Outranks, Precedes
<1>6. MemoryPermutesHybrid' = MemoryPermutesHybrid
  BY <1>1 DEF MemoryPermutesHybrid, Listed
<1> QED BY <1>1, <1>3, <1>4, <1>5, <1>6 DEF RankInv

\* The invariant of fusion and decay, of which the theorems below are parts.
THEOREM RankInvariant == Spec => []RankInv
<1>1. RankInv /\ [Next]_vars => RankInv'
  BY FuseRanks, DecayRanks, StutterRanks DEF Next, Finished
<1> QED BY <1>1, InitRanks, PTL DEF Spec

\* Every variable has its type, and no search returns more than k results.
THEOREM RankingTypeCorrect == Spec => []TypeOK
<1>1. RankInv => TypeOK
  BY DEF RankInv
<1> QED BY <1>1, RankInvariant, PTL

\* Both lists are strictly ordered by score and key: there is only one such list.
THEOREM ListsStrictlyRanked == Spec => []StrictlyRanked
<1>1. RankInv => StrictlyRanked
  BY DEF RankInv
<1> QED BY <1>1, RankInvariant, PTL

\* A hit that a hybrid search leaves out is outranked by k that it returns.
THEOREM BestKept == Spec => []NoBetterLeftOut
<1>1. RankInv => NoBetterLeftOut
  BY DEF RankInv
<1> QED BY <1>1, RankInvariant, PTL

\* A memory search returns the results of the hybrid search, reordered.
THEOREM MemoryKeepsHybrid == Spec => []MemoryPermutesHybrid
<1>1. RankInv => MemoryPermutesHybrid
  BY DEF RankInv
<1> QED BY <1>1, RankInvariant, PTL
-----------------------------------------------------------------------------
(* What the recency factor does to a score. *)

LEMMA Remainder ==
    ASSUME NEW m \in Nat \ {0}, NEW x \in 0..(m - 1) PROVE x % m = x
  OBVIOUS

LEMMA ProductsOrdered ==
    ASSUME NEW x \in Nat, NEW y \in Nat, NEW f \in Nat, NEW g \in Nat, y <= x, g <= f
    PROVE  y * g <= x * f
<1>1. y * g <= y * f
  OBVIOUS
<1>2. y * f <= x * f
  OBVIOUS
<1>3. y * g \in Nat /\ y * f \in Nat /\ x * f \in Nat
  OBVIOUS
<1> QED BY <1>1, <1>2, <1>3

\* An age that fits is computed as it is.
LEMMA AgeIsExact ==
    ASSUME TypeOK, NEW c \in Chunk, AgeFits(c)
    PROVE  Age(c) = Now - created[c] /\ Age(c) \in Int
<1> DEFINE half == Span \div 2
<1>1. Span \in Nat \ {0} /\ Now \in Int /\ created[c] \in Int
  BY RankingAssumption DEF TypeOK
<1>2. half \in Nat /\ half + half <= Span
  BY <1>1
<1>3. -half <= Now - created[c] /\ Now - created[c] < half
  BY DEF AgeFits
<1> HIDE DEF half
<1>4. Now - created[c] + half \in 0..(Span - 1)
  BY <1>1, <1>2, <1>3
<1>5. (Now - created[c] + half) % Span = Now - created[c] + half
  BY <1>1, <1>4, Remainder
<1>6. Age(c) = ((Now - created[c] + half) % Span) - half
  BY DEF Age, half
<1> QED BY <1>1, <1>2, <1>5, <1>6

\* Whatever lambda, the clock and the timestamps are, the factor keeps a score
\* between the floor and what it was; if lambda is finite, one from the future is
\* kept as it is, and if not, every one is at the floor.
LEMMA Discounts == TypeOK => DecayOnlyDiscounts
<1> SUFFICES ASSUME TypeOK, NEW c \in Chunk
             PROVE  /\ DecayedScore[c] <= FusedScore[c] * Ceiling
                    /\ DecayedScore[c] >= FusedScore[c] * Floor
                    /\ lambda \in Int /\ Now < created[c] /\ created[c] - Now <= Span \div 2 =>
                         DecayedScore[c] = FusedScore[c] * Ceiling
                    /\ lambda \notin Int => DecayedScore[c] = FusedScore[c] * Floor
  BY DEF DecayOnlyDiscounts
<1> DEFINE x == FusedScore[c]
           f == RecencyFactor(c)
<1>1. x \in Nat
  BY FusedScoreType
<1>2. f \in Nat /\ Floor \in Nat /\ Ceiling \in Nat /\ Floor <= f /\ f <= Ceiling
  BY FactorType DEF Floor, Ceiling
<1>3. DecayedScore[c] = x * f
  BY DEF DecayedScore
<1>4. ASSUME lambda \in Int, Now < created[c], created[c] - Now <= Span \div 2
      PROVE  f = Ceiling
  <2>1. Span \in Nat \ {0} /\ Now \in Int /\ created[c] \in Int
    BY RankingAssumption DEF TypeOK
  <2>2. AgeFits(c)
    <3>1. CASE Span = 1
      BY <1>4, <2>1, <3>1
    <3>2. CASE Span # 1
      BY <1>4, <2>1, <3>2 DEF AgeFits
    <3> QED BY <3>1, <3>2
  <2>3. NonNegative(Age(c)) = 0
    BY <1>4, <2>1, <2>2, AgeIsExact DEF NonNegative
  <2>4. -(lambda * NonNegative(Age(c))) = 0
    BY <1>4, <2>3
  <2>5. Decayed(c) = Ceiling
    BY <1>4, <2>4, FiniteDecay, RankingAssumption
  <2> QED BY <2>5, RankingAssumption DEF RecencyFactor, IsFinite, Clamp, Floor, Ceiling
<1> HIDE DEF x, f
<1>5. x * f <= x * Ceiling /\ x * Floor <= x * f
  BY <1>1, <1>2, ProductsOrdered
<1>6. DecayedScore[c] <= x * Ceiling /\ DecayedScore[c] >= x * Floor
  BY <1>3, <1>5
<1>7. lambda \in Int /\ Now < created[c] /\ created[c] - Now <= Span \div 2 =>
        DecayedScore[c] = x * Ceiling
  BY <1>3, <1>4
<1>8. lambda \notin Int => DecayedScore[c] = x * Floor
  BY <1>3, FloorUnlessFinite DEF f
<1> QED BY <1>6, <1>7, <1>8 DEF x

\* For every double that lambda may be, the decay never inflates a score and never
\* takes all of it; a memory from the future keeps its score if lambda is finite.
THEOREM OnlyDiscounts == Spec => []DecayOnlyDiscounts
<1> QED BY Discounts, RankingTypeCorrect, PTL

\* A fresher chunk is not discounted more.
LEMMA FresherDecaysLess ==
    ASSUME TypeOK, lambda \in Int => lambda >= 0, NEW a \in Chunk, NEW b \in Chunk,
           AgeFits(a), AgeFits(b), created[a] >= created[b]
    PROVE  RecencyFactor(b) <= RecencyFactor(a)
<1>0. CASE lambda \notin Int
  BY <1>0, FloorUnlessFinite DEF Floor
<1> SUFFICES ASSUME lambda \in Int PROVE RecencyFactor(b) <= RecencyFactor(a)
  BY <1>0
<1> DEFINE p == NonNegative(Age(a))
           q == NonNegative(Age(b))
<1>1. Now \in Int /\ created[a] \in Int /\ created[b] \in Int /\ lambda \in Nat
  <2>1. Now \in Int /\ created \in [Chunk -> Int]
    BY RankingAssumption DEF TypeOK
  <2> QED BY <2>1
<1>2. p \in Nat /\ q \in Nat /\ p <= q
  BY <1>1, AgeIsExact DEF NonNegative
<1>3. /\ -(lambda * p) \in Exponent /\ -(lambda * q) \in Exponent
  BY FiniteDecay
<1> HIDE DEF p, q
<1>4. lambda * p \in Nat /\ lambda * q \in Nat /\ lambda * p <= lambda * q
  BY <1>1, <1>2, ProductsOrdered
<1>5. -(lambda * q) <= -(lambda * p) /\ -(lambda * p) <= 0
  BY <1>4
<1> DEFINE u == Exp[-(lambda * p)]
           v == Exp[-(lambda * q)]
<1>6. u \in Nat /\ v \in Nat /\ v <= u /\ u <= Ceiling
  BY <1>3, <1>5, RankingAssumption
<1>7. MaxFinite \in Nat /\ Ceiling <= MaxFinite
  BY RankingAssumption DEF Ceiling
<1>8. RecencyFactor(a) = IF u > MaxFinite THEN Floor ELSE Clamp(u, Floor, Ceiling)
  BY <1>6, <1>7, FiniteDecay DEF RecencyFactor, IsFinite, p
<1>9. RecencyFactor(b) = IF v > MaxFinite THEN Floor ELSE Clamp(v, Floor, Ceiling)
  BY <1>6, <1>7, FiniteDecay DEF RecencyFactor, IsFinite, q
<1> HIDE DEF u, v
<1> QED BY <1>6, <1>7, <1>8, <1>9 DEF Clamp, Floor, Ceiling

\* A result that came first and is no older is not overtaken by the decay.
LEMMA Dominance == RankInv => DecayKeepsDominance
<1> SUFFICES ASSUME RankInv, pc = "ranked", lambda \in Int => lambda >= 0,
                    NEW n \in DOMAIN memory, NEW m \in DOMAIN memory,
                    AgeFits(memory[n]), AgeFits(memory[m]),
                    created[memory[n]] >= created[memory[m]],
                    Outranks(FusedScore, memory[n], memory[m]), ~(n < m)
             PROVE  DecayedScore[memory[n]] = DecayedScore[memory[m]]
  BY DEF DecayKeepsDominance
<1> DEFINE a == memory[n]
           b == memory[m]
<1>1. TypeOK /\ StrictlyRanked
  BY DEF RankInv
<1>2. a \in Chunk /\ b \in Chunk /\ n \in Int /\ m \in Int
  BY <1>1 DEF TypeOK, Lists
<1>3. FusedScore[a] \in Nat /\ FusedScore[b] \in Nat /\ FusedScore[b] <= FusedScore[a]
  BY <1>1, <1>2, FusedScoreType DEF Outranks
<1>4. RecencyFactor(b) <= RecencyFactor(a)
  BY <1>1, <1>2, FresherDecaysLess
<1>5. RecencyFactor(a) \in Nat /\ RecencyFactor(b) \in Nat
  BY <1>1, <1>2, FactorType DEF Floor, Ceiling
<1>6. /\ DecayedScore[a] = FusedScore[a] * RecencyFactor(a)
      /\ DecayedScore[b] = FusedScore[b] * RecencyFactor(b)
  BY <1>2 DEF DecayedScore
<1>7. DecayedScore[b] <= DecayedScore[a]
  BY <1>3, <1>4, <1>5, <1>6, ProductsOrdered
<1>8. n # m
  BY <1>1, <1>2, FusedScoreType, TotalOrder
<1>9. Outranks(DecayedScore, b, a)
  BY <1>1, <1>2, <1>8 DEF StrictlyRanked
<1>10. DecayedScore[a] \in Nat /\ DecayedScore[b] \in Nat
  BY <1>1, <1>2, DecayedScoreType
<1> QED BY <1>7, <1>9, <1>10 DEF Outranks

\* Recency reorders only in favour of fresher memories.
THEOREM DominanceKept == Spec => []DecayKeepsDominance
<1> QED BY Dominance, RankInvariant, PTL
-----------------------------------------------------------------------------
(* A set of chunks has one strict ranking by a score, so two searches that score *)
(* alike return the same list.                                                  *)

\* A nonempty set of numbers has a least one.
LEMMA LeastOf ==
    ASSUME NEW T, T \subseteq Nat, T # {}
    PROVE  \E x \in T : \A y \in T : x <= y
<1> DEFINE less == { p \in Nat \X Nat : p[1] < p[2] }
<1>0. IsWellFoundedOn(less, Nat)
  BY NatLessThanWellFounded DEF OpToRel
<1>1. PICK x \in T : \A y \in T : <<y, x>> \notin less
  <2> HIDE DEF less
  <2> QED BY <1>0, WFMin
<1>2. ASSUME NEW y \in T PROVE x <= y
  <2>1. x \in Nat /\ y \in Nat
    OBVIOUS
  <2>2. ~(y < x)
    BY <1>1, <2>1
  <2> QED BY <2>1, <2>2
<1> QED BY <1>2

Ranked(s, score) == \A n, m \in DOMAIN s : n < m => Outranks(score, s[n], s[m])

AgreeBelow(d, s, t, m) == \A i \in 1..m : i < d => s[i] = t[i]

\* Where two rankings of one set agree up to d, what the second has at d is what
\* the first has there, or outranks it.
LEMMA NextInRanking ==
    ASSUME NEW score \in [Chunk -> Nat], NEW n \in Nat, NEW m \in Nat,
           NEW s \in [1..n -> Chunk], NEW t \in [1..m -> Chunk],
           Ranked(s, score), Ranked(t, score), Listed(s) = Listed(t),
           NEW d \in 1..n, AgreeBelow(d, s, t, m)
    PROVE  d \in 1..m /\ (t[d] = s[d] \/ Outranks(score, t[d], s[d]))
<1>1. s[d] \in Listed(s)
  BY DEF Listed
<1>2. PICK j \in 1..m : t[j] = s[d]
  BY <1>1 DEF Listed
<1>3. ~(j < d)
  <2> SUFFICES ASSUME j < d PROVE FALSE
    OBVIOUS
  <2>1. s[j] = s[d] /\ j \in 1..n
    BY <1>2 DEF AgreeBelow
  <2>2. Outranks(score, s[j], s[d])
    BY <2>1 DEF Ranked
  <2>3. s[d] \in Chunk
    OBVIOUS
  <2> QED BY <2>1, <2>2, <2>3, TotalOrder
<1>4. d \in 1..m /\ (d = j \/ d < j)
  BY <1>3
<1> QED BY <1>2, <1>4 DEF Ranked

LEMMA OneRanking ==
    ASSUME NEW score \in [Chunk -> Nat], NEW n \in Nat, NEW m \in Nat,
           NEW s \in [1..n -> Chunk], NEW t \in [1..m -> Chunk],
           Ranked(s, score), Ranked(t, score), Listed(s) = Listed(t)
    PROVE  s = t
<1> DEFINE Agree(i) == i \in 1..n /\ i \in 1..m /\ s[i] = t[i]
           Differ == { i \in 1..n \cup 1..m : ~Agree(i) }
<1>1. Differ = {}
  <2> SUFFICES ASSUME Differ # {} PROVE FALSE
    OBVIOUS
  <2>1. Differ \subseteq Nat
    OBVIOUS
  <2>2. PICK d \in Differ : \A y \in Differ : d <= y
    <3> HIDE DEF Differ
    <3> QED BY <2>1, LeastOf
  <2>3. d \in Nat /\ d >= 1 /\ (d \in 1..n \/ d \in 1..m)
    OBVIOUS
  <2>4. \A i \in 1..n \cup 1..m : i < d => s[i] = t[i]
    BY <2>2, <2>3
  <2> HIDE DEF Differ
  <2>5. ASSUME d \in 1..n
        PROVE  d \in 1..m /\ (t[d] = s[d] \/ Outranks(score, t[d], s[d]))
    <3>1. AgreeBelow(d, s, t, m)
      BY <2>4 DEF AgreeBelow
    <3> QED BY <2>5, <3>1, NextInRanking, Zenon
  <2>6. ASSUME d \in 1..m
        PROVE  d \in 1..n /\ (s[d] = t[d] \/ Outranks(score, s[d], t[d]))
    <3>1. AgreeBelow(d, t, s, n) /\ Listed(t) = Listed(s)
      BY <2>4 DEF AgreeBelow
    <3> QED BY <2>6, <3>1, NextInRanking, Zenon
  <2>7. d \in 1..n /\ d \in 1..m
    BY <2>3, <2>5, <2>6
  <2>8. s[d] \in Chunk /\ t[d] \in Chunk /\ s[d] # t[d]
    BY <2>7 DEF Differ
  <2> QED BY <2>5, <2>6, <2>7, <2>8, TotalOrder
<1>2. \A i \in 1..n \cup 1..m : i \in 1..n /\ i \in 1..m /\ s[i] = t[i]
  BY <1>1
<1>3. 1..n = 1..m
  BY <1>2
<1> QED BY <1>2, <1>3

\* Without decay every fused score is scaled alike.
LEMMA NoDecayNoReordering ==
    ASSUME TypeOK, lambda = 0, NEW a \in Chunk, NEW b \in Chunk,
           Outranks(DecayedScore, a, b)
    PROVE  Outranks(FusedScore, a, b)
<1>1. ASSUME NEW c \in Chunk
      PROVE  FusedScore[c] \in Nat /\ DecayedScore[c] = FusedScore[c] * 100
  <2>1. Now \in Int /\ created[c] \in Int /\ Span \in Nat \ {0}
    BY RankingAssumption DEF TypeOK
  <2>2. Age(c) \in Int
    BY <2>1 DEF Age
  <2>3. NonNegative(Age(c)) \in Int
    BY <2>2 DEF NonNegative
  <2>4. -(lambda * NonNegative(Age(c))) = 0
    BY <2>3
  <2>5. Decayed(c) = 100
    BY <2>4, FiniteDecay, RankingAssumption DEF Ceiling
  <2>6. RecencyFactor(c) = 100
    BY <2>5, RankingAssumption DEF RecencyFactor, IsFinite, Clamp, Floor, Ceiling
  <2> QED BY <2>6, FusedScoreType DEF DecayedScore
<1>2. FusedScore[a] \in Nat /\ DecayedScore[a] = FusedScore[a] * 100
  BY <1>1
<1>3. FusedScore[b] \in Nat /\ DecayedScore[b] = FusedScore[b] * 100
  BY <1>1
<1> QED BY <1>2, <1>3 DEF Outranks

LEMMA ZeroLambda == RankInv => ZeroLambdaIsHybrid
<1> SUFFICES ASSUME RankInv, pc = "ranked", lambda = 0 PROVE memory = fused
  BY DEF ZeroLambdaIsHybrid
<1>1. TypeOK /\ StrictlyRanked /\ Listed(memory) = Listed(fused) /\ k \in Nat
  BY HitsAreChunks DEF RankInv, MemoryPermutesHybrid
<1>2. PICK n \in 0..k : fused \in [1..n -> Chunk]
  BY <1>1 DEF TypeOK, Lists
<1>3. PICK m \in 0..k : memory \in [1..m -> Chunk]
  BY <1>1 DEF TypeOK, Lists
<1>4. Ranked(fused, FusedScore) /\ Ranked(memory, DecayedScore)
  BY <1>1 DEF StrictlyRanked, Ranked
<1>5. Ranked(memory, FusedScore)
  BY <1>1, <1>3, <1>4, NoDecayNoReordering DEF Ranked
<1>6. FusedScore \in [Chunk -> Nat] /\ n \in Nat /\ m \in Nat
  BY <1>1, FusedScoreType
<1> QED BY <1>1, <1>2, <1>3, <1>4, <1>5, <1>6, OneRanking, Zenon

\* A memory search without decay returns the hybrid search's list, whatever the
\* ages of the memories are.
THEOREM ZeroLambdaKeepsTheRanking == Spec => []ZeroLambdaIsHybrid
<1> QED BY ZeroLambda, RankInvariant, PTL
=============================================================================
