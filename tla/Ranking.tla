------------------------------- MODULE Ranking -------------------------------
(***************************************************************************)
(* How a hybrid search and a memory search order their results:            *)
(* rrf_fusion.cpp, recency_decay.cpp and FuseRankAndDecay.                  *)
(*                                                                         *)
(* Scores are integers: a fused score in units of 1 / Scale, a recency     *)
(* factor in hundredths.  exp() of a finite number is any nondecreasing    *)
(* function, given as a constant; its large values stand for an overflow.  *)
(***************************************************************************)
EXTENDS Integers, Sequences, FiniteSets

CONSTANTS
    Chunk,          \* the chunks, by their key
    MaxK,           \* bound: the results a caller asks for
    SparseCap,      \* kMaxSparseCandidates
    Now, Created,   \* the time of the query, and what chunks are stamped with
    Span,           \* how many values the integer type of timestamps has
    Lambda,         \* decay_lambda: nothing keeps a caller to finite ones
    Infinity, MinusInfinity, NaN,   \* the doubles that are not finite
    Exponent, Exp,  \* std::exp, in hundredths, over the exponents that occur
    MaxFinite       \* what it returns above this is not finite

VARIABLES
    near,      \* the chunks by their distance from the query
    matching,  \* the chunks that match the query's words, best first
    created,   \* created_at of each chunk
    k, lambda, \* the other arguments of the search
    pc,        \* "search", "fused", or "ranked"
    fused,     \* what RrfFuse returns, and search_hybrid with it
    memory     \* what FuseRankAndDecay returns, and search_memory with it

inputs == <<near, matching, created, k, lambda>>
vars   == <<inputs, pc, fused, memory>>

Listed(s) == { s[n] : n \in DOMAIN s }

-----------------------------------------------------------------------------
(* RrfFuse *)

RrfK  == 60
Scale == 1000000

\* vector::resize where the vector is longer, and LIMIT.
Truncate(s, n) == [m \in 1..(IF n < Len(s) THEN n ELSE Len(s)) |-> s[m]]

SparseFetchLimit(n) == IF n < SparseCap THEN n ELSE SparseCap

Dense  == Truncate(near, k)
Sparse == Truncate(matching, SparseFetchLimit(k))

\* The keys of the map: a chunk that both rankings hit has one entry.
Entries == Listed(Dense) \cup Listed(Sparse)

\* What one ranking adds to a chunk's score; ranks count from one.
Contribution(s, c) ==
    IF c \in Listed(s) THEN Scale \div (RrfK + (CHOOSE n \in DOMAIN s : s[n] = c)) ELSE 0

FusedScore == [c \in Chunk |-> Contribution(Dense, c) + Contribution(Sparse, c)]

\* Mutant: ties are broken by the document alone.
PrecedesByDocument(a, b) == a.document_id < b.document_id

Precedes(a, b) ==
    \/ a.document_id < b.document_id
    \/ a.document_id = b.document_id /\ a.chunk_index < b.chunk_index

\* Both calls of std::sort compare by a score, then by the key.
Outranks(score, a, b) ==
    score[a] > score[b] \/ (score[a] = score[b] /\ Precedes(a, b))

\* What std::sort may leave behind: elements of which neither comes before the
\* other are in no particular order.
Sorted(S, score) ==
    { s \in [1..Cardinality(S) -> S] :
        /\ \A c \in S : \E n \in DOMAIN s : s[n] = c
        /\ \A n, m \in DOMAIN s : n < m => s[n] # s[m] /\ ~Outranks(score, s[m], s[n]) }

\* Mutant: the entries are cut down to k before they are sorted.
FuseTruncatedFirst ==
    /\ pc = "search"
    /\ \E S \in SUBSET Entries :
         /\ Cardinality(S) = Len(Truncate([n \in 1..Cardinality(Entries) |-> n], k))
         /\ fused' \in Sorted(S, FusedScore)
    /\ pc' = "fused"
    /\ UNCHANGED <<inputs, memory>>

\* Mutant: all entries are returned.
FuseUncut ==
    /\ pc = "search"
    /\ fused' \in Sorted(Entries, FusedScore)
    /\ pc' = "fused"
    /\ UNCHANGED <<inputs, memory>>

Fuse ==
    /\ pc = "search"
    /\ \E s \in Sorted(Entries, FusedScore) : fused' = Truncate(s, k)
    /\ pc' = "fused"
    /\ UNCHANGED <<inputs, memory>>

-----------------------------------------------------------------------------
(* The recency factor, and FuseRankAndDecay *)

Floor   == 1    \* kMinRecencyFactor
Ceiling == 100

\* Mutant: the age is computed without a sign.
AgeUnsigned(c) == (Now - created[c]) % Span

\* now - created_at, as the machine computes it where it does not fit.
Age(c) == ((Now - created[c] + Span \div 2) % Span) - Span \div 2

NonNegative(x) == IF x < 0 THEN 0 ELSE x

\* std::clamp
Clamp(v, lo, hi) == IF v < lo THEN lo ELSE IF hi < v THEN hi ELSE v

\* The decay before it is clamped: std::exp of an exponent that is infinite for
\* an infinite lambda, but not a number where that lambda meets an age of zero.
Decayed(c) ==
    LET age == NonNegative(Age(c))
    IN  CASE lambda \in Int -> Exp[-(lambda * age)]
          [] lambda = Infinity /\ age > 0 -> 0
          [] lambda = MinusInfinity /\ age > 0 -> Infinity
          [] OTHER -> NaN

\* std::isfinite
IsFinite(x) == x \in Nat /\ x <= MaxFinite

\* Mutant: nothing keeps the factor at one or below.
RecencyFactorNotCapped(c) ==
    IF ~IsFinite(Decayed(c)) THEN Floor
    ELSE IF Decayed(c) < Floor THEN Floor ELSE Decayed(c)

RecencyFactor(c) ==
    IF IsFinite(Decayed(c)) THEN Clamp(Decayed(c), Floor, Ceiling) ELSE Floor

\* Mutant: the fused score is not carried over.
ScoreOfAgeAlone == [c \in Chunk |-> RecencyFactor(c)]

DecayedScore == [c \in Chunk |-> FusedScore[c] * RecencyFactor(c)]

\* Mutant: the k best of all entries, after the decay.
DecayAll ==
    /\ pc = "fused"
    /\ \E s \in Sorted(Entries, DecayedScore) : memory' = Truncate(s, k)
    /\ pc' = "ranked"
    /\ UNCHANGED <<inputs, fused>>

Decay ==
    /\ pc = "fused"
    /\ memory' \in Sorted(Listed(fused), DecayedScore)
    /\ pc' = "ranked"
    /\ UNCHANGED <<inputs, fused>>

-----------------------------------------------------------------------------
ASSUME RankingAssumption ==
    /\ Chunk \subseteq [document_id : Nat, chunk_index : Nat] /\ IsFiniteSet(Chunk)
    /\ MaxK \in Nat /\ SparseCap \in Nat
    /\ Now \in Int /\ Created \subseteq Int /\ Span \in Nat \ {0}
    /\ Lambda \subseteq Int \cup {Infinity, MinusInfinity, NaN}
    /\ Infinity \notin Int /\ MinusInfinity \notin Int /\ NaN \notin Int
    /\ Infinity # MinusInfinity /\ Infinity # NaN /\ MinusInfinity # NaN
    /\ Exponent \subseteq Int /\ Exp \in [Exponent -> Nat]
    /\ 0 \in Exponent /\ Exp[0] = Ceiling
    /\ \A x, y \in Exponent : x <= y => Exp[x] <= Exp[y]
    /\ MaxFinite \in Nat /\ MaxFinite >= Ceiling

\* The exponents that occur are among those Exp is defined for.
ASSUME ExponentAssumption ==
    \A l \in Lambda \cap Int : \A t \in Created :
        -(l * NonNegative(((Now - t + Span \div 2) % Span) - Span \div 2)) \in Exponent

\* A ranking lists a chunk at most once; the index may lag behind the tables.
Rankings ==
    UNION { { s \in [1..n -> Chunk] : \A i, j \in 1..n : i < j => s[i] # s[j] } :
            n \in 0..Cardinality(Chunk) }

Init ==
    /\ near \in Rankings /\ matching \in Rankings
    /\ created \in [Chunk -> Created]
    /\ k \in 0..MaxK /\ lambda \in Lambda
    /\ pc = "search" /\ fused = <<>> /\ memory = <<>>

Finished == pc = "ranked" /\ UNCHANGED vars

Next == Fuse \/ Decay \/ Finished

Spec == Init /\ [][Next]_vars

-----------------------------------------------------------------------------
(* Properties. *)

\* A list of at most n chunks.
Lists(n) == UNION { [1..m -> Chunk] : m \in 0..n }

\* Every variable has its type; no search returns more than k results.
TypeOK ==
    /\ near \in Rankings /\ matching \in Rankings
    /\ created \in [Chunk -> Created]
    /\ k \in 0..MaxK /\ lambda \in Lambda
    /\ pc \in {"search", "fused", "ranked"}
    /\ fused \in Lists(k) /\ memory \in Lists(k)

\* "Ties on fused_score are broken ... for deterministic, reproducible output"
\* (rrf_fusion.hpp:41-42), and the same after the decay: the key decides between
\* any two results of one score, so that each list is the only one there is.
StrictlyRanked ==
    /\ \A n, m \in DOMAIN fused : n < m => Outranks(FusedScore, fused[n], fused[m])
    /\ \A n, m \in DOMAIN memory : n < m => Outranks(DecayedScore, memory[n], memory[m])

\* "Returns the top k entries ordered highest-fused-score-first": a hit of either
\* ranking is left out only for k results that all rank above it.
NoBetterLeftOut ==
    pc # "search" =>
        \A c \in Listed(Dense) \cup Listed(Sparse) :
            \/ c \in Listed(fused)
            \/ Len(fused) = k /\ \A n \in DOMAIN fused : Outranks(FusedScore, fused[n], c)

\* "A memory that never entered the fused candidate list cannot be surfaced by
\* recency alone" (ADR-5), and none that did is lost.
MemoryPermutesHybrid == pc = "ranked" => Listed(memory) = Listed(fused)

\* decay_lambda = 0 is "identical ranking to search_hybrid()"
\* (retrieval_engine.hpp:192-193), whatever the ages are.
ZeroLambdaIsHybrid == pc = "ranked" /\ lambda = 0 => memory = fused

\* "Always returns a finite value in [kMinRecencyFactor, 1.0]; never NaN or Inf,
\* regardless of input" (recency_decay.hpp:15-16): the decay never inflates a score
\* and never takes all of it, whatever double lambda is and whatever the clock and
\* the timestamps are.  A memory from the future keeps its score under a finite
\* lambda; under one that is not, every memory falls to the floor, that one too.
DecayOnlyDiscounts ==
    \A c \in Chunk :
        /\ DecayedScore[c] <= FusedScore[c] * Ceiling
        /\ DecayedScore[c] >= FusedScore[c] * Floor
        /\ lambda \in Int /\ Now < created[c] /\ created[c] - Now <= Span \div 2 =>
             DecayedScore[c] = FusedScore[c] * Ceiling
        /\ lambda \notin Int => DecayedScore[c] = FusedScore[c] * Floor

\* The age of a chunk fits the integer type of timestamps.
AgeFits(c) == -(Span \div 2) <= Now - created[c] /\ Now - created[c] < Span \div 2

\* Recency reorders only in favour of fresher memories: of two results, one that
\* search_hybrid puts first and that is no older stays first, or the two end up
\* with one score (the rounding of floats, not modelled, could also do that).  Of
\* the lambdas only a finite negative one, which prefers the old, is left out.
DecayKeepsDominance ==
    pc = "ranked" /\ (lambda \in Int => lambda >= 0) =>
        \A n, m \in DOMAIN memory :
            /\ AgeFits(memory[n]) /\ AgeFits(memory[m])
            /\ created[memory[n]] >= created[memory[m]]
            /\ Outranks(FusedScore, memory[n], memory[m])
            => n < m \/ DecayedScore[memory[n]] = DecayedScore[memory[m]]
=============================================================================
