----------------------------- MODULE TextProofs -----------------------------
(***************************************************************************)
(* Proofs about what is done to texts: the windows of chunk_text, the runs *)
(* that words are, the tokenizer, and the query that FTS5 reads.  Each     *)
(* part has an invariant of its own, or a reading in steps, proved for its *)
(* operations here; what a command does with them is CommandLineProofs.    *)
(***************************************************************************)
EXTENDS Chunking, WordPiece, Fts5Query, FiniteSetTheorems, SequenceTheorems,
        WellFoundedInduction, TLAPS

(***************************************************************************)
(* chunk_text.                                                             *)
(***************************************************************************)
IsSequence(s) == \E S : s \in Seq(S)

\* Every window so far is full and ends before the last token, and starts where
\* the overlap with the one before it begins.
FullWindows ==
    \A n \in DOMAIN chunks :
        /\ chunks[n].start_token = (n - 1) * Step
        /\ chunks[n].end_token = chunks[n].start_token + window
        /\ chunks[n].end_token < Len(tokens)

LoopInv ==
    /\ start = Len(chunks) * Step
    /\ start < Len(tokens)
    /\ FullWindows

ChunkInv ==
    /\ chunking \in {"idle", "loop", "done", "threw"}
    /\ chunking \in {"loop", "done"} =>
        /\ window \in 1..(SizeMod - 1) /\ overlap \in 0..(window - 1)
        /\ IsSequence(tokens) /\ 2 * Len(tokens) <= SizeMod
        /\ chunks \in Seq(Window) /\ start \in Nat
    /\ chunking = "loop" => LoopInv
    /\ WindowsCover

ChunkMoves ==
    \/ \E text \in Seq(Char), w, o \in 0..(SizeMod - 1) :
        /\ 2 * Len(text) <= SizeMod
        /\ ChunkText(text, w, o) \/ ChunkTextRefuses(w, o)
    \/ EmitWindow \/ ForgetChunks \/ UNCHANGED chunkingVars

\* A text has no more words than characters.
LEMMA WordsAreFew ==
    ASSUME NEW text \in Seq(Char)
    PROVE  IsSequence(Words(text)) /\ Len(Words(text)) <= Len(text)
<1> DEFINE starts == RunStarts(text, {})
           wordAt(n) == SubSeq(text, Nth(starts, n), RunEnd(text, {}, Nth(starts, n)))
           count == Cardinality(starts)
           all == {wordAt(n) : n \in 1..count}
<1>1. starts \subseteq 1..Len(text)
    BY DEF RunStarts
<1>2. count \in Nat /\ count <= Len(text)
    <2>. Len(text) \in Nat  BY LenProperties
    <2>1. IsFiniteSet(1..Len(text)) /\ Cardinality(1..Len(text)) = Len(text)
        BY FS_Interval
    <2>2. IsFiniteSet(starts) /\ count <= Cardinality(1..Len(text))
        BY <1>1, <2>1, FS_Subset
    <2> QED  BY <2>1, <2>2, FS_CardinalityType
<1>3. Words(text) = [n \in 1..count |-> wordAt(n)]
    BY DEF Words, Runs
<1>4. \A n \in 1..count : wordAt(n) \in all
    OBVIOUS
<1> HIDE DEF count, wordAt, all
<1>5. Words(text) \in [1..count -> all]
    BY <1>3, <1>4
<1>6. Words(text) \in Seq(all) /\ Len(Words(text)) = count
    BY <1>2, <1>5
<1> QED  BY <1>2, <1>6 DEF IsSequence

LEMMA Distribute ==
    ASSUME NEW n \in Nat, NEW s \in Nat
    PROVE  (n + 1) * s = n * s + s /\ 0 * s = 0 /\ n * s \in Nat
OBVIOUS

LEMMA SmallSumsDoNotWrap ==
    ASSUME NEW n \in Nat, NEW m \in Nat \ {0}, n < m
    PROVE  n % m = n
OBVIOUS

LEMMA WindowEmitted ==
    ASSUME ChunkInv, EmitWindow
    PROVE  ChunkInv'
<1> DEFINE end == start + window
           next == start + Step
           new == [start_token |-> start, end_token |-> WindowEnd]
<1>1. /\ chunking = "loop" /\ LoopInv
      /\ window \in 1..(SizeMod - 1) /\ overlap \in 0..(window - 1)
      /\ IsSequence(tokens) /\ 2 * Len(tokens) <= SizeMod
      /\ chunks \in Seq(Window) /\ start \in Nat
    BY DEF ChunkInv, EmitWindow
<1>2. Len(tokens) \in Nat /\ Len(chunks) \in Nat /\ SizeMod \in Nat \ {0}
    BY <1>1, SizeAssumption DEF IsSequence
<1>3. Step \in 1..window
    BY <1>1, <1>2 DEF Step
<1>4. end < SizeMod
    <2>1. CASE chunks = <<>>
        <3>1. start = 0
            BY <1>1, <1>3, <2>1, Distribute DEF LoopInv
        <3> QED  BY <1>1, <1>2, <3>1
    <2>2. CASE chunks # <<>>
        <3>1. 1 \in DOMAIN chunks
            BY <1>1, <2>2
        <3>2. /\ chunks[1].start_token = (1 - 1) * Step
              /\ chunks[1].end_token = chunks[1].start_token + window
              /\ chunks[1].end_token < Len(tokens)
            BY <1>1, <3>1 DEF LoopInv, FullWindows
        <3>3. window < Len(tokens)
            <4>1. (1 - 1) * Step = 0
                BY <1>1, <1>3, Distribute
            <4> QED  BY <1>1, <1>2, <3>2, <4>1
        <3> QED  BY <1>1, <1>2, <3>3 DEF LoopInv
    <2> QED  BY <2>1, <2>2
<1>5. next \in Nat /\ start < next /\ next <= end
    BY <1>1, <1>2, <1>3
<1>6. end % SizeMod = end /\ next % SizeMod = next
    BY <1>1, <1>2, <1>4, <1>5, SmallSumsDoNotWrap
<1>7. WindowEnd = IF end < Len(tokens) THEN end ELSE Len(tokens)
    BY <1>6 DEF WindowEnd
<1>8. /\ chunks' = Append(chunks, new)
      /\ start' = IF WindowEnd = Len(tokens) THEN start ELSE next
      /\ chunking' = IF WindowEnd = Len(tokens) \/ next >= Len(tokens)
                     THEN "done" ELSE "loop"
      /\ UNCHANGED <<tokens, window, overlap>>
    BY <1>6 DEF EmitWindow
<1>9. new \in Window /\ new.start_token = start /\ new.end_token = WindowEnd
      /\ start < WindowEnd /\ WindowEnd <= Len(tokens)
    BY <1>1, <1>2, <1>7 DEF Window, LoopInv
<1> HIDE DEF new, end, next
<1>10. /\ chunks' \in Seq(Window) /\ Len(chunks') = Len(chunks) + 1
       /\ \A n \in 1..Len(chunks) : chunks'[n] = chunks[n]
       /\ chunks'[Len(chunks) + 1] = new
       /\ DOMAIN chunks' = 1..(Len(chunks) + 1) /\ DOMAIN chunks = 1..Len(chunks)
    BY <1>1, <1>8, <1>9
<1>11. Step' = Step
    BY <1>8 DEF Step
<1>12. start = ((Len(chunks) + 1) - 1) * Step
    BY <1>1, <1>2 DEF LoopInv
<1>13. CASE WindowEnd = Len(tokens)
    <2>1. chunking' = "done" /\ start' = start
        BY <1>8, <1>13
    <2>2. Tiled'
        <3> SUFFICES ASSUME NEW n \in 1..(Len(chunks) + 1)
                     PROVE  /\ chunks'[n].start_token = (n - 1) * Step
                            /\ chunks'[n].start_token < chunks'[n].end_token
                            /\ n < Len(chunks) + 1 =>
                                /\ chunks'[n].end_token = chunks'[n].start_token + window
                                /\ chunks'[n].end_token < Len(tokens)
            BY <1>8, <1>10, <1>11 DEF Tiled
        <3>1. CASE n = Len(chunks) + 1
            BY <1>2, <1>9, <1>10, <1>12, <3>1
        <3>2. CASE n \in 1..Len(chunks)
            <4>1. /\ chunks[n].start_token = (n - 1) * Step
                  /\ chunks[n].end_token = chunks[n].start_token + window
                  /\ chunks[n].end_token < Len(tokens)
                BY <1>1, <1>10, <3>2 DEF LoopInv, FullWindows
            <4>2. chunks[n].start_token \in Nat
                <5>1. chunks[n] \in Window
                    BY <1>1, <3>2, ElementOfSeq
                <5> QED  BY <5>1 DEF Window
            <4>3. chunks'[n] = chunks[n]
                BY <1>10, <3>2
            <4>4. chunks[n].start_token < chunks[n].end_token
                BY <1>1, <4>1, <4>2
            <4> QED  BY <4>1, <4>3, <4>4
        <3> QED  BY <1>2, <3>1, <3>2
    <2>3. chunks' # <<>> /\ tokens' # <<>>
        <3>1. tokens # <<>>
            BY <1>1, <1>2 DEF LoopInv
        <3> QED  BY <1>2, <1>8, <1>10, <3>1
    <2>4. chunks'[Len(chunks')].end_token = Len(tokens')
        BY <1>8, <1>9, <1>10, <1>13
    <2>5. WindowsCover'
        BY <2>2, <2>3, <2>4 DEF WindowsCover
    <2> QED  BY <1>1, <1>8, <1>10, <2>1, <2>5 DEF ChunkInv
<1>14. CASE WindowEnd # Len(tokens)
    <2>1. WindowEnd = end /\ end < Len(tokens)
        BY <1>7, <1>14
    <2>2. ~(next >= Len(tokens))
        BY <1>1, <1>2, <1>5, <2>1 DEF end
    <2>3. chunking' = "loop" /\ start' = next
        BY <1>8, <1>14, <2>2
    <2>4. FullWindows'
        <3> SUFFICES ASSUME NEW n \in 1..(Len(chunks) + 1)
                     PROVE  /\ chunks'[n].start_token = (n - 1) * Step
                            /\ chunks'[n].end_token = chunks'[n].start_token + window
                            /\ chunks'[n].end_token < Len(tokens)
            BY <1>8, <1>10, <1>11 DEF FullWindows
        <3>1. CASE n = Len(chunks) + 1
            BY <1>2, <1>9, <1>10, <1>12, <2>1, <3>1 DEF end
        <3>2. CASE n \in 1..Len(chunks)
            BY <1>1, <1>10, <3>2 DEF LoopInv, FullWindows
        <3> QED  BY <1>2, <3>1, <3>2
    <2>5. start' = Len(chunks') * Step'
        BY <1>1, <1>2, <1>3, <1>10, <1>11, <2>3, Distribute DEF LoopInv, next
    <2>6. start' < Len(tokens')
        BY <1>2, <1>5, <1>8, <2>2, <2>3
    <2>7. LoopInv'
        BY <2>4, <2>5, <2>6 DEF LoopInv
    <2> QED  BY <1>1, <1>5, <1>8, <1>10, <2>3, <2>7 DEF ChunkInv, WindowsCover
<1> QED  BY <1>13, <1>14

\* Every operation of chunk_text keeps its invariant.
LEMMA ChunkOperations ==
    ASSUME ChunkInv, ChunkMoves
    PROVE  ChunkInv'
<1>1. CASE \E text \in Seq(Char), w, o \in 0..(SizeMod - 1) :
            2 * Len(text) <= SizeMod /\ ChunkText(text, w, o)
    <2>1. PICK text \in Seq(Char), w \in 0..(SizeMod - 1), o \in 0..(SizeMod - 1) :
            2 * Len(text) <= SizeMod /\ ChunkText(text, w, o)
        BY <1>1
    <2>2. /\ tokens' = Words(text) /\ window' = w /\ overlap' = o
          /\ start' = 0 /\ chunks' = <<>>
          /\ chunking' = IF Words(text) = <<>> THEN "done" ELSE "loop"
          /\ ~(w = 0 \/ o >= w)
        BY <2>1 DEF ChunkText, Refused
    <2>3. IsSequence(Words(text)) /\ Len(Words(text)) <= Len(text)
        BY WordsAreFew
    <2>4. Len(Words(text)) \in Nat /\ Len(text) \in Nat /\ SizeMod \in Nat \ {0}
        BY <2>3, SizeAssumption DEF IsSequence
    <2>5. 2 * Len(tokens') <= SizeMod
        BY <2>1, <2>2, <2>3, <2>4
    <2>6. w \in 1..(SizeMod - 1) /\ o \in 0..(w - 1)
        BY <2>2, <2>4
    <2>7. chunks' \in Seq(Window) /\ DOMAIN chunks' = {} /\ Len(chunks') = 0
        BY <2>2
    <2>8. CASE Words(text) = <<>>
        BY <2>2, <2>3, <2>5, <2>6, <2>7, <2>8 DEF ChunkInv, WindowsCover, Tiled
    <2>9. CASE Words(text) # <<>>
        <3>1. 0 < Len(tokens')
            BY <2>2, <2>3, <2>4, <2>9, EmptySeq DEF IsSequence
        <3>2. Step' \in Nat
            BY <2>2, <2>4, <2>6 DEF Step
        <3>3. start' = Len(chunks') * Step'
            BY <2>2, <2>7, <3>2, Distribute
        <3>4. LoopInv'
            BY <2>2, <2>7, <3>1, <3>3 DEF LoopInv, FullWindows
        <3> QED  BY <2>2, <2>3, <2>5, <2>6, <2>7, <2>9, <3>4 DEF ChunkInv, WindowsCover
    <2> QED  BY <2>8, <2>9
<1>2. CASE \E w, o \in 0..(SizeMod - 1) : ChunkTextRefuses(w, o)
    BY <1>2 DEF ChunkTextRefuses, ChunkInv, WindowsCover
<1>3. CASE ForgetChunks
    BY <1>3 DEF ForgetChunks, ChunkInv, WindowsCover
<1>4. CASE UNCHANGED chunkingVars
    BY <1>4 DEF chunkingVars, ChunkInv, WindowsCover, LoopInv, FullWindows, Tiled, Step
<1> QED  BY <1>1, <1>2, <1>3, <1>4, WindowEmitted DEF ChunkMoves

(***************************************************************************)
(* Runs of a text, and the text of a chunk.                                *)
(***************************************************************************)
\* A nonempty set of numbers has a least one.
LEMMA LeastOf ==
    ASSUME NEW T, T \subseteq Nat, T # {}
    PROVE  \E x \in T : \A y \in T : x <= y
<1> DEFINE less == { p \in Nat \X Nat : p[1] < p[2] }
<1>1. IsWellFoundedOn(less, Nat)
    BY NatLessThanWellFounded DEF OpToRel
<1>2. PICK x \in T : \A y \in T : <<y, x>> \notin less
    <2> HIDE DEF less
    <2> QED  BY <1>1, WFMin
<1>3. ASSUME NEW y \in T PROVE x <= y
    <2>1. x \in Nat /\ y \in Nat
        OBVIOUS
    <2>2. ~(y < x)
        BY <1>2, <2>1
    <2> QED  BY <2>1, <2>2
<1> QED  BY <1>3

\* Nth counts a set of positions off.
LEMMA NthIsMember ==
    ASSUME NEW L \in Nat, NEW S, S \subseteq 1..L, NEW n \in 1..Cardinality(S)
    PROVE  Nth(S, n) \in S
<1> DEFINE upTo(i) == { j \in S : j <= i }
           T == { i \in 0..L : Cardinality(upTo(i)) >= n }
<1>0. \A j \in S : j \in Int /\ 1 <= j /\ j <= L
    OBVIOUS
<1>1. IsFiniteSet(S) /\ Cardinality(S) \in Nat /\ n \in Nat /\ n >= 1 /\ n <= Cardinality(S)
    <2>1. IsFiniteSet(1..L)
        BY FS_Interval
    <2>2. IsFiniteSet(S)
        BY <2>1, FS_Subset
    <2>3. Cardinality(S) \in Nat
        BY <2>2, FS_CardinalityType
    <2> QED  BY <2>2, <2>3
<1>2. \A i \in Int : IsFiniteSet(upTo(i)) /\ Cardinality(upTo(i)) \in Nat
    <2>1. \A i \in Int : upTo(i) \subseteq S
        OBVIOUS
    <2> HIDE DEF upTo
    <2> QED  BY <1>1, <2>1, FS_Subset, FS_CardinalityType
<1>3. upTo(L) = S /\ upTo(0) = {}
    <2>1. \A j \in S : ~(j <= 0)
        BY <1>0
    <2> QED  BY <1>0, <2>1
<1>4. Cardinality(upTo(0)) = 0
    BY <1>3, FS_EmptySet
<1>5. L \in T
    <2>1. Cardinality(upTo(L)) = Cardinality(S)
        BY <1>3
    <2> HIDE DEF upTo
    <2> QED  BY <1>1, <2>1
<1>6. T \subseteq Nat /\ T # {}
    <2>1. T \subseteq 0..L
        OBVIOUS
    <2> HIDE DEF T
    <2> QED  BY <1>5, <2>1
<1>7. PICK m \in T : \A y \in T : m <= y
    <2> HIDE DEF T
    <2> QED  BY <1>6, LeastOf
<1>8. m \in 0..L /\ Cardinality(upTo(m)) >= n
    <2> HIDE DEF upTo
    <2> QED  BY <1>7
<1>9. m # 0
    BY <1>1, <1>4, <1>8
<1>10. m - 1 \in 0..L /\ ~(Cardinality(upTo(m - 1)) >= n)
    <2>1. m - 1 \in 0..L /\ ~(m <= m - 1)
        BY <1>8, <1>9
    <2> HIDE DEF upTo
    <2> QED  BY <1>7, <2>1
<1>11. m \in S
    <2> SUFFICES ASSUME m \notin S PROVE FALSE
        OBVIOUS
    <2>1. \A j \in S : j <= m <=> j <= m - 1
        BY <1>0, <1>8, <1>9
    <2>2. upTo(m) = upTo(m - 1)
        BY <2>1
    <2> HIDE DEF upTo
    <2> QED  BY <1>8, <1>10, <2>2
<1>12. Cardinality(upTo(m)) = Cardinality(upTo(m - 1)) + 1
    <2>1. \A j \in S : j <= m <=> j <= m - 1 \/ j = m
        BY <1>0, <1>8, <1>9
    <2>2. upTo(m) = upTo(m - 1) \cup {m} /\ m \notin upTo(m - 1)
        <3>1. upTo(m) = { j \in S : j <= m - 1 \/ j = m }
            BY <2>1
        <3>2. ~(m <= m - 1)
            BY <1>8
        <3> QED  BY <1>11, <3>1, <3>2
    <2>3. m - 1 \in Int
        BY <1>10
    <2>4. IsFiniteSet(upTo(m - 1))
        <3> HIDE DEF upTo
        <3> QED  BY <1>2, <2>3
    <2> HIDE DEF upTo
    <2> QED  BY <2>2, <2>4, FS_AddElement
<1>13. Cardinality(upTo(m)) = n
    <2>0. m \in Int /\ m - 1 \in Int
        BY <1>8
    <2>1. Cardinality(upTo(m)) \in Nat /\ Cardinality(upTo(m - 1)) \in Nat
        <3> HIDE DEF upTo
        <3> QED  BY <1>2, <2>0
    <2> HIDE DEF upTo
    <2> QED  BY <1>1, <1>8, <1>10, <1>12, <2>1
<1> QED  BY <1>11, <1>13 DEF Nth

\* A run that starts has an end.
LEMMA RunEnds ==
    ASSUME NEW text, NEW alone, NEW i \in 1..Len(text), Len(text) \in Nat
    PROVE  RunEnd(text, alone, i) \in i..Len(text)
<1> DEFINE L == Len(text)
           last(j) == j < L => Border(text, alone, j + 1)
           T == { j \in i..L : last(j) }
<1>1. L \in T
    OBVIOUS
<1>2. PICK j \in T : \A y \in T : j <= y
    <2>1. T \subseteq Nat /\ T # {}
        BY <1>1
    <2> HIDE DEF T
    <2> QED  BY <2>1, LeastOf
<1>3. ASSUME NEW x \in (i + 1)..j
      PROVE  ~Border(text, alone, x)
    <2>1. x - 1 \in i..L /\ x - 1 \notin T /\ x = (x - 1) + 1
        BY <1>2
    <2>2. ~last(x - 1)
        BY <2>1
    <2> QED  BY <2>1, <2>2
<1>4. j \in i..Len(text) /\ (j < Len(text) => Border(text, alone, j + 1))
    OBVIOUS
<1>5. \E y \in i..Len(text) :
        /\ \A x \in (i + 1)..y : ~Border(text, alone, x)
        /\ y < Len(text) => Border(text, alone, y + 1)
    BY <1>3, <1>4
<1> QED  BY <1>5 DEF RunEnd

\* What a text is split into are nonempty parts of it.
LEMMA RunsAreParts ==
    ASSUME NEW C, NEW text \in Seq(C), NEW alone
    PROVE  /\ Runs(text, alone) \in Seq(Seq(C))
           /\ \A n \in DOMAIN Runs(text, alone) : Runs(text, alone)[n] # <<>>
<1> DEFINE starts == RunStarts(text, alone)
           count == Cardinality(starts)
           run(n) == SubSeq(text, Nth(starts, n), RunEnd(text, alone, Nth(starts, n)))
<1>1. Len(text) \in Nat /\ DOMAIN text = 1..Len(text)
    BY LenProperties
<1>2. starts \subseteq 1..Len(text)
    BY <1>1 DEF RunStarts
<1>3. count \in Nat
    <2>1. IsFiniteSet(1..Len(text))
        BY <1>1, FS_Interval
    <2>2. IsFiniteSet(starts)
        BY <1>2, <2>1, FS_Subset
    <2> QED  BY <2>2, FS_CardinalityType
<1>4. ASSUME NEW n \in 1..count
      PROVE  run(n) \in Seq(C) /\ run(n) # <<>>
    <2> DEFINE f == Nth(starts, n)
               t == RunEnd(text, alone, f)
    <2>1. f \in 1..Len(text)
        <3>1. f \in starts
            <4> HIDE DEF starts
            <4> QED  BY <1>1, <1>2, <1>4, NthIsMember
        <3> QED  BY <1>2, <3>1
    <2> HIDE DEF f
    <2>2. t \in f..Len(text)
        BY <1>1, <2>1, RunEnds
    <2> HIDE DEF t
    <2>3. f \in Int /\ t \in Int /\ f <= t /\ \A i \in f..t : text[i] \in C
        <3>1. f \in Int /\ t \in Int /\ f <= t
            BY <1>1, <2>1, <2>2
        <3>2. \A i \in f..t : i \in 1..Len(text)
            BY <1>1, <2>1, <2>2
        <3> QED  BY <3>1, <3>2, ElementOfSeq
    <2>4. SubSeq(text, f, t) \in Seq(C) /\ Len(SubSeq(text, f, t)) = t - f + 1
        BY <2>3, SubSeqProperties
    <2>5. SubSeq(text, f, t) # <<>>
        <3>1. Len(SubSeq(text, f, t)) # 0
            BY <2>3, <2>4
        <3> QED  BY <3>1, EmptySeq, Zenon
    <2> QED  BY <2>4, <2>5 DEF f, t
<1>5. Runs(text, alone) = [n \in 1..count |-> run(n)]
    BY DEF Runs
<1> HIDE DEF count, run
<1>6. Runs(text, alone) \in [1..count -> Seq(C)]
    BY <1>4, <1>5
<1>7. Runs(text, alone) \in Seq(Seq(C))
    BY <1>3, <1>6, SeqDef
<1> QED  BY <1>4, <1>5, <1>7

\* The parts of a sequence that FlattenSeq makes, and how it makes it.
IsParts(s, C) ==
    /\ Len(s) \in Nat /\ (Len(s) = 0 => s = <<>>)
    /\ \A n \in 1..Len(s) : s[n] \in Seq(C)

Concatenates(f, s) ==
    /\ f[0] = <<>> /\ f[Len(s)] = FlattenSeq(s)
    /\ \A i \in 1..Len(s) : f[i] = f[i - 1] \o s[i]

\* The function that FlattenSeq defines by recursion exists.
LEMMA FlattenedStepwise ==
    ASSUME NEW C, NEW s, IsParts(s, C)
    PROVE  \E f \in [0..Len(s) -> Seq(C)] : Concatenates(f, s)
<1> USE DEF IsParts
<1> DEFINE L == Len(s)
           at(g, i) == IF i = 1 THEN s[i] ELSE g[i - 1] \o s[i]
           Flattens(g, m) == \A i \in 1..m : g[i] = at(g, i)
           T == { m \in 0..L : ~ \E g \in [1..m -> Seq(C)] : Flattens(g, m) }
<1>1. T = {}
    <2> SUFFICES ASSUME T # {} PROVE FALSE
        OBVIOUS
    <2>1. T \subseteq Nat
        OBVIOUS
    <2>2. PICK m \in T : \A y \in T : m <= y
        <3> HIDE DEF T
        <3> QED  BY <2>1, LeastOf
    <2>3. m \in 0..L /\ ~ \E g \in [1..m -> Seq(C)] : Flattens(g, m)
        <3> HIDE DEF Flattens
        <3> QED  BY <2>2
    <2>4. m # 0
        <3> SUFFICES ASSUME m = 0 PROVE FALSE
            OBVIOUS
        <3>1. <<>> \in [1..0 -> Seq(C)] /\ Flattens(<<>>, 0)
            OBVIOUS
        <3> HIDE DEF Flattens
        <3> QED  BY <2>3, <3>1
    <2>5. m - 1 \in 0..L /\ m - 1 \notin T
        <3>1. m - 1 \in 0..L /\ ~(m <= m - 1)
            BY <2>3, <2>4
        <3> HIDE DEF T
        <3> QED  BY <2>2, <3>1
    <2>6. PICK g \in [1..(m - 1) -> Seq(C)] : Flattens(g, m - 1)
        <3> HIDE DEF Flattens
        <3> QED  BY <2>5
    <2>7. at(g, m) \in Seq(C)
        <3>1. s[m] \in Seq(C) /\ (m # 1 => g[m - 1] \in Seq(C))
            BY <2>3, <2>4
        <3> QED  BY <3>1, ConcatProperties
    <2> DEFINE h == [i \in 1..m |-> IF i = m THEN at(g, m) ELSE g[i]]
    <2>8. h \in [1..m -> Seq(C)]
        <3>1. \A i \in 1..m : i # m => g[i] \in Seq(C)
            BY <2>3
        <3> HIDE DEF at
        <3> QED  BY <2>7, <3>1
    <2>9. Flattens(h, m)
        <3> SUFFICES ASSUME NEW i \in 1..m PROVE h[i] = at(h, i)
            OBVIOUS
        <3>1. i # 1 => i - 1 \in 1..m /\ h[i - 1] = g[i - 1]
            BY <2>3
        <3>2. at(h, i) = at(g, i)
            BY <3>1
        <3>3. CASE i = m
            BY <3>2, <3>3
        <3>4. CASE i # m
            <4>1. i \in 1..(m - 1)
                BY <2>3, <3>4
            <4> QED  BY <2>6, <3>2, <3>4, <4>1
        <3> QED  BY <3>3, <3>4
    <2> HIDE DEF h, Flattens
    <2> QED  BY <2>3, <2>8, <2>9
<1>2. PICK g \in [1..L -> Seq(C)] : Flattens(g, L)
    <2>1. L \in 0..L /\ L \notin T
        BY <1>1
    <2> HIDE DEF Flattens
    <2> QED  BY <2>1
<1> DEFINE flatten == CHOOSE f : f = [i \in 1..L |-> IF i = 1 THEN s[i] ELSE f[i - 1] \o s[i]]
<1>3. flatten = [i \in 1..L |-> IF i = 1 THEN s[i] ELSE flatten[i - 1] \o s[i]]
    <2>1. g = [i \in 1..L |-> IF i = 1 THEN s[i] ELSE g[i - 1] \o s[i]]
        BY <1>2
    <2> QED  BY <2>1
<1>4. FlattenSeq(s) = IF L = 0 THEN s ELSE flatten[L]
    BY DEF FlattenSeq
<1> HIDE DEF flatten
<1>5. \A i \in 1..L : flatten[i] \in Seq(C)
    <2> DEFINE U == { i \in 1..L : flatten[i] \notin Seq(C) }
    <2> SUFFICES ASSUME U # {} PROVE FALSE
        OBVIOUS
    <2>1. PICK m \in U : \A y \in U : m <= y
        <3>1. U \subseteq Nat
            OBVIOUS
        <3> HIDE DEF U
        <3> QED  BY <3>1, LeastOf
    <2>2. m \in 1..L /\ flatten[m] \notin Seq(C)
        OBVIOUS
    <2>3. m # 1 => flatten[m - 1] \in Seq(C)
        <3> SUFFICES ASSUME m # 1 PROVE flatten[m - 1] \in Seq(C)
            OBVIOUS
        <3>1. m - 1 \in 1..L /\ ~(m <= m - 1)
            BY <2>2
        <3>2. m - 1 \notin U
            <4> HIDE DEF U
            <4> QED  BY <2>1, <3>1
        <3> QED  BY <3>1, <3>2
    <2>4. s[m] \in Seq(C)
        BY <2>2
    <2>5. flatten[m] = IF m = 1 THEN s[m] ELSE flatten[m - 1] \o s[m]
        BY <1>3, <2>2
    <2>6. m # 1 => flatten[m - 1] \o s[m] \in Seq(C)
        BY <2>3, <2>4, ConcatProperties
    <2> QED  BY <2>2, <2>4, <2>5, <2>6
<1> DEFINE upto == [i \in 0..L |-> IF i = 0 THEN <<>> ELSE flatten[i]]
<1>6. upto \in [0..L -> Seq(C)]
    BY <1>5
<1>7. upto[0] = <<>> /\ upto[L] = FlattenSeq(s)
    BY <1>4
<1>8. ASSUME NEW i \in 1..L
      PROVE  upto[i] = upto[i - 1] \o s[i]
    <2>1. flatten[i] = IF i = 1 THEN s[i] ELSE flatten[i - 1] \o s[i]
        BY <1>3
    <2>2. s[i] \in Seq(C)
        OBVIOUS
    <2>3. <<>> \o s[i] = s[i]
        BY <2>2, ConcatEmptySeq
    <2>4. i = 1 => upto[i - 1] = <<>>
        OBVIOUS
    <2>5. i # 1 => upto[i - 1] = flatten[i - 1]
        OBVIOUS
    <2>6. upto[i] = flatten[i]
        OBVIOUS
    <2> HIDE DEF upto
    <2> QED  BY <2>1, <2>3, <2>4, <2>5, <2>6
<1> HIDE DEF upto
<1> QED  BY <1>6, <1>7, <1>8 DEF Concatenates

\* What FlattenSeq makes of sequences is a sequence.
LEMMA FlattenedIsSequence ==
    ASSUME NEW C, NEW s, IsParts(s, C)
    PROVE  FlattenSeq(s) \in Seq(C)
<1>1. PICK f \in [0..Len(s) -> Seq(C)] : Concatenates(f, s)
    BY FlattenedStepwise
<1>2. Len(s) \in 0..Len(s)
    BY DEF IsParts
<1> QED  BY <1>1, <1>2 DEF Concatenates

\* What texts are made of: characters, and the separator of Joined.
Letter == Char \cup {CHOOSE c \in Space : TRUE}

\* Joined words are a text.
LEMMA JoinedIsText ==
    ASSUME NEW parts \in Seq(Seq(Char))
    PROVE  Joined(parts) \in Seq(Letter)
<1> DEFINE sp == CHOOSE c \in Space : TRUE
           piece(n) == IF n = 1 THEN parts[n] ELSE <<sp>> \o parts[n]
           spaced == [n \in DOMAIN parts |-> piece(n)]
<1>1. Len(parts) \in Nat /\ DOMAIN parts = 1..Len(parts)
    BY LenProperties
<1>2. ASSUME NEW n \in 1..Len(parts)
      PROVE  piece(n) \in Seq(Letter)
    <2>1. parts[n] \in Seq(Char)
        BY <1>2, ElementOfSeq
    <2>2. parts[n] \in Seq(Letter)
        BY <2>1, SeqMonotonic DEF Letter
    <2>3. sp \in Letter
        BY DEF Letter
    <2> HIDE DEF sp
    <2>4. <<sp>> \in Seq(Letter)
        BY <2>3
    <2>5. <<sp>> \o parts[n] \in Seq(Letter)
        BY <2>2, <2>4, ConcatProperties
    <2> QED  BY <2>2, <2>5
<1>3. Joined(parts) = FlattenSeq(spaced)
    BY DEF Joined
<1>4. spaced = [n \in 1..Len(parts) |-> piece(n)]
    BY <1>1
<1> HIDE DEF spaced, piece
<1>5. spaced \in [1..Len(parts) -> Seq(Letter)]
    BY <1>2, <1>4
<1>6. spaced \in Seq(Seq(Letter)) /\ Len(spaced) = Len(parts)
    BY <1>1, <1>5
<1>7. Len(spaced) = 0 => spaced = <<>>
    BY <1>6, EmptySeq
<1>8. \A n \in 1..Len(spaced) : spaced[n] \in Seq(Letter)
    BY <1>5, <1>6
<1>9. IsParts(spaced, Letter)
    BY <1>1, <1>6, <1>7, <1>8 DEF IsParts
<1> QED  BY <1>3, <1>9, FlattenedIsSequence

\* BasicTokenize makes nonempty words.
LEMMA TokenizedWords ==
    ASSUME NEW C, NEW text \in Seq(C)
    PROVE  /\ IsSequence(BasicTokenize(text))
           /\ \A n \in DOMAIN BasicTokenize(text) :
                Len(BasicTokenize(text)[n]) \in Nat \ {0}
<1> DEFINE split == Runs(text, Alone)
           low(n) == [k \in DOMAIN split[n] |-> Lower[split[n][k]]]
           all == { low(n) : n \in DOMAIN split }
<1>1. split \in Seq(Seq(C)) /\ \A n \in DOMAIN split : split[n] # <<>>
    BY RunsAreParts
<1>2. BasicTokenize(text) = [n \in DOMAIN split |-> low(n)]
    BY DEF BasicTokenize
<1> HIDE DEF split
<1>3. Len(split) \in Nat /\ DOMAIN split = 1..Len(split)
    BY <1>1, LenProperties
<1>4. ASSUME NEW n \in 1..Len(split)
      PROVE  Len(low(n)) \in Nat \ {0}
    <2>1. split[n] \in Seq(C) /\ split[n] # <<>>
        BY <1>1, <1>3, <1>4, ElementOfSeq
    <2>2. Len(split[n]) \in Nat \ {0} /\ DOMAIN split[n] = 1..Len(split[n])
        BY <2>1, EmptySeq, LenProperties
    <2> DEFINE R == { Lower[split[n][k]] : k \in DOMAIN split[n] }
    <2>3. low(n) \in [1..Len(split[n]) -> R]
        BY <2>2
    <2> HIDE DEF low, R
    <2>4. Len(low(n)) = Len(split[n])
        BY <2>2, <2>3
    <2> QED  BY <2>2, <2>4
<1>5. \A n \in 1..Len(split) : low(n) \in all
    BY <1>3
<1> HIDE DEF low, all
<1>6. BasicTokenize(text) \in [1..Len(split) -> all]
    BY <1>2, <1>3, <1>5
<1>7. BasicTokenize(text) \in Seq(all)
    BY <1>3, <1>6, SeqDef
<1> QED  BY <1>2, <1>3, <1>4, <1>7 DEF IsSequence

(***************************************************************************)
(* The tokenizer.                                                          *)
(***************************************************************************)
\* Ids 2..m of s read the words ws from their start, without a gap.
Stands(ws, p) ==
    /\ p.word \in DOMAIN ws
    /\ \/ /\ p.kind = "piece"
          /\ p.to \in (p.from + 1)..Len(ws[p.word])
          /\ [inner |-> p.from > 0, chars |-> SubSeq(ws[p.word], p.from + 1, p.to)] \in Vocab
          /\ \A t \in (p.from + 1)..Len(ws[p.word]) :
                [inner |-> p.from > 0, chars |-> SubSeq(ws[p.word], p.from + 1, t)] \in Vocab
                    => t <= p.to
       \/ p = [kind |-> "unk", word |-> p.word, from |-> 0, to |-> Len(ws[p.word])]

Adjoins(ws, q, p) ==
    \/ q.word = p.word /\ q.from = p.to
    \/ q.word = p.word + 1 /\ p.to = Len(ws[p.word]) /\ q.from = 0

Reads(ws, s, m) ==
    /\ \A n \in 2..m : Stands(ws, s[n])
    /\ m >= 2 => s[2].word = 1 /\ s[2].from = 0
    /\ \A n \in 2..(m - 1) : Adjoins(ws, s[n + 1], s[n])

\* They read the first w words.
ReadsUpTo(ws, s, m, w) ==
    IF w = 0 THEN m = 1
    ELSE m >= 2 /\ s[m].word = w /\ s[m].to = Len(ws[w])

\* Pieces that read word w from its start up to f.
Pieces(ws, w, ps, f) ==
    /\ \A n \in 1..Len(ps) : Stands(ws, ps[n]) /\ ps[n].word = w
    /\ ps # <<>> => ps[1].from = 0 /\ ps[Len(ps)].to = f
    /\ \A n \in 1..(Len(ps) - 1) : ps[n + 1].from = ps[n].to
    /\ ps = <<>> => f = 0

AreWords(ws) ==
    /\ IsSequence(ws)
    /\ \A n \in DOMAIN ws : Len(ws[n]) \in Nat \ {0}

EncodingInv ==
    /\ encoding \in {"idle", "word", "match", "done"}
    /\ encoding = "idle" => word = 0
    /\ encoding # "idle" =>
        /\ AreWords(words)
        /\ word \in 0..Len(words)
        /\ ids \in Seq(Id) /\ Len(ids) >= 1 /\ ids[1] = Special("cls")
    /\ encoding = "word" =>
        /\ Len(ids) <= MaxTokens - 1
        /\ Reads(words, ids, Len(ids))
        /\ Len(ids) < MaxTokens - 1 => ReadsUpTo(words, ids, Len(ids), word)
    /\ encoding = "match" =>
        /\ Len(ids) < MaxTokens - 1
        /\ Reads(words, ids, Len(ids))
        /\ word \in 1..Len(words)
        /\ ReadsUpTo(words, ids, Len(ids), word - 1)
        /\ from \in Nat
        /\ pieces \in Seq(Id) /\ Pieces(words, word, pieces, from)
    /\ encoding = "done" =>
        /\ Len(ids) \in 2..MaxTokens /\ ids[Len(ids)] = Special("sep")
        /\ Reads(words, ids, Len(ids) - 1)
        /\ Len(ids) < MaxTokens => ReadsUpTo(words, ids, Len(ids) - 1, Len(words))

EncodingMoves ==
    \/ \E text \in Seq(Letter) : Encode(text)
    \/ EncodeStep \/ ForgetIds \/ UNCHANGED encodingVars

\* An id is put behind ids that read up to where it stands.
LEMMA ReadsOneMore ==
    ASSUME NEW ws, AreWords(ws), NEW s \in Seq(Id), Len(s) >= 1,
           NEW m \in 1..Len(s), Reads(ws, s, m),
           NEW r \in Seq(Id), Len(r) > m, \A n \in 1..m : r[n] = s[n],
           Stands(ws, r[m + 1]),
           \/ m = 1 /\ r[m + 1].word = 1 /\ r[m + 1].from = 0
           \/ m >= 2 /\ Adjoins(ws, r[m + 1], r[m])
    PROVE  Reads(ws, r, m + 1)
<1>1. \A n \in 2..(m + 1) : n # m + 1 => n \in 2..m /\ n \in 1..m
    OBVIOUS
<1>2. \A n \in 2..(m + 1) : Stands(ws, r[n])
    <2> SUFFICES ASSUME NEW n \in 2..(m + 1) PROVE Stands(ws, r[n])
        OBVIOUS
    <2>1. CASE n = m + 1
        BY <2>1
    <2>2. CASE n # m + 1
        <3>1. r[n] = s[n] /\ Stands(ws, s[n])
            BY <1>1, <2>2 DEF Reads
        <3> QED  BY <3>1
    <2> QED  BY <2>1, <2>2
<1>3. r[2].word = 1 /\ r[2].from = 0
    <2>1. CASE m = 1
        BY <2>1
    <2>2. CASE m # 1
        <3>1. m >= 2 /\ 2 \in 1..m
            BY <2>2
        <3>2. r[2] = s[2]
            BY <3>1
        <3>3. s[2].word = 1 /\ s[2].from = 0
            BY <3>1 DEF Reads
        <3> QED  BY <3>2, <3>3
    <2> QED  BY <2>1, <2>2
<1>4. ASSUME NEW n \in 2..m
      PROVE  Adjoins(ws, r[n + 1], r[n])
    <2>1. CASE n = m
        <3>1. m >= 2
            BY <2>1
        <3> QED  BY <2>1, <3>1
    <2>2. CASE n # m
        <3>1. n \in 2..(m - 1) /\ n \in 1..m /\ n + 1 \in 1..m
            BY <2>2
        <3>2. Adjoins(ws, s[n + 1], s[n])
            BY <3>1 DEF Reads
        <3>3. r[n + 1] = s[n + 1] /\ r[n] = s[n]
            BY <3>1
        <3> QED  BY <3>2, <3>3
    <2> QED  BY <2>1, <2>2
<1>5. (m + 1) - 1 = m
    OBVIOUS
<1> QED  BY <1>2, <1>3, <1>4, <1>5 DEF Reads

\* What comes next stands at the start of the next word.
LEMMA NextWordAdjoins ==
    ASSUME NEW ws, NEW s, NEW m \in Nat, NEW w \in Nat, ReadsUpTo(ws, s, m, w),
           NEW q, q.word = w + 1, q.from = 0
    PROVE  \/ m = 1 /\ q.word = 1 /\ q.from = 0
           \/ m >= 2 /\ Adjoins(ws, q, s[m])
<1>1. CASE w = 0
    BY <1>1 DEF ReadsUpTo
<1>2. CASE w # 0
    BY <1>2 DEF ReadsUpTo, Adjoins
<1> QED  BY <1>1, <1>2

\* A word given up is read whole.
LEMMA UnknownAppended ==
    ASSUME NEW ws, AreWords(ws), NEW s \in Seq(Id), Len(s) >= 1, Reads(ws, s, Len(s)),
           NEW w \in 1..Len(ws), ReadsUpTo(ws, s, Len(s), w - 1),
           NEW u, u = [kind |-> "unk", word |-> w, from |-> 0, to |-> Len(ws[w])]
    PROVE  /\ Append(s, u) \in Seq(Id) /\ Len(Append(s, u)) = Len(s) + 1
           /\ Append(s, u)[1] = s[1]
           /\ Reads(ws, Append(s, u), Len(s) + 1)
           /\ ReadsUpTo(ws, Append(s, u), Len(s) + 1, w)
<1>1. w \in DOMAIN ws /\ Len(ws[w]) \in Nat /\ w \in Nat \ {0}
    BY DEF AreWords, IsSequence
<1>2. u \in Id
    BY <1>1 DEF Id
<1>3. u.word = w /\ u.from = 0 /\ u.to = Len(ws[w])
    OBVIOUS
<1> DEFINE r == Append(s, u)
<1>4. /\ r \in Seq(Id) /\ Len(r) = Len(s) + 1
      /\ \A n \in 1..Len(s) : r[n] = s[n]
      /\ r[Len(s) + 1] = u
    BY <1>2, AppendProperties
<1>5. Len(s) \in Nat /\ Len(s) \in 1..Len(s) /\ 1 \in 1..Len(s)
    BY LenProperties
<1> HIDE DEF r
<1>6. Stands(ws, u)
    BY <1>1, <1>3 DEF Stands
<1>7. \/ Len(s) = 1 /\ u.word = 1 /\ u.from = 0
      \/ Len(s) >= 2 /\ Adjoins(ws, u, s[Len(s)])
    <2>1. w - 1 \in Nat /\ u.word = (w - 1) + 1
        BY <1>1, <1>3
    <2> QED  BY <1>3, <1>5, <2>1, NextWordAdjoins
<1>8. Reads(ws, r, Len(s) + 1)
    <2>1. r[Len(s)] = s[Len(s)]
        BY <1>4, <1>5
    <2>2. Stands(ws, r[Len(s) + 1]) /\ Len(r) > Len(s)
        BY <1>4, <1>5, <1>6
    <2>3. \/ Len(s) = 1 /\ r[Len(s) + 1].word = 1 /\ r[Len(s) + 1].from = 0
          \/ Len(s) >= 2 /\ Adjoins(ws, r[Len(s) + 1], r[Len(s)])
        BY <1>4, <1>7, <2>1
    <2> QED  BY <1>4, <1>5, <2>2, <2>3, ReadsOneMore, Zenon
<1>9. ReadsUpTo(ws, r, Len(s) + 1, w)
    BY <1>1, <1>3, <1>4, <1>5 DEF ReadsUpTo
<1> QED  BY <1>4, <1>5, <1>8, <1>9 DEF r

\* The pieces of a matched word, or as many as fit.
LEMMA PiecesAppended ==
    ASSUME NEW ws, NEW s \in Seq(Id), Len(s) >= 1, Reads(ws, s, Len(s)),
           NEW w \in Nat \ {0}, ReadsUpTo(ws, s, Len(s), w - 1),
           NEW f, NEW ps \in Seq(Id), Pieces(ws, w, ps, f), NEW k \in 1..Len(ps)
    PROVE  /\ s \o SubSeq(ps, 1, k) \in Seq(Id)
           /\ Len(s \o SubSeq(ps, 1, k)) = Len(s) + k
           /\ (s \o SubSeq(ps, 1, k))[1] = s[1]
           /\ (s \o SubSeq(ps, 1, k))[Len(s) + k] = ps[k]
           /\ Reads(ws, s \o SubSeq(ps, 1, k), Len(s) + k)
<1> DEFINE cut == SubSeq(ps, 1, k)
           r == s \o cut
           m == Len(s)
<1>1. m \in Nat /\ m >= 1 /\ Len(ps) \in Nat /\ k \in Nat /\ k >= 1 /\ k <= Len(ps)
    BY LenProperties
<1>2. \A i \in 1..k : i \in 1..Len(ps) /\ ps[i] \in Id
    BY <1>1, ElementOfSeq
<1>3. cut \in Seq(Id) /\ Len(cut) = k /\ \A i \in 1..k : cut[i] = ps[i]
    <2>1. 1 \in Int /\ k \in Int /\ (IF 1 <= k THEN k - 1 + 1 ELSE 0) = k
        BY <1>1
    <2>2. cut \in Seq(Id) /\ Len(cut) = k
        BY <1>2, <2>1, SubSeqProperties
    <2>3. \A i \in 1..(k - 1 + 1) : cut[i] = ps[1 + i - 1]
        BY <1>2, <2>1, SubSeqProperties
    <2> QED  BY <1>1, <2>2, <2>3
<1> HIDE DEF cut
<1>4. /\ r \in Seq(Id) /\ Len(r) = m + k
      /\ \A i \in 1..(m + k) : r[i] = IF i <= m THEN s[i] ELSE cut[i - m]
    BY <1>3, ConcatProperties
<1> HIDE DEF r
<1>5. (\A i \in 1..m : r[i] = s[i]) /\ \A i \in 1..k : r[m + i] = ps[i]
    <2>1. ASSUME NEW i \in 1..m PROVE r[i] = s[i]
        BY <1>1, <1>4
    <2>2. ASSUME NEW i \in 1..k PROVE r[m + i] = ps[i]
        <3>1. m + i \in 1..(m + k) /\ ~(m + i <= m) /\ (m + i) - m = i
            BY <1>1
        <3> QED  BY <1>3, <1>4, <3>1
    <2> QED  BY <2>1, <2>2
<1> HIDE DEF m
<1>6. /\ \A i \in 1..k : Stands(ws, ps[i]) /\ ps[i].word = w
      /\ ps[1].from = 0
      /\ \A i \in 1..(k - 1) : ps[i + 1].from = ps[i].to
    <2>1. 1 \in 1..Len(ps) /\ ps # <<>>
        <3>1. Len(ps) # 0
            BY <1>1
        <3> QED  BY <1>1, <3>1, EmptySeq
    <2>2. \A i \in 1..(k - 1) : i \in 1..(Len(ps) - 1)
        BY <1>1
    <2> QED  BY <1>2, <2>1, <2>2 DEF Pieces
<1>7. \/ m = 1 /\ ps[1].word = 1 /\ ps[1].from = 0
      \/ m >= 2 /\ Adjoins(ws, ps[1], s[m])
    <2>1. 1 \in 1..k
        BY <1>1
    <2>2. w - 1 \in Nat /\ ps[1].word = (w - 1) + 1 /\ ps[1].from = 0
        BY <1>6, <2>1
    <2> QED  BY <1>1, <2>2, NextWordAdjoins DEF m
<1>8. \A n \in 2..(m + k) : n \in 1..m \/ \E i \in 1..k : n = m + i
    <2> SUFFICES ASSUME NEW n \in 2..(m + k), ~(n <= m) PROVE \E i \in 1..k : n = m + i
        BY <1>1
    <2>1. n - m \in 1..k /\ n = m + (n - m)
        BY <1>1
    <2> QED  BY <2>1
<1>9. Reads(ws, s, m)
    BY DEF m
<1>10. \A n \in 2..(m + k) : Stands(ws, r[n])
    <2> SUFFICES ASSUME NEW n \in 2..(m + k) PROVE Stands(ws, r[n])
        OBVIOUS
    <2>1. CASE n \in 1..m
        <3>1. n \in 2..m /\ r[n] = s[n]
            BY <1>5, <2>1
        <3>2. Stands(ws, s[n])
            BY <1>9, <3>1 DEF Reads
        <3> QED  BY <3>1, <3>2
    <2>2. CASE \E i \in 1..k : n = m + i
        BY <1>5, <1>6, <2>2
    <2> QED  BY <1>8, <2>1, <2>2
<1>11. r[2].word = 1 /\ r[2].from = 0
    <2>1. CASE m = 1
        <3>1. 1 \in 1..k /\ m + 1 = 2
            BY <1>1, <2>1
        <3>2. r[2] = ps[1]
            BY <1>5, <3>1
        <3> QED  BY <1>7, <2>1, <3>2
    <2>2. CASE m # 1
        <3>1. m >= 2 /\ 2 \in 1..m
            BY <1>1, <2>2
        <3> QED  BY <1>5, <1>9, <3>1 DEF Reads
    <2> QED  BY <2>1, <2>2
<1>12. ASSUME NEW n \in 2..((m + k) - 1)
       PROVE  Adjoins(ws, r[n + 1], r[n])
    <2>1. CASE n < m
        <3>1. n \in 2..(m - 1) /\ n \in 1..m /\ n + 1 \in 1..m
            BY <1>1, <2>1
        <3>2. Adjoins(ws, s[n + 1], s[n])
            BY <1>9, <3>1 DEF Reads
        <3>3. r[n + 1] = s[n + 1] /\ r[n] = s[n]
            BY <1>5, <3>1
        <3> QED  BY <3>2, <3>3
    <2>2. CASE n = m
        <3>1. m \in 1..m /\ 1 \in 1..k /\ m >= 2
            BY <1>1, <2>2
        <3>2. r[m + 1] = ps[1] /\ r[m] = s[m]
            BY <1>5, <3>1
        <3>3. Adjoins(ws, ps[1], s[m])
            BY <1>7, <3>1
        <3> QED  BY <2>2, <3>2, <3>3
    <2>3. CASE n > m
        <3> DEFINE i == n - m
        <3>1. i \in 1..(k - 1) /\ i \in 1..k /\ i + 1 \in 1..k
            BY <1>1, <2>3
        <3>2. n = m + i /\ n + 1 = m + (i + 1)
            BY <1>1
        <3> HIDE DEF i
        <3>3. r[n] = ps[i] /\ r[n + 1] = ps[i + 1]
            BY <1>5, <3>1, <3>2
        <3>4. ps[i + 1].word = ps[i].word /\ ps[i + 1].from = ps[i].to
            BY <1>6, <3>1
        <3> QED  BY <3>3, <3>4 DEF Adjoins
    <2> QED  BY <1>1, <2>1, <2>2, <2>3
<1>13. Reads(ws, r, m + k)
    BY <1>10, <1>11, <1>12 DEF Reads
<1>14. 1 \in 1..m /\ k \in 1..k
    BY <1>1
<1> QED  BY <1>4, <1>5, <1>13, <1>14 DEF r, m, cut

\* One more piece of a word.
LEMMA PieceAppended ==
    ASSUME NEW ws, NEW w, NEW f \in Nat, NEW ps \in Seq(Id), Pieces(ws, w, ps, f),
           NEW p \in Id, Stands(ws, p), p.word = w, p.from = f
    PROVE  Append(ps, p) \in Seq(Id) /\ Pieces(ws, w, Append(ps, p), p.to)
<1> DEFINE q == Append(ps, p)
           m == Len(ps)
<1>1. m \in Nat
    BY LenProperties
<1>2. /\ q \in Seq(Id) /\ q # <<>> /\ Len(q) = m + 1
      /\ \A i \in 1..m : q[i] = ps[i]
      /\ q[m + 1] = p
    BY AppendProperties
<1> HIDE DEF q
<1>3. \A n \in 1..(m + 1) : Stands(ws, q[n]) /\ q[n].word = w
    <2> SUFFICES ASSUME NEW n \in 1..(m + 1) PROVE Stands(ws, q[n]) /\ q[n].word = w
        OBVIOUS
    <2>1. CASE n = m + 1
        BY <1>2, <2>1
    <2>2. CASE n # m + 1
        <3>1. n \in 1..m
            BY <1>1, <2>2
        <3> QED  BY <1>2, <3>1 DEF Pieces
    <2> QED  BY <2>1, <2>2
<1>4. q[1].from = 0
    <2>1. CASE ps = <<>>
        <3>1. m = 0 /\ f = 0
            BY <2>1 DEF Pieces
        <3> QED  BY <1>2, <3>1
    <2>2. CASE ps # <<>>
        <3>1. m \in Nat \ {0}
            BY <2>2, EmptySeq
        <3>2. 1 \in 1..m
            BY <3>1
        <3> QED  BY <1>2, <2>2, <3>2 DEF Pieces
    <2> QED  BY <2>1, <2>2
<1>5. ASSUME NEW n \in 1..m
      PROVE  q[n + 1].from = q[n].to
    <2>1. CASE n = m
        <3>1. ps # <<>>
            <4>1. Len(ps) # 0
                BY <1>1, <2>1
            <4> QED  BY <4>1, EmptySeq
        <3>2. ps[m].to = f
            BY <3>1 DEF Pieces
        <3> QED  BY <1>2, <2>1, <3>2
    <2>2. CASE n # m
        <3>1. n \in 1..(m - 1) /\ n + 1 \in 1..m
            BY <1>1, <2>2
        <3> QED  BY <1>2, <3>1 DEF Pieces
    <2> QED  BY <2>1, <2>2
<1>6. q[Len(q)].to = p.to /\ Len(q) - 1 = m
    BY <1>1, <1>2
<1>7. Pieces(ws, w, q, p.to)
    BY <1>2, <1>3, <1>4, <1>5, <1>6 DEF Pieces
<1> QED  BY <1>2, <1>7 DEF q

\* Every operation of the tokenizer keeps its invariant.
LEMMA EncodingOperations ==
    ASSUME EncodingInv, EncodingMoves
    PROVE  EncodingInv'
<1>0. MaxTokens \in Nat /\ MaxTokens >= 2
    BY WordPieceAssumption
<1>1. encoding # "idle" => Len(ids) \in Nat /\ Len(words) \in Nat
    BY DEF EncodingInv, AreWords, IsSequence
<1>2. CASE \E text \in Seq(Letter) : Encode(text)
    <2>1. PICK text \in Seq(Letter) : Encode(text)
        BY <1>2
    <2>2. /\ words' = BasicTokenize(text) /\ ids' = <<Special("cls")>>
          /\ encoding' = "word" /\ word' = 0
        BY <2>1 DEF Encode, EncodingInv
    <2>3. AreWords(words')
        BY <2>2, TokenizedWords DEF AreWords
    <2>4. Special("cls") \in Id
        BY DEF Special, Id
    <2> DEFINE c == Special("cls")
    <2> HIDE DEF c
    <2>5. <<c>> \in Seq(Id) /\ Len(<<c>>) = 1 /\ <<c>>[1] = c
        BY <2>4 DEF c
    <2>6. ids' \in Seq(Id) /\ Len(ids') = 1 /\ ids'[1] = Special("cls")
        BY <2>2, <2>5 DEF c
    <2>7. Reads(words', ids', 1) /\ ReadsUpTo(words', ids', 1, 0)
        BY DEF Reads, ReadsUpTo
    <2>8. 0 \in 0..Len(words')
        BY <2>3 DEF AreWords, IsSequence
    <2> QED  BY <1>0, <2>2, <2>3, <2>6, <2>7, <2>8 DEF EncodingInv
<1>3. CASE EnterWord
    <2>1. /\ encoding = "word" /\ word < Len(words) /\ Len(ids) < MaxTokens - 1
          /\ word' = word + 1 /\ from' = 0 /\ pieces' = <<>> /\ encoding' = "match"
          /\ words' = words /\ ids' = ids
        BY <1>0, <1>1, <1>3 DEF EnterWord, Room
    <2>2. word \in Nat /\ word + 1 \in 1..Len(words) /\ (word + 1) - 1 = word
        BY <1>1, <2>1 DEF EncodingInv
    <2>3. pieces' \in Seq(Id) /\ Pieces(words, word + 1, <<>>, 0)
        BY <2>1 DEF Pieces
    <2> QED  BY <1>0, <1>1, <2>1, <2>2, <2>3 DEF EncodingInv
<1>4. CASE EnterLongWord
    <2>1. /\ encoding = "word" /\ word < Len(words) /\ Len(ids) < MaxTokens - 1
          /\ word' = word + 1 /\ ids' = Append(ids, Unknown(word + 1))
          /\ encoding' = "word" /\ words' = words
        BY <1>0, <1>1, <1>4 DEF EnterLongWord, Room
    <2>2. word \in Nat /\ word + 1 \in 1..Len(words) /\ (word + 1) - 1 = word
        BY <1>1, <2>1 DEF EncodingInv
    <2>3. /\ AreWords(words) /\ ids \in Seq(Id) /\ Len(ids) >= 1 /\ ids[1] = Special("cls")
          /\ Reads(words, ids, Len(ids)) /\ ReadsUpTo(words, ids, Len(ids), word)
        BY <2>1 DEF EncodingInv
    <2>4. Unknown(word + 1) =
            [kind |-> "unk", word |-> word + 1, from |-> 0, to |-> Len(words[word + 1])]
        BY DEF Unknown
    <2>5. ReadsUpTo(words, ids, Len(ids), (word + 1) - 1)
        BY <2>2, <2>3
    <2>6. /\ ids' \in Seq(Id) /\ Len(ids') = Len(ids) + 1 /\ ids'[1] = ids[1]
          /\ Reads(words, ids', Len(ids) + 1)
          /\ ReadsUpTo(words, ids', Len(ids) + 1, word + 1)
        <3> DEFINE u == Unknown(word + 1)
                   n == word + 1
        <3>1. ids' = Append(ids, u)
            BY <2>1
        <3>2. n \in 1..Len(words) /\ ReadsUpTo(words, ids, Len(ids), n - 1)
              /\ u = [kind |-> "unk", word |-> n, from |-> 0, to |-> Len(words[n])]
            BY <2>2, <2>4, <2>5
        <3> HIDE DEF u, n
        <3>3. /\ Append(ids, u) \in Seq(Id) /\ Len(Append(ids, u)) = Len(ids) + 1
              /\ Append(ids, u)[1] = ids[1]
              /\ Reads(words, Append(ids, u), Len(ids) + 1)
              /\ ReadsUpTo(words, Append(ids, u), Len(ids) + 1, n)
            BY <2>3, <3>2, UnknownAppended
        <3> QED  BY <3>1, <3>3 DEF n
    <2>7. Len(ids') >= 1 /\ Len(ids') <= MaxTokens - 1 /\ Len(ids') = Len(ids) + 1
        BY <1>0, <1>1, <2>1, <2>3, <2>6
    <2>8. word + 1 \in 0..Len(words)
        BY <2>2
    <2> QED  BY <2>1, <2>3, <2>6, <2>7, <2>8 DEF EncodingInv
<1>5. CASE MatchPiece
    <2>1. PICK t \in Matches(word, from) :
            /\ \A u \in Matches(word, from) : u <= t
            /\ pieces' = Append(pieces, Piece(word, from, t))
            /\ from' = t
        BY <1>5 DEF MatchPiece
    <2>2. /\ encoding = "match" /\ encoding' = "match"
          /\ words' = words /\ word' = word /\ ids' = ids
        BY <1>5 DEF MatchPiece
    <2>3. /\ AreWords(words) /\ word \in 1..Len(words) /\ from \in Nat
          /\ pieces \in Seq(Id) /\ Pieces(words, word, pieces, from)
        BY <2>2 DEF EncodingInv
    <2>4. word \in DOMAIN words /\ word \in Nat /\ Len(words[word]) \in Nat
        BY <2>3 DEF AreWords, IsSequence
    <2> DEFINE p == Piece(word, from, t)
    <2>5. /\ t \in (from + 1)..Len(words[word])
          /\ [inner |-> from > 0, chars |-> SubSeq(words[word], from + 1, t)] \in Vocab
          /\ \A u \in (from + 1)..Len(words[word]) :
                [inner |-> from > 0, chars |-> SubSeq(words[word], from + 1, u)] \in Vocab
                    => u <= t
        BY <2>1 DEF Matches
    <2>6. t \in Nat
        BY <2>3, <2>4, <2>5
    <2>7. p \in Id /\ p.kind = "piece" /\ p.word = word /\ p.from = from /\ p.to = t
        BY <2>3, <2>4, <2>6 DEF Piece, Id
    <2> HIDE DEF p
    <2>8. Stands(words, p)
        <3>1. p.word \in DOMAIN words
            BY <2>4, <2>7
        <3>2. p.to \in (p.from + 1)..Len(words[p.word])
            BY <2>5, <2>7
        <3>3. [inner |-> p.from > 0, chars |-> SubSeq(words[p.word], p.from + 1, p.to)] \in Vocab
            BY <2>5, <2>7
        <3>4. \A u \in (p.from + 1)..Len(words[p.word]) :
                [inner |-> p.from > 0, chars |-> SubSeq(words[p.word], p.from + 1, u)] \in Vocab
                    => u <= p.to
            BY <2>5, <2>7, Zenon
        <3> QED  BY <2>7, <3>1, <3>2, <3>3, <3>4 DEF Stands
    <2>9. Append(pieces, p) \in Seq(Id) /\ Pieces(words, word, Append(pieces, p), p.to)
        BY <2>3, <2>7, <2>8, PieceAppended
    <2>10. pieces' \in Seq(Id) /\ Pieces(words, word, pieces', from') /\ from' \in Nat
        BY <2>1, <2>6, <2>7, <2>9 DEF p
    <2> QED  BY <2>2, <2>10 DEF EncodingInv
<1>6. CASE NoMatch
    <2>1. /\ encoding = "match" /\ encoding' = "word"
          /\ words' = words /\ word' = word /\ ids' = Append(ids, Unknown(word))
        BY <1>6 DEF NoMatch
    <2>2. /\ AreWords(words) /\ word \in 1..Len(words)
          /\ ids \in Seq(Id) /\ Len(ids) >= 1 /\ ids[1] = Special("cls")
          /\ Len(ids) < MaxTokens - 1
          /\ Reads(words, ids, Len(ids)) /\ ReadsUpTo(words, ids, Len(ids), word - 1)
        BY <2>1 DEF EncodingInv
    <2> DEFINE u == Unknown(word)
    <2>3. u = [kind |-> "unk", word |-> word, from |-> 0, to |-> Len(words[word])]
        BY DEF Unknown
    <2> HIDE DEF u
    <2>4. /\ Append(ids, u) \in Seq(Id) /\ Len(Append(ids, u)) = Len(ids) + 1
          /\ Append(ids, u)[1] = ids[1]
          /\ Reads(words, Append(ids, u), Len(ids) + 1)
          /\ ReadsUpTo(words, Append(ids, u), Len(ids) + 1, word)
        BY <2>2, <2>3, UnknownAppended
    <2>5. ids' = Append(ids, u)
        BY <2>1 DEF u
    <2>6. Len(ids') >= 1 /\ Len(ids') <= MaxTokens - 1 /\ Len(ids') = Len(ids) + 1
        BY <1>0, <1>1, <2>1, <2>2, <2>4, <2>5
    <2>7. word \in 0..Len(words)
        BY <2>2
    <2> QED  BY <2>1, <2>2, <2>4, <2>5, <2>6, <2>7 DEF EncodingInv
<1>7. CASE LeaveWord
    <2>1. /\ encoding = "match" /\ encoding' = "word" /\ from = Len(words[word])
          /\ words' = words /\ word' = word
          /\ ids' = ids \o SubSeq(pieces, 1, IF Len(pieces) < Room THEN Len(pieces) ELSE Room)
        BY <1>7 DEF LeaveWord
    <2>2. /\ AreWords(words) /\ word \in 1..Len(words)
          /\ ids \in Seq(Id) /\ Len(ids) >= 1 /\ ids[1] = Special("cls")
          /\ Len(ids) < MaxTokens - 1
          /\ Reads(words, ids, Len(ids)) /\ ReadsUpTo(words, ids, Len(ids), word - 1)
          /\ pieces \in Seq(Id) /\ Pieces(words, word, pieces, from)
        BY <2>1 DEF EncodingInv
    <2>3. from \in Nat \ {0} /\ word \in Nat \ {0}
        BY <2>1, <2>2 DEF AreWords, IsSequence
    <2>4. pieces # <<>>
        BY <2>2, <2>3 DEF Pieces
    <2>5. Len(pieces) \in Nat \ {0}
        BY <2>2, <2>4, EmptySeq
    <2> DEFINE k == IF Len(pieces) < Room THEN Len(pieces) ELSE Room
    <2>6. /\ k \in 1..Len(pieces) /\ Len(ids) + k <= MaxTokens - 1
          /\ Len(ids) + k < MaxTokens - 1 => k = Len(pieces)
        BY <1>0, <1>1, <2>1, <2>2, <2>5 DEF Room
    <2>7. ids' = ids \o SubSeq(pieces, 1, k)
        BY <2>1
    <2> HIDE DEF k
    <2>8. /\ ids' \in Seq(Id) /\ Len(ids') = Len(ids) + k /\ ids'[1] = ids[1]
          /\ ids'[Len(ids) + k] = pieces[k] /\ Reads(words, ids', Len(ids) + k)
        BY <2>2, <2>3, <2>6, <2>7, PiecesAppended
    <2>9. Len(ids) + k < MaxTokens - 1 => ReadsUpTo(words, ids', Len(ids) + k, word)
        <3> SUFFICES ASSUME Len(ids) + k < MaxTokens - 1
                     PROVE  ReadsUpTo(words, ids', Len(ids) + k, word)
            OBVIOUS
        <3>1. k = Len(pieces) /\ k \in 1..Len(pieces)
            BY <2>6
        <3>2. pieces[k].word = word /\ pieces[k].to = Len(words[word])
            BY <2>1, <2>2, <2>4, <3>1 DEF Pieces
        <3>3. Len(ids) + k >= 2
            BY <1>1, <2>1, <2>2, <2>5, <3>1
        <3> QED  BY <2>3, <2>8, <3>2, <3>3 DEF ReadsUpTo
    <2>10. Len(ids') >= 1 /\ Len(ids') <= MaxTokens - 1
        BY <1>1, <2>1, <2>2, <2>6, <2>8
    <2>11. word \in 0..Len(words)
        BY <2>2
    <2> QED  BY <2>1, <2>2, <2>8, <2>9, <2>10, <2>11 DEF EncodingInv
<1>8. CASE Separate
    <2>1. /\ encoding = "word" /\ encoding' = "done"
          /\ word = Len(words) \/ Len(ids) >= MaxTokens - 1
          /\ words' = words /\ word' = word /\ ids' = Append(ids, Special("sep"))
        BY <1>0, <1>1, <1>8 DEF Separate, Room
    <2>2. /\ AreWords(words) /\ word \in 0..Len(words)
          /\ ids \in Seq(Id) /\ Len(ids) >= 1 /\ ids[1] = Special("cls")
          /\ Len(ids) <= MaxTokens - 1
          /\ Reads(words, ids, Len(ids))
          /\ Len(ids) < MaxTokens - 1 => ReadsUpTo(words, ids, Len(ids), word)
        BY <2>1 DEF EncodingInv
    <2>3. Special("sep") \in Id
        BY DEF Special, Id
    <2>4. /\ ids' \in Seq(Id) /\ Len(ids') = Len(ids) + 1
          /\ \A n \in 1..Len(ids) : ids'[n] = ids[n]
          /\ ids'[Len(ids) + 1] = Special("sep")
        BY <2>1, <2>2, <2>3, AppendProperties
    <2>5. /\ Len(ids) \in 1..Len(ids) /\ 1 \in 1..Len(ids) /\ Len(ids') - 1 = Len(ids)
          /\ Len(ids') \in 2..MaxTokens /\ Len(ids') >= 1
        BY <1>0, <1>1, <2>1, <2>2, <2>4
    <2>6. Reads(words, ids', Len(ids))
        <3>1. \A n \in 2..Len(ids) : n \in 1..Len(ids) /\ ids'[n] = ids[n]
            BY <2>4
        <3>2. \A n \in 2..(Len(ids) - 1) : n \in 1..Len(ids) /\ n + 1 \in 1..Len(ids)
            BY <2>5
        <3>3. \A n \in 2..(Len(ids) - 1) : Adjoins(words, ids'[n + 1], ids'[n])
            <4> SUFFICES ASSUME NEW n \in 2..(Len(ids) - 1)
                         PROVE  Adjoins(words, ids'[n + 1], ids'[n])
                OBVIOUS
            <4>1. ids'[n + 1] = ids[n + 1] /\ ids'[n] = ids[n]
                BY <2>4, <3>2
            <4>2. Adjoins(words, ids[n + 1], ids[n])
                BY <2>2 DEF Reads
            <4> QED  BY <4>1, <4>2
        <3>4. \A n \in 2..Len(ids) : Stands(words, ids'[n])
            BY <2>2, <3>1 DEF Reads
        <3>5. Len(ids) >= 2 => ids'[2].word = 1 /\ ids'[2].from = 0
            <4> SUFFICES ASSUME Len(ids) >= 2 PROVE ids'[2].word = 1 /\ ids'[2].from = 0
                OBVIOUS
            <4>1. 2 \in 2..Len(ids)
                BY <2>5
            <4>2. ids'[2] = ids[2]
                BY <3>1, <4>1
            <4>3. ids[2].word = 1 /\ ids[2].from = 0
                BY <2>2 DEF Reads
            <4> QED  BY <4>2, <4>3
        <3> QED  BY <3>3, <3>4, <3>5 DEF Reads
    <2>7. Len(ids') < MaxTokens => ReadsUpTo(words, ids', Len(ids), Len(words))
        <3> SUFFICES ASSUME Len(ids') < MaxTokens
                     PROVE  ReadsUpTo(words, ids', Len(ids), Len(words))
            OBVIOUS
        <3>1. Len(ids) < MaxTokens - 1 /\ word = Len(words)
            BY <1>0, <1>1, <2>1, <2>2, <2>4
        <3>2. ReadsUpTo(words, ids, Len(ids), Len(words))
            BY <2>2, <3>1
        <3>3. ids'[Len(ids)] = ids[Len(ids)]
            BY <2>4, <2>5
        <3> QED  BY <3>2, <3>3 DEF ReadsUpTo
    <2>8. Reads(words, ids', Len(ids') - 1)
          /\ (Len(ids') < MaxTokens => ReadsUpTo(words, ids', Len(ids') - 1, Len(words)))
          /\ ids'[Len(ids')] = Special("sep") /\ ids'[1] = Special("cls")
        BY <2>2, <2>4, <2>5, <2>6, <2>7
    <2> QED  BY <2>1, <2>2, <2>4, <2>5, <2>8 DEF EncodingInv
<1>9. CASE ForgetIds
    BY <1>9 DEF ForgetIds, EncodingInv
<1>10. CASE UNCHANGED encodingVars
    BY <1>10 DEF encodingVars, EncodingInv
<1> QED
    BY <1>2, <1>3, <1>4, <1>5, <1>6, <1>7, <1>8, <1>9, <1>10 DEF EncodingMoves, EncodeStep

(***************************************************************************)
(* FTS5's lexer.                                                          *)
(***************************************************************************)
\* Reading q moves the lexer from the state p to r, by the states st.
ReadsBy(st, p, q, r) ==
    /\ st[0] = p /\ st[Len(q)] = r
    /\ \A k \in 1..Len(q) : st[k] = ReadCharacter(st[k - 1], q[k])

Leads(p, q, r) == \E st : ReadsBy(st, p, q, r)

\* Nothing read, one character read, one text read after another.
LEMMA LeadsNowhere ==
    ASSUME NEW p
    PROVE  Leads(p, <<>>, p)
<1>1. ReadsBy([k \in {0} |-> p], p, <<>>, p)
    BY DEF ReadsBy
<1> QED  BY <1>1 DEF Leads

LEMMA LeadsByOne ==
    ASSUME NEW p, NEW c
    PROVE  Leads(p, <<c>>, ReadCharacter(p, c))
<1> DEFINE r == ReadCharacter(p, c)
           st == [k \in 0..1 |-> IF k = 0 THEN p ELSE r]
<1>1. r = ReadCharacter(p, c)
    OBVIOUS
<1> HIDE DEF r
<1>2. ReadsBy(st, p, <<c>>, r)
    BY <1>1 DEF ReadsBy
<1> QED  BY <1>2 DEF Leads, r

LEMMA LeadsOn ==
    ASSUME NEW C, NEW p, NEW q1 \in Seq(C), NEW r, NEW q2 \in Seq(C), NEW t,
           Leads(p, q1, r), Leads(r, q2, t)
    PROVE  Leads(p, q1 \o q2, t)
<1>1. PICK s1 : ReadsBy(s1, p, q1, r)
    BY DEF Leads
<1>2. PICK s2 : ReadsBy(s2, r, q2, t)
    BY DEF Leads
<1> DEFINE m == Len(q1)
           n == Len(q2)
           q == q1 \o q2
           st == [k \in 0..(m + n) |-> IF k <= m THEN s1[k] ELSE s2[k - m]]
<1>3. m \in Nat /\ n \in Nat
    OBVIOUS
<1>4. Len(q) = m + n /\ \A i \in 1..(m + n) : q[i] = IF i <= m THEN q1[i] ELSE q2[i - m]
    BY ConcatProperties
<1>5. s1[0] = p /\ s1[m] = r /\ \A k \in 1..m : s1[k] = ReadCharacter(s1[k - 1], q1[k])
    BY <1>1 DEF ReadsBy
<1>6. s2[0] = r /\ s2[n] = t /\ \A k \in 1..n : s2[k] = ReadCharacter(s2[k - 1], q2[k])
    BY <1>2 DEF ReadsBy
<1> HIDE DEF m, n, q
<1>7. st[0] = p
    BY <1>3, <1>5
<1>8. st[m + n] = t
    <2>1. CASE n = 0
        BY <1>3, <1>5, <1>6, <2>1
    <2>2. CASE n # 0
        BY <1>3, <1>6, <2>2
    <2> QED  BY <2>1, <2>2
<1>9. ASSUME NEW k \in 1..(m + n)
      PROVE  st[k] = ReadCharacter(st[k - 1], q[k])
    <2>1. CASE k <= m
        <3>1. k \in 1..m /\ st[k] = s1[k] /\ st[k - 1] = s1[k - 1]
            BY <1>3, <2>1
        <3> QED  BY <1>4, <1>5, <2>1, <3>1
    <2>2. CASE ~(k <= m)
        <3>1. k - m \in 1..n /\ st[k] = s2[k - m]
            BY <1>3, <2>2
        <3>2. st[k - 1] = s2[(k - m) - 1]
            <4>1. CASE k = m + 1
                <5>1. (k - m) - 1 = 0 /\ k - 1 = m /\ k - 1 <= m /\ k - 1 \in 0..(m + n)
                    BY <1>3, <4>1
                <5> QED  BY <1>5, <1>6, <5>1
            <4>2. CASE k # m + 1
                <5>1. ~(k - 1 <= m) /\ (k - 1) - m = (k - m) - 1 /\ k - 1 \in 0..(m + n)
                    BY <1>3, <2>2, <4>2
                <5> QED  BY <5>1
            <4> QED  BY <4>1, <4>2
        <3> QED  BY <1>4, <1>6, <2>2, <3>1, <3>2
    <2> QED  BY <2>1, <2>2
<1> HIDE DEF st
<1>10. ReadsBy(st, p, q, t)
    BY <1>4, <1>7, <1>8, <1>9 DEF ReadsBy
<1> QED  BY <1>10 DEF Leads, q

\* The lexer is a function of the state and the text.
LEMMA LeadsToOne ==
    ASSUME NEW p, NEW q, Len(q) \in Nat, NEW r, NEW t, Leads(p, q, r), Leads(p, q, t)
    PROVE  r = t
<1>1. PICK a : ReadsBy(a, p, q, r)
    BY DEF Leads
<1>2. PICK b : ReadsBy(b, p, q, t)
    BY DEF Leads
<1> DEFINE T == { k \in 0..Len(q) : a[k] # b[k] }
<1>3. T = {}
    <2> SUFFICES ASSUME T # {} PROVE FALSE
        OBVIOUS
    <2>1. PICK m \in T : \A y \in T : m <= y
        <3>1. T \subseteq Nat
            OBVIOUS
        <3> HIDE DEF T
        <3> QED  BY <3>1, LeastOf
    <2>2. m \in 0..Len(q) /\ a[m] # b[m]
        OBVIOUS
    <2>3. m # 0
        BY <1>1, <1>2, <2>2 DEF ReadsBy
    <2>4. m - 1 \in 0..Len(q) /\ ~(m <= m - 1) /\ m \in 1..Len(q)
        BY <2>2, <2>3
    <2>5. m - 1 \notin T
        <3> HIDE DEF T
        <3> QED  BY <2>1, <2>4
    <2>6. a[m - 1] = b[m - 1]
        BY <2>4, <2>5
    <2> QED  BY <1>1, <1>2, <2>2, <2>4, <2>6 DEF ReadsBy
<1>4. Len(q) \in 0..Len(q)
    OBVIOUS
<1>5. a[Len(q)] = b[Len(q)]
    BY <1>3, <1>4
<1> QED  BY <1>1, <1>2, <1>5 DEF ReadsBy

\* Reading the parts of a flattened sequence one after another.
LEMMA LeadsThrough ==
    ASSUME NEW C, NEW s, IsParts(s, C),
           NEW at, \A n \in 1..Len(s) : Leads(at[n - 1], s[n], at[n])
    PROVE  Leads(at[0], FlattenSeq(s), at[Len(s)])
<1>1. PICK f \in [0..Len(s) -> Seq(C)] : Concatenates(f, s)
    BY FlattenedStepwise
<1> USE DEF IsParts, Concatenates
<1> DEFINE T == { k \in 0..Len(s) : ~Leads(at[0], f[k], at[k]) }
<1>2. T = {}
    <2> SUFFICES ASSUME T # {} PROVE FALSE
        OBVIOUS
    <2>1. PICK m \in T : \A y \in T : m <= y
        <3>1. T \subseteq Nat
            OBVIOUS
        <3> HIDE DEF T
        <3> QED  BY <3>1, LeastOf
    <2>2. m \in 0..Len(s) /\ ~Leads(at[0], f[m], at[m])
        OBVIOUS
    <2>3. m # 0
        BY <1>1, <2>2, LeadsNowhere
    <2>4. m - 1 \in 0..Len(s) /\ ~(m <= m - 1) /\ m \in 1..Len(s)
        BY <2>2, <2>3
    <2>5. m - 1 \notin T
        <3> HIDE DEF T
        <3> QED  BY <2>1, <2>4
    <2>6. Leads(at[0], f[m - 1], at[m - 1])
        BY <2>4, <2>5
    <2>7. Leads(at[m - 1], s[m], at[m]) /\ s[m] \in Seq(C) /\ f[m - 1] \in Seq(C)
        BY <2>4
    <2>8. Leads(at[0], f[m - 1] \o s[m], at[m])
        BY <2>6, <2>7, LeadsOn
    <2> QED  BY <1>1, <2>2, <2>4, <2>8
<1>3. Len(s) \in 0..Len(s)
    OBVIOUS
<1>4. Leads(at[0], f[Len(s)], at[Len(s)])
    BY <1>2, <1>3
<1> QED  BY <1>1, <1>4

\* The fold by which FTS5 reads is such a reading.
LEMMA FoldReads ==
    ASSUME NEW C, NEW q \in Seq(C), NEW p
    PROVE  Leads(p, q, FoldLeft(ReadCharacter, p, q))
<1> DEFINE L == Len(q)
           at(f, s) == IF s = {} THEN p ELSE ReadCharacter(f[s \ {Max(s)}], q[Max(s)])
           Folds(f, m) == \A s \in SUBSET (1..m) : f[s] = at(f, s)
           T == { m \in 0..L : ~ \E f : f = [s \in SUBSET (1..m) |-> f[s]] /\ Folds(f, m) }
<1>1. L \in Nat /\ DOMAIN q = 1..L
    BY LenProperties
<1>2. ASSUME NEW m \in Nat, NEW s \in SUBSET (1..m), m \in s
      PROVE  Max(s) = m
    <2>1. \A y \in s : m >= y
        BY <1>2
    <2>2. Max(s) \in s /\ \A y \in s : Max(s) >= y
        BY <1>2, <2>1 DEF Max
    <2> DEFINE z == Max(s)
    <2>3. z \in s /\ z >= m
        BY <1>2, <2>2
    <2> HIDE DEF z
    <2>4. m >= z /\ z \in Int
        BY <2>1, <2>3
    <2>5. z = m
        BY <2>3, <2>4
    <2> QED  BY <2>5 DEF z
<1>3. T = {}
    <2> SUFFICES ASSUME T # {} PROVE FALSE
        OBVIOUS
    <2>1. PICK m \in T : \A y \in T : m <= y
        <3>1. T \subseteq Nat
            BY <1>1
        <3> HIDE DEF T
        <3> QED  BY <3>1, LeastOf
    <2>2. m \in 0..L /\ ~ \E f : f = [s \in SUBSET (1..m) |-> f[s]] /\ Folds(f, m)
        <3> HIDE DEF Folds
        <3> QED  BY <2>1
    <2>3. m # 0
        <3> SUFFICES ASSUME m = 0 PROVE FALSE
            OBVIOUS
        <3> DEFINE f == [s \in SUBSET (1..0) |-> p]
        <3>1. f = [s \in SUBSET (1..0) |-> f[s]]
            OBVIOUS
        <3>2. Folds(f, 0)
            <4> SUFFICES ASSUME NEW s \in SUBSET (1..0) PROVE f[s] = at(f, s)
                OBVIOUS
            <4>1. s = {}
                OBVIOUS
            <4> QED  BY <4>1
        <3> HIDE DEF Folds, f
        <3> QED  BY <2>2, <3>1, <3>2
    <2>4. m - 1 \in 0..L /\ ~(m <= m - 1)
        BY <1>1, <2>2, <2>3
    <2>5. m - 1 \notin T
        <3> HIDE DEF T
        <3> QED  BY <2>1, <2>4
    <2>6. PICK g : g = [s \in SUBSET (1..(m - 1)) |-> g[s]] /\ Folds(g, m - 1)
        <3> HIDE DEF Folds
        <3> QED  BY <2>4, <2>5
    <2> DEFINE h == [s \in SUBSET (1..m) |->
                        IF m \in s THEN ReadCharacter(g[s \ {m}], q[m]) ELSE g[s]]
    <2>7. h = [s \in SUBSET (1..m) |-> h[s]]
        OBVIOUS
    <2>8. Folds(h, m)
        <3> SUFFICES ASSUME NEW s \in SUBSET (1..m) PROVE h[s] = at(h, s)
            OBVIOUS
        <3>0. m \in Nat /\ m >= 1
            BY <1>1, <2>2, <2>3
        <3>1. CASE m \in s
            <4>1. Max(s) = m
                BY <1>2, <3>0, <3>1
            <4>2. s \ {m} \in SUBSET (1..m) /\ m \notin s \ {m} /\ s # {}
                BY <3>1
            <4>3. h[s \ {m}] = g[s \ {m}]
                BY <4>2
            <4>4. h[s] = ReadCharacter(g[s \ {m}], q[m])
                BY <3>1
            <4>5. at(h, s) = ReadCharacter(h[s \ {m}], q[m])
                <5> HIDE DEF h
                <5> QED  BY <4>1, <4>2
            <4> HIDE DEF h, at
            <4> QED  BY <4>3, <4>4, <4>5
        <3>2. CASE m \notin s
            <4>1. s \in SUBSET (1..(m - 1))
                BY <3>0, <3>2
            <4>2. h[s] = g[s] /\ g[s] = at(g, s)
                <5>1. h[s] = g[s]
                    BY <3>2
                <5>2. g[s] = at(g, s)
                    <6> HIDE DEF at
                    <6> QED  BY <2>6, <4>1
                <5> HIDE DEF at, h
                <5> QED  BY <5>1, <5>2
            <4>3. at(h, s) = at(g, s)
                <5>1. s \ {Max(s)} \in SUBSET (1..m) /\ m \notin s \ {Max(s)}
                    BY <3>2
                <5>2. h[s \ {Max(s)}] = g[s \ {Max(s)}]
                    BY <5>1
                <5> HIDE DEF h
                <5> QED  BY <5>2
            <4> HIDE DEF h, at
            <4> QED  BY <4>2, <4>3
        <3> QED  BY <3>1, <3>2
    <2> HIDE DEF h, Folds
    <2> QED  BY <2>2, <2>7, <2>8
<1>4. PICK g : g = [s \in SUBSET (1..L) |-> g[s]] /\ Folds(g, L)
    <2>1. L \in 0..L
        BY <1>1
    <2>2. L \notin T
        <3> HIDE DEF T
        <3> QED  BY <1>3
    <2> HIDE DEF Folds
    <2> QED  BY <2>1, <2>2
<1> DEFINE iter == CHOOSE f : f = [s \in SUBSET DOMAIN q |->
                        IF s = {} THEN p ELSE ReadCharacter(f[s \ {Max(s)}], q[Max(s)])]
<1>5. iter = [s \in SUBSET DOMAIN q |->
                IF s = {} THEN p ELSE ReadCharacter(iter[s \ {Max(s)}], q[Max(s)])]
    <2>1. g = [s \in SUBSET (1..L) |-> at(g, s)]
        <3> HIDE DEF at
        <3> QED  BY <1>4
    <2>2. g = [s \in SUBSET DOMAIN q |->
                IF s = {} THEN p ELSE ReadCharacter(g[s \ {Max(s)}], q[Max(s)])]
        BY <1>1, <2>1
    <2> QED  BY <2>2
<1>6. FoldLeft(ReadCharacter, p, q) = iter[DOMAIN q]
    BY DEF FoldLeft, MapThenFoldSet
<1> HIDE DEF iter
<1> DEFINE st == [k \in 0..L |-> iter[1..k]]
<1>7. ReadsBy(st, p, q, iter[1..L])
    <2>1. st[0] = p
        <3>1. 1..0 = {} /\ {} \in SUBSET DOMAIN q
            OBVIOUS
        <3>2. iter[{}] = p
            BY <1>5
        <3> QED  BY <1>1, <3>1, <3>2
    <2>2. st[L] = iter[1..L]
        BY <1>1
    <2>3. ASSUME NEW k \in 1..L
          PROVE  st[k] = ReadCharacter(st[k - 1], q[k])
        <3>1. k \in 1..k /\ 1..k \in SUBSET DOMAIN q /\ 1..k # {} /\ k \in Nat
            <4> HIDE DEF L
            <4>1. k \in Nat /\ k >= 1 /\ k <= L
                BY <1>1
            <4>2. k \in 1..k
                BY <4>1
            <4>3. 1..k \subseteq 1..L
                BY <1>1, <4>1
            <4> QED  BY <1>1, <4>1, <4>2, <4>3
        <3>2. Max(1..k) = k
            BY <1>2, <3>1
        <3>3. (1..k) \ {k} = 1..(k - 1)
            BY <3>1
        <3>4. iter[1..k] = ReadCharacter(iter[(1..k) \ {Max(1..k)}], q[Max(1..k)])
            BY <1>5, <3>1
        <3>5. st[k] = iter[1..k] /\ st[k - 1] = iter[1..(k - 1)]
            <4> HIDE DEF L
            <4>1. k \in 0..L /\ k - 1 \in 0..L
                BY <1>1
            <4> QED  BY <4>1
        <3> QED  BY <3>2, <3>3, <3>4, <3>5
    <2> HIDE DEF st
    <2> QED  BY <2>1, <2>2, <2>3 DEF ReadsBy
<1> QED  BY <1>1, <1>6, <1>7 DEF Leads

\* What a query may be made of: any characters, or those that end no C string.
Alphabets == {Char, Char \ {Nul}}

Bare(ts) == [mode |-> "bare", chars |-> <<>>, tokens |-> ts]
Inside(w, ts) == [mode |-> "phrase", chars |-> w, tokens |-> ts]
Closing(w, ts) == [mode |-> "closing", chars |-> w, tokens |-> ts]

\* What the assumptions say of quotes, spaces and OR.
LEMMA Separators ==
    /\ Blank \in Space /\ Blank # Quote
    /\ Or # <<>>
    /\ \A i \in 1..Len(Or) : Or[i] \notin Space /\ Or[i] # Quote /\ Or[i] # Nul
<1>1. Blank \in Space
    BY TextAssumption DEF Blank
<1>2. Blank # Quote
    BY <1>1, TextAssumption
<1>3. Or \in Seq(Char \ (Space \cup {Quote, Nul})) /\ Or # <<>>
    BY QueryAssumption
<1>4. \A i \in 1..Len(Or) : Or[i] \in Char \ (Space \cup {Quote, Nul})
    BY <1>3, ElementOfSeq
<1> QED  BY <1>1, <1>2, <1>3, <1>4

LEMMA InEveryAlphabet ==
    ASSUME NEW T \in Alphabets
    PROVE  Quote \in T /\ Blank \in T /\ Or \in Seq(T)
<1>1. Quote \in T /\ Blank \in T
    BY Separators, TextAssumption, QueryAssumption DEF Alphabets
<1>2. Or \in Seq(Char \ (Space \cup {Quote, Nul}))
    BY QueryAssumption
<1>3. Char \ (Space \cup {Quote, Nul}) \subseteq T
    BY DEF Alphabets
<1> QED  BY <1>1, <1>2, <1>3, SeqMonotonic

\* The lexer, character by character.
LEMMA LexerSteps ==
    ASSUME NEW ts, NEW w, NEW c
    PROVE  /\ ReadCharacter(Bare(ts), Quote) = Inside(<<>>, ts)
           /\ ReadCharacter(Bare(ts), Blank) = Bare(ts)
           /\ c # Quote => ReadCharacter(Inside(w, ts), c) = Inside(Append(w, c), ts)
           /\ ReadCharacter(Inside(w, ts), Quote) = Closing(w, ts)
           /\ ReadCharacter(Closing(w, ts), Quote) = Inside(Append(w, Quote), ts)
           /\ ReadCharacter(Closing(w, ts), Blank) = Bare(Append(ts, Phrase(w)))
<1> USE DEF Bare, Inside, Closing, ReadCharacter
<1>1. ReadCharacter(Bare(ts), Quote) = Inside(<<>>, ts)
    BY TextAssumption DEF ReadBare
<1>2. ReadCharacter(Bare(ts), Blank) = Bare(ts)
    BY Separators DEF ReadBare
<1>3. c # Quote => ReadCharacter(Inside(w, ts), c) = Inside(Append(w, c), ts)
    BY DEF ReadPhrase
<1>4. ReadCharacter(Inside(w, ts), Quote) = Closing(w, ts)
    BY DEF ReadPhrase
<1>5. ReadCharacter(Closing(w, ts), Quote) = Inside(Append(w, Quote), ts)
    BY DEF ReadClosing
<1>6. ReadCharacter(Closing(w, ts), Blank) = Bare(Append(ts, Phrase(w)))
    BY Separators DEF ReadClosing, ReadBare
<1> QED  BY <1>1, <1>2, <1>3, <1>4, <1>5, <1>6

\* Prefixes grow by one element.
LEMMA PrefixGrows ==
    ASSUME NEW C, NEW w \in Seq(C), NEW i \in 1..Len(w)
    PROVE  /\ SubSeq(w, 1, i) = Append(SubSeq(w, 1, i - 1), w[i])
           /\ SubSeq(w, 1, i) # <<>>
<1>1. Len(w) \in Nat
    BY LenProperties
<1>2. 1 \in 1..Len(w) /\ i \in 1..Len(w)
    BY <1>1
<1>3. SubSeq(w, 1, i) = SubSeq(w, 1, i - 1) \o <<w[i]>>
    BY <1>2, SubSeqRecursiveSecond
<1>4. \A j \in 1..(i - 1) : w[j] \in C
    BY <1>1, ElementOfSeq
<1>5. SubSeq(w, 1, i - 1) \in Seq(C)
    <2>1. 1 \in Int /\ i - 1 \in Int
        OBVIOUS
    <2> QED  BY <1>4, <2>1, SubSeqProperties
<1>6. w[i] \in C
    BY ElementOfSeq
<1>7. Append(SubSeq(w, 1, i - 1), w[i]) = SubSeq(w, 1, i - 1) \o <<w[i]>>
    BY <1>5, <1>6, AppendIsConcat
<1>8. Append(SubSeq(w, 1, i - 1), w[i]) # <<>>
    BY <1>5, <1>6, AppendProperties
<1> QED  BY <1>3, <1>7, <1>8

\* Escaped words are read as they are.
LEMMA EscapedIsRead ==
    ASSUME NEW T \in Alphabets, NEW w \in Seq(T), NEW ts
    PROVE  /\ Escaped(w) \in Seq(T)
           /\ Leads(Inside(<<>>, ts), Escaped(w), Inside(w, ts))
<1> DEFINE L == Len(w)
           part(i) == IF w[i] = Quote THEN <<Quote, Quote>> ELSE <<w[i]>>
           parts == [i \in DOMAIN w |-> part(i)]
           at == [k \in 0..L |-> Inside(SubSeq(w, 1, k), ts)]
<1>1. L \in Nat /\ DOMAIN w = 1..L
    BY LenProperties
<1>2. ASSUME NEW i \in 1..L
      PROVE  part(i) \in Seq(T) /\ parts[i] = part(i)
    <2>1. w[i] \in T /\ Quote \in T
        BY ElementOfSeq, InEveryAlphabet
    <2>2. parts[i] = part(i)
        BY <1>1
    <2> QED  BY <2>1, <2>2
<1>3. Escaped(w) = FlattenSeq(parts)
    BY DEF Escaped
<1>4. Len(parts) = L /\ IsParts(parts, T)
    <2>1. parts = [i \in 1..L |-> part(i)]
        BY <1>1
    <2> HIDE DEF part, parts
    <2>2. parts \in [1..L -> Seq(T)]
        BY <1>2, <2>1
    <2>3. parts \in Seq(Seq(T)) /\ Len(parts) = L
        BY <1>1, <2>2
    <2>4. Len(parts) = 0 => parts = <<>>
        BY <2>3, EmptySeq
    <2> QED  BY <1>1, <2>2, <2>3, <2>4 DEF IsParts
<1>5. ASSUME NEW i \in 1..L
      PROVE  Leads(at[i - 1], parts[i], at[i])
    <2>1. SubSeq(w, 1, i) = Append(SubSeq(w, 1, i - 1), w[i])
        BY PrefixGrows
    <2>2. /\ at[i - 1] = Inside(SubSeq(w, 1, i - 1), ts)
          /\ at[i] = Inside(Append(SubSeq(w, 1, i - 1), w[i]), ts)
        <3>1. i - 1 \in 0..L /\ i \in 0..L
            BY <1>1
        <3> QED  BY <2>1, <3>1
    <2> DEFINE v == SubSeq(w, 1, i - 1)
    <2> HIDE DEF v, at, parts
    <2>3. CASE w[i] = Quote
        <3>1. Leads(Inside(v, ts), <<Quote>>, Closing(v, ts))
            BY LeadsByOne, LexerSteps
        <3>2. Leads(Closing(v, ts), <<Quote>>, Inside(Append(v, Quote), ts))
            BY LeadsByOne, LexerSteps
        <3>3. <<Quote>> \in Seq({Quote})
            OBVIOUS
        <3>4. Leads(Inside(v, ts), <<Quote>> \o <<Quote>>, Inside(Append(v, Quote), ts))
            BY <3>1, <3>2, <3>3, LeadsOn
        <3>5. <<Quote>> \o <<Quote>> = <<Quote, Quote>>
            <4> DEFINE a == <<Quote>>
                       b == <<Quote, Quote>>
            <4>1. a \in Seq({Quote}) /\ Len(a) = 1 /\ b \in Seq({Quote}) /\ Len(b) = 2
                OBVIOUS
            <4>2. \A j \in 1..2 : b[j] = Quote
                OBVIOUS
            <4>3. \A j \in 1..1 : a[j] = Quote
                OBVIOUS
            <4> HIDE DEF a, b
            <4>4. a \o a \in Seq({Quote}) /\ Len(a \o a) = 2
                BY <4>1, ConcatProperties
            <4>5. \A j \in 1..2 : (a \o a)[j] \in {Quote}
                BY <4>4, ElementOfSeq
            <4>6. a \o a = b
                BY <4>1, <4>2, <4>4, <4>5, SeqEqual
            <4> QED  BY <4>6 DEF a, b
        <3> QED  BY <1>2, <2>2, <2>3, <3>4, <3>5 DEF v
    <2>4. CASE w[i] # Quote
        <3>1. Leads(Inside(v, ts), <<w[i]>>, Inside(Append(v, w[i]), ts))
            <4>1. ReadCharacter(Inside(v, ts), w[i]) = Inside(Append(v, w[i]), ts)
                BY <2>4, LexerSteps
            <4> QED  BY <4>1, LeadsByOne, Zenon
        <3> QED  BY <1>2, <2>2, <2>4, <3>1 DEF v
    <2> QED  BY <2>3, <2>4
<1>6. at[0] = Inside(<<>>, ts) /\ at[L] = Inside(w, ts)
    <2>1. SubSeq(w, 1, 0) = <<>> /\ SubSeq(w, 1, L) = w
        <3>1. SubSeq(w, 1, 0) = <<>>
            <4>1. 1 \in Int /\ 0 \in Int /\ 0 < 1
                OBVIOUS
            <4> QED  BY <4>1, SubSeqEmpty
        <3>2. SubSeq(w, 1, Len(w)) = w
            BY SubSeqFull
        <3> QED  BY <3>1, <3>2
    <2>2. 0 \in 0..L /\ L \in 0..L
        BY <1>1
    <2> QED  BY <2>1, <2>2
<1> HIDE DEF at, parts
<1>7. Leads(at[0], FlattenSeq(parts), at[Len(parts)])
    BY <1>4, <1>5, LeadsThrough
<1>8. FlattenSeq(parts) \in Seq(T)
    BY <1>4, FlattenedIsSequence DEF IsParts
<1> QED  BY <1>3, <1>4, <1>6, <1>7, <1>8

\* A quoted word is read up to its closing quote.
LEMMA QuotedIsRead ==
    ASSUME NEW T \in Alphabets, NEW w \in Seq(T), NEW ts
    PROVE  /\ Quoted(w) \in Seq(T)
           /\ Leads(Bare(ts), Quoted(w), Closing(w, ts))
<1> DEFINE e == Escaped(w)
           quote == <<Quote>>
<1>1. e \in Seq(T) /\ Leads(Inside(<<>>, ts), e, Inside(w, ts))
    BY EscapedIsRead
<1>2. quote \in Seq(T)
    BY InEveryAlphabet
<1>3. Leads(Bare(ts), quote, Inside(<<>>, ts))
    BY LeadsByOne, LexerSteps
<1>4. Leads(Inside(w, ts), quote, Closing(w, ts))
    BY LeadsByOne, LexerSteps
<1>5. Quoted(w) = quote \o e \o quote
    BY DEF Quoted
<1> HIDE DEF e, quote
<1>6. quote \o e \in Seq(T) /\ Leads(Bare(ts), quote \o e, Inside(w, ts))
    BY <1>1, <1>2, <1>3, LeadsOn, ConcatProperties
<1>7. (quote \o e) \o quote \in Seq(T)
      /\ Leads(Bare(ts), (quote \o e) \o quote, Closing(w, ts))
    BY <1>2, <1>4, <1>6, LeadsOn, ConcatProperties
<1> QED  BY <1>5, <1>7

\* A word outside of quotes is read up to the space after it.
Outside(w, ts) == [mode |-> "bare", chars |-> w, tokens |-> ts]

\* OR is read as a word.
LEMMA OrIsRead ==
    ASSUME NEW ts
    PROVE  Leads(Bare(ts), Or, Outside(Or, ts))
<1> DEFINE L == Len(Or)
           st == [k \in 0..L |-> Outside(SubSeq(Or, 1, k), ts)]
<1>1. Or \in Seq(Char) /\ L \in Nat
    BY InEveryAlphabet, LenProperties DEF Alphabets
<1>2. st[0] = Bare(ts) /\ st[L] = Outside(Or, ts)
    <2>1. 1 \in Int /\ 0 \in Int /\ 0 < 1
        OBVIOUS
    <2>2. SubSeq(Or, 1, 0) = <<>>
        BY <2>1, SubSeqEmpty
    <2>3. SubSeq(Or, 1, L) = Or
        BY <1>1, SubSeqFull
    <2>4. 0 \in 0..L /\ L \in 0..L
        BY <1>1
    <2> QED  BY <2>2, <2>3, <2>4 DEF Outside, Bare
<1>3. ASSUME NEW i \in 1..L
      PROVE  st[i] = ReadCharacter(st[i - 1], Or[i])
    <2>1. SubSeq(Or, 1, i) = Append(SubSeq(Or, 1, i - 1), Or[i])
        BY <1>1, PrefixGrows
    <2>2. i - 1 \in 0..L /\ i \in 0..L
        BY <1>1
    <2> DEFINE v == SubSeq(Or, 1, i - 1)
               c == Or[i]
    <2>3. c \notin Space /\ c # Quote
        BY Separators
    <2>4. st[i] = Outside(Append(v, c), ts) /\ st[i - 1] = Outside(v, ts)
        BY <2>1, <2>2
    <2> HIDE DEF v, c
    <2>5. ReadCharacter(Outside(v, ts), c) = Outside(Append(v, c), ts)
        BY <2>3 DEF ReadCharacter, ReadBare, Outside
    <2> HIDE DEF st
    <2> QED  BY <2>4, <2>5 DEF c
<1> HIDE DEF st
<1>4. ReadsBy(st, Bare(ts), Or, Outside(Or, ts))
    BY <1>2, <1>3 DEF ReadsBy
<1> QED  BY <1>4 DEF Leads

\* A space and a phrase after the first end it, with OR in between.
LEMMA NextIsRead ==
    ASSUME NEW T \in Alphabets, NEW v, NEW w \in Seq(T), NEW ts
    PROVE  LET part == <<Blank>> \o Or \o <<Blank>> \o Quoted(w)
           IN  /\ part \in Seq(T)
               /\ Leads(Closing(v, ts), part,
                        Closing(w, Append(Append(ts, Phrase(v)), Bareword(Or))))
<1> DEFINE blank == <<Blank>>
           t1 == Append(ts, Phrase(v))
           t2 == Append(t1, Bareword(Or))
           quoted == Quoted(w)
<1>1. blank \in Seq(T) /\ Or \in Seq(T)
    BY InEveryAlphabet
<1>2. quoted \in Seq(T) /\ Leads(Bare(t2), quoted, Closing(w, t2))
    BY QuotedIsRead
<1>3. Leads(Closing(v, ts), blank, Bare(t1))
    <2>1. ReadCharacter(Closing(v, ts), Blank) = Bare(t1)
        BY LexerSteps
    <2> QED  BY <2>1, LeadsByOne, Zenon
<1>4. Leads(Bare(t1), Or, Outside(Or, t1))
    BY OrIsRead
<1>5. Leads(Outside(Or, t1), blank, Bare(t2))
    <2>1. ReadCharacter(Outside(Or, t1), Blank) = Bare(t2)
        BY Separators DEF ReadCharacter, ReadBare, Outside, Bare
    <2> QED  BY <2>1, LeadsByOne, Zenon
<1>6. <<Blank>> \o Or \o <<Blank>> \o Quoted(w) = ((blank \o Or) \o blank) \o quoted
    OBVIOUS
<1> HIDE DEF blank, t1, t2, quoted
<1>7. blank \o Or \in Seq(T) /\ Leads(Closing(v, ts), blank \o Or, Outside(Or, t1))
    BY <1>1, <1>3, <1>4, LeadsOn, ConcatProperties
<1>8. (blank \o Or) \o blank \in Seq(T)
      /\ Leads(Closing(v, ts), (blank \o Or) \o blank, Bare(t2))
    BY <1>1, <1>5, <1>7, LeadsOn, ConcatProperties
<1>9. ((blank \o Or) \o blank) \o quoted \in Seq(T)
      /\ Leads(Closing(v, ts), ((blank \o Or) \o blank) \o quoted, Closing(w, t2))
    BY <1>2, <1>8, LeadsOn, ConcatProperties
<1> QED  BY <1>6, <1>9 DEF t2, t1

\* What n tokens of a query for any of the words are.
QueryToken(ws, k) == IF k % 2 = 1 THEN Phrase(ws[(k + 1) \div 2]) ELSE Bareword(Or)
QueryTokens(ws, n) == [k \in 1..n |-> QueryToken(ws, k)]

\* One more token.
LEMMA TokensGrow ==
    ASSUME NEW ws, NEW n \in Nat
    PROVE  QueryTokens(ws, n + 1) = Append(QueryTokens(ws, n), QueryToken(ws, n + 1))
<1> DEFINE S == { QueryToken(ws, k) : k \in 1..(n + 1) }
           a == QueryTokens(ws, n)
           b == QueryTokens(ws, n + 1)
           e == QueryToken(ws, n + 1)
<1>1. a \in Seq(S) /\ Len(a) = n /\ \A k \in 1..n : a[k] = QueryToken(ws, k)
    <2> DEFINE t(k) == QueryToken(ws, k)
    <2>1. a = [k \in 1..n |-> t(k)] /\ \A k \in 1..n : t(k) \in S
        BY DEF QueryTokens
    <2> HIDE DEF S, t, a
    <2>2. a \in [1..n -> S]
        BY <2>1
    <2>3. a \in Seq(S) /\ Len(a) = n
        BY <2>2
    <2> QED  BY <2>1, <2>3 DEF t
<1>2. b \in Seq(S) /\ Len(b) = n + 1 /\ \A k \in 1..(n + 1) : b[k] = QueryToken(ws, k)
    <2> DEFINE t(k) == QueryToken(ws, k)
    <2>1. b = [k \in 1..(n + 1) |-> t(k)] /\ \A k \in 1..(n + 1) : t(k) \in S
        BY DEF QueryTokens
    <2> HIDE DEF S, t, b
    <2>2. b \in [1..(n + 1) -> S]
        BY <2>1
    <2>3. b \in Seq(S) /\ Len(b) = n + 1
        BY <2>2
    <2> QED  BY <2>1, <2>3 DEF t
<1>3. e \in S
    OBVIOUS
<1> HIDE DEF S, a, b
<1>4. /\ Append(a, e) \in Seq(S) /\ Len(Append(a, e)) = n + 1
      /\ \A k \in 1..n : Append(a, e)[k] = a[k]
      /\ Append(a, e)[n + 1] = e
    <2> HIDE DEF e
    <2> QED  BY <1>1, <1>3, AppendProperties
<1>5. \A k \in 1..(n + 1) : b[k] = Append(a, e)[k]
    <2> SUFFICES ASSUME NEW k \in 1..(n + 1) PROVE b[k] = Append(a, e)[k]
        OBVIOUS
    <2>1. CASE k = n + 1
        BY <1>2, <1>4, <2>1
    <2>2. CASE k # n + 1
        <3>1. k \in 1..n
            BY <2>2
        <3> QED  BY <1>1, <1>2, <1>4, <3>1
    <2> QED  BY <2>1, <2>2
<1>6. b = Append(a, e)
    <2> HIDE DEF e
    <2> QED  BY <1>2, <1>4, <1>5, SeqEqual
<1> QED  BY <1>6 DEF a, b

\* The tokens that end with the n-th phrase, and with the OR after it.
LEMMA PhraseToken ==
    ASSUME NEW ws, NEW n \in Nat \ {0}
    PROVE  /\ Append(QueryTokens(ws, 2 * n - 2), Phrase(ws[n])) = QueryTokens(ws, 2 * n - 1)
           /\ Append(QueryTokens(ws, 2 * n - 1), Bareword(Or)) = QueryTokens(ws, 2 * n)
<1>1. 2 * n - 2 \in Nat /\ 2 * n - 1 \in Nat /\ (2 * n - 2) + 1 = 2 * n - 1
      /\ (2 * n - 1) + 1 = 2 * n
    OBVIOUS
<1>2. (2 * n - 1) % 2 = 1 /\ ((2 * n - 1) + 1) \div 2 = n /\ (2 * n) % 2 = 0
    OBVIOUS
<1>3. QueryToken(ws, 2 * n - 1) = Phrase(ws[n]) /\ QueryToken(ws, 2 * n) = Bareword(Or)
    BY <1>2 DEF QueryToken
<1>4. QueryTokens(ws, (2 * n - 2) + 1) = Append(QueryTokens(ws, 2 * n - 2), QueryToken(ws, (2 * n - 2) + 1))
    BY <1>1, TokensGrow
<1>5. QueryTokens(ws, (2 * n - 1) + 1) = Append(QueryTokens(ws, 2 * n - 1), QueryToken(ws, (2 * n - 1) + 1))
    BY <1>1, TokensGrow
<1> QED  BY <1>1, <1>3, <1>4, <1>5

\* What BuildSafeFts5MatchQuery makes of words, FTS5 reads as any of them.
LEMMA QueryIsRead ==
    ASSUME NEW T \in Alphabets, NEW text, Words(text) \in Seq(Seq(T))
    PROVE  LET query == BuildSafeFts5MatchQuery(text)
           IN  /\ query \in Seq(T) /\ MeansAnyOf(query, Words(text))
               /\ \E read : Fts5Reads(query) = Bare(read)
                             /\ Leads(Bare(<<>>), query \o <<Blank>>, Bare(read))
<1> DEFINE ws == Words(text)
           L == Len(ws)
           part(n) == IF n = 1 THEN Quoted(ws[n])
                      ELSE <<Blank>> \o Or \o <<Blank>> \o Quoted(ws[n])
           parts == [n \in DOMAIN ws |-> part(n)]
           query == BuildSafeFts5MatchQuery(text)
           at == [n \in 0..L |-> IF n = 0 THEN Bare(<<>>)
                                 ELSE Closing(ws[n], QueryTokens(ws, 2 * n - 2))]
           read == IF L = 0 THEN <<>> ELSE QueryTokens(ws, 2 * L - 1)
<1>1. query = FlattenSeq(parts)
    BY DEF BuildSafeFts5MatchQuery
<1>2. ws \in Seq(Seq(T))
    OBVIOUS
<1> HIDE DEF ws, query
<1>3. L \in Nat /\ DOMAIN ws = 1..L /\ (L = 0 <=> ws = <<>>)
    BY <1>2, LenProperties, EmptySeq
<1>4. ASSUME NEW n \in 1..L
      PROVE  part(n) \in Seq(T) /\ parts[n] = part(n)
    <2>1. ws[n] \in Seq(T)
        BY <1>2, ElementOfSeq
    <2>2. Quoted(ws[n]) \in Seq(T)
        BY <2>1, QuotedIsRead
    <2>3. <<Blank>> \o Or \o <<Blank>> \o Quoted(ws[n]) \in Seq(T)
        BY <2>1, NextIsRead
    <2>4. parts[n] = part(n)
        BY <1>3
    <2> HIDE DEF parts
    <2> QED  BY <2>2, <2>3, <2>4
<1>5. Len(parts) = L /\ IsParts(parts, T)
    <2>1. parts = [n \in 1..L |-> part(n)]
        BY <1>3
    <2> HIDE DEF part, parts
    <2>2. parts \in [1..L -> Seq(T)]
        BY <1>4, <2>1
    <2>3. parts \in Seq(Seq(T)) /\ Len(parts) = L
        BY <1>3, <2>2
    <2>4. Len(parts) = 0 => parts = <<>>
        BY <2>3, EmptySeq
    <2> QED  BY <1>3, <2>2, <2>3, <2>4 DEF IsParts
<1>6. ASSUME NEW n \in 1..L
      PROVE  Leads(at[n - 1], parts[n], at[n])
    <2>1. ws[n] \in Seq(T) /\ n \in Nat /\ n >= 1 /\ n \in 0..L /\ n - 1 \in 0..L
        BY <1>2, <1>3, ElementOfSeq
    <2>2. at[n] = Closing(ws[n], QueryTokens(ws, 2 * n - 2))
        BY <2>1
    <2>3. CASE n = 1
        <3>1. at[n - 1] = Bare(<<>>)
            BY <2>1, <2>3
        <3>2. QueryTokens(ws, 2 * n - 2) = <<>>
            BY <2>3 DEF QueryTokens
        <3>3. parts[n] = Quoted(ws[n])
            BY <1>4, <2>3
        <3>4. Leads(Bare(<<>>), Quoted(ws[n]), Closing(ws[n], <<>>))
            BY <2>1, QuotedIsRead
        <3> HIDE DEF at, parts
        <3> QED  BY <2>2, <3>1, <3>2, <3>3, <3>4
    <2>4. CASE n # 1
        <3> DEFINE m == n - 1
                   ts == QueryTokens(ws, 2 * m - 2)
        <3>1. m \in Nat \ {0} /\ m \in 0..L /\ 2 * m = 2 * n - 2
            BY <2>1, <2>4
        <3> HIDE DEF m
        <3>2. at[m] = Closing(ws[m], ts)
            BY <3>1
        <3>3. parts[n] = <<Blank>> \o Or \o <<Blank>> \o Quoted(ws[n])
            BY <1>4, <2>4
        <3>4. Append(Append(ts, Phrase(ws[m])), Bareword(Or)) = QueryTokens(ws, 2 * m)
            BY <3>1, PhraseToken
        <3> HIDE DEF ts
        <3>5. Leads(Closing(ws[m], ts), <<Blank>> \o Or \o <<Blank>> \o Quoted(ws[n]),
                    Closing(ws[n], Append(Append(ts, Phrase(ws[m])), Bareword(Or))))
            BY <2>1, NextIsRead
        <3>6. at[n] = Closing(ws[n], QueryTokens(ws, 2 * m))
            BY <2>2, <3>1
        <3> HIDE DEF at, parts
        <3>7. Leads(at[m], parts[n], at[n])
            BY <3>2, <3>3, <3>4, <3>5, <3>6
        <3> QED  BY <3>7 DEF m
    <2> QED  BY <2>3, <2>4
<1>7. query \in Seq(T)
    <2> HIDE DEF parts
    <2> QED  BY <1>1, <1>5, FlattenedIsSequence DEF IsParts
<1>8. Leads(Bare(<<>>), query, at[L])
    <2>1. at[0] = Bare(<<>>)
        BY <1>3
    <2> HIDE DEF at, parts
    <2>2. Leads(at[0], FlattenSeq(parts), at[Len(parts)])
        BY <1>5, <1>6, LeadsThrough
    <2> QED  BY <1>1, <1>5, <2>1, <2>2
<1>9. Leads(at[L], <<Blank>>, Bare(read))
    <2>1. CASE L = 0
        <3>1. at[L] = Bare(<<>>) /\ read = <<>>
            BY <2>1
        <3>2. ReadCharacter(Bare(<<>>), Blank) = Bare(<<>>)
            BY LexerSteps
        <3> HIDE DEF at, read
        <3>3. Leads(Bare(<<>>), <<Blank>>, ReadCharacter(Bare(<<>>), Blank))
            BY LeadsByOne
        <3> QED  BY <3>1, <3>2, <3>3
    <2>2. CASE L # 0
        <3> DEFINE ts == QueryTokens(ws, 2 * L - 2)
        <3>1. L \in 0..L /\ L \in Nat \ {0}
            BY <1>3, <2>2
        <3>2. at[L] = Closing(ws[L], ts) /\ read = QueryTokens(ws, 2 * L - 1)
            BY <2>2, <3>1
        <3>3. Append(ts, Phrase(ws[L])) = QueryTokens(ws, 2 * L - 1)
            BY <3>1, PhraseToken
        <3> HIDE DEF ts, at, read
        <3>4. ReadCharacter(Closing(ws[L], ts), Blank) = Bare(Append(ts, Phrase(ws[L])))
            BY LexerSteps
        <3>5. Leads(Closing(ws[L], ts), <<Blank>>, ReadCharacter(Closing(ws[L], ts), Blank))
            BY LeadsByOne
        <3> QED  BY <3>2, <3>3, <3>4, <3>5
    <2> QED  BY <2>1, <2>2
<1>10. Fts5Reads(query) = Bare(read) /\ Leads(Bare(<<>>), query \o <<Blank>>, Bare(read))
    <2> HIDE DEF at, read
    <2>1. <<Blank>> \in Seq(T)
        BY InEveryAlphabet
    <2> DEFINE all == query \o <<Blank>>
    <2>2. all \in Seq(T) /\ Leads(Bare(<<>>), all, Bare(read))
        BY <1>7, <1>8, <1>9, <2>1, LeadsOn, ConcatProperties
    <2>3. Fts5Reads(query) = FoldLeft(ReadCharacter, Bare(<<>>), all)
        BY DEF Fts5Reads, Bare
    <2> HIDE DEF all
    <2>4. Leads(Bare(<<>>), all, FoldLeft(ReadCharacter, Bare(<<>>), all))
        BY <2>2, FoldReads
    <2>5. Len(all) \in Nat
        BY <2>2, LenProperties
    <2> DEFINE result == FoldLeft(ReadCharacter, Bare(<<>>), all)
    <2> HIDE DEF result
    <2>6. result = Bare(read)
        BY <2>2, <2>4, <2>5, LeadsToOne DEF result
    <2> QED  BY <2>2, <2>3, <2>6 DEF result, all
<1>11. /\ Len(read) = IF ws = <<>> THEN 0 ELSE 2 * L - 1
       /\ \A n \in DOMAIN read : read[n] = QueryToken(ws, n)
    <2>1. CASE L = 0
        BY <1>3, <2>1
    <2>2. CASE L # 0
        <3>1. 2 * L - 1 \in Nat
            BY <1>3, <2>2
        <3>2. read = [k \in 1..(2 * L - 1) |-> QueryToken(ws, k)]
            BY <2>2 DEF QueryTokens
        <3> DEFINE m == 2 * L - 1
                   S == { QueryToken(ws, k) : k \in 1..m }
        <3>3. Len(read) = 2 * L - 1
            <4>1. m \in Nat /\ read = [k \in 1..m |-> QueryToken(ws, k)]
                BY <3>1, <3>2
            <4> HIDE DEF m, read
            <4>2. read \in [1..m -> S]
                BY <4>1
            <4> HIDE DEF S
            <4>3. Len(read) = m
                BY <4>1, <4>2
            <4> QED  BY <4>3 DEF m
        <3>4. \A n \in DOMAIN read : read[n] = QueryToken(ws, n)
            BY <3>2
        <3> QED  BY <1>3, <2>2, <3>3, <3>4
    <2> QED  BY <2>1, <2>2
<1>12. MeansAnyOf(query, ws)
    <2> HIDE DEF read
    <2>1. Fts5Reads(query).mode = "bare" /\ Fts5Reads(query).tokens = read
        BY <1>10 DEF Bare
    <2> QED  BY <1>11, <2>1 DEF MeansAnyOf, QueryToken
<1> HIDE DEF read
<1> QED  BY <1>7, <1>10, <1>12 DEF query, ws

\* The passage through a C string cuts nothing off.
LEMMA NothingCut ==
    ASSUME NEW text \in Seq(Char \ {Nul})
    PROVE  CString(text) = text
<1>1. \A i \in DOMAIN text : text[i] # Nul
    BY LenProperties, ElementOfSeq
<1> QED  BY <1>1 DEF CString
(* What the lexer makes of a NUL: it is not asked for, but refused.            *)

Token(T) == [kind : {"phrase", "bareword"}, chars : Seq(T)]
LexerState(T) ==
    [mode : {"bare", "phrase", "closing"}, chars : Seq(T), tokens : Seq(Token(T))]

\* The lexer takes all of its characters from the query.
LEMMA CharactersAreRead ==
    ASSUME NEW T, NEW state \in LexerState(T), NEW c \in T
    PROVE  ReadCharacter(state, c) \in LexerState(T)
<1>1. /\ Phrase(state.chars) \in Token(T) /\ Bareword(state.chars) \in Token(T)
      /\ state.tokens \in Seq(Token(T)) /\ state.chars \in Seq(T)
    BY DEF Phrase, Bareword, Token, LexerState
<1>2. ASSUME NEW s \in LexerState(T)
      PROVE  ReadBare([mode |-> "bare", chars |-> s.chars, tokens |-> s.tokens], c) \in LexerState(T)
    <2> DEFINE ended == IF s.chars = <<>> THEN s.tokens ELSE Append(s.tokens, Bareword(s.chars))
    <2>1. Bareword(s.chars) \in Token(T) /\ s.tokens \in Seq(Token(T)) /\ s.chars \in Seq(T)
        BY DEF Bareword, Token, LexerState
    <2>2. ended \in Seq(Token(T)) /\ Append(s.chars, c) \in Seq(T) /\ <<>> \in Seq(T)
        BY <2>1
    <2> QED  BY <2>1, <2>2 DEF ReadBare, LexerState
<1>3. CASE state.mode = "bare"
    <2>1. state = [mode |-> "bare", chars |-> state.chars, tokens |-> state.tokens]
        BY <1>3 DEF LexerState
    <2>2. ReadCharacter(state, c) = ReadBare(state, c)
        BY <1>3 DEF ReadCharacter
    <2> QED  BY <1>2, <2>1, <2>2
<1>4. CASE state.mode = "phrase"
    <2>1. Append(state.chars, c) \in Seq(T)
        BY <1>1
    <2> QED  BY <1>4, <2>1 DEF ReadCharacter, ReadPhrase, LexerState
<1>5. CASE state.mode = "closing"
    <2>1. Append(state.chars, c) \in Seq(T) /\ Append(state.tokens, Phrase(state.chars)) \in Seq(Token(T))
        BY <1>1
    <2>2. CASE c = Quote
        BY <1>5, <2>1, <2>2 DEF ReadCharacter, ReadClosing, LexerState
    <2>3. CASE c # Quote
        <3> DEFINE s == [mode |-> "bare", chars |-> <<>>,
                         tokens |-> Append(state.tokens, Phrase(state.chars))]
        <3>1. s \in LexerState(T)
            BY <2>1 DEF LexerState
        <3>2. ReadCharacter(state, c) = ReadBare(s, c)
            BY <1>5, <2>3 DEF ReadCharacter, ReadClosing
        <3> QED  BY <1>2, <3>1, <3>2
    <2> QED  BY <2>2, <2>3
<1> QED  BY <1>3, <1>4, <1>5 DEF LexerState

\* The quotes among the first k characters.
QuotesIn(q, k) == { j \in 1..k : q[j] = Quote }

LEMMA OneMoreCharacter ==
    ASSUME NEW q, NEW k \in Nat \ {0}
    PROVE  /\ Cardinality(QuotesIn(q, k - 1)) \in Nat
           /\ Cardinality(QuotesIn(q, k)) =
                Cardinality(QuotesIn(q, k - 1)) + (IF q[k] = Quote THEN 1 ELSE 0)
<1> DEFINE S == QuotesIn(q, k - 1)
<1>1. IsFiniteSet(S) /\ k \notin S
    <2>1. S \subseteq 1..(k - 1) /\ k - 1 \in Int
        BY DEF QuotesIn
    <2>2. IsFiniteSet(1..(k - 1))
        BY <2>1, FS_Interval
    <2>3. k \notin 1..(k - 1)
        OBVIOUS
    <2> HIDE DEF S
    <2> QED  BY <2>1, <2>2, <2>3, FS_Subset
<1>2. QuotesIn(q, k) = IF q[k] = Quote THEN S \cup {k} ELSE S
    BY DEF QuotesIn
<1> HIDE DEF S
<1>3. Cardinality(S) \in Nat /\ Cardinality(S \cup {k}) = Cardinality(S) + 1
    BY <1>1, FS_CardinalityType, FS_AddElement
<1> QED  BY <1>2, <1>3 DEF S

\* The lexer is within a phrase after an odd number of quotes.
Reached(T, st, q, k) ==
    /\ st[k] \in LexerState(T)
    /\ st[k].mode = "phrase" <=> Cardinality(QuotesIn(q, k)) % 2 = 1

LEMMA PhraseAfterOddQuotes ==
    ASSUME NEW T, NEW q \in Seq(T), NEW st, NEW r, ReadsBy(st, Bare(<<>>), q, r)
    PROVE  \A k \in 0..Len(q) : Reached(T, st, q, k)
<1> DEFINE U == { k \in 0..Len(q) : ~Reached(T, st, q, k) }
<1>1. Len(q) \in Nat
    BY LenProperties
<1> SUFFICES ASSUME U # {} PROVE FALSE
    OBVIOUS
<1>2. PICK m \in U : \A y \in U : m <= y
    <2>1. U \subseteq Nat
        BY <1>1
    <2> HIDE DEF U
    <2> QED  BY <2>1, LeastOf
<1>3. m \in 0..Len(q) /\ ~Reached(T, st, q, m)
    OBVIOUS
<1>4. m # 0
    <2> SUFFICES ASSUME m = 0 PROVE FALSE
        OBVIOUS
    <2>1. st[0] = Bare(<<>>)
        BY DEF ReadsBy
    <2>2. QuotesIn(q, 0) = {} /\ Cardinality({}) = 0
        BY FS_EmptySet DEF QuotesIn
    <2>3. st[0] \in LexerState(T) /\ st[0].mode = "bare"
        BY <2>1 DEF Bare, LexerState
    <2>4. Cardinality(QuotesIn(q, 0)) % 2 = 0
        <3>1. Cardinality(QuotesIn(q, 0)) = 0
            BY <2>2, Zenon
        <3> QED  BY <3>1
    <2>5. Reached(T, st, q, 0)
        BY <2>3, <2>4 DEF Reached
    <2> QED  BY <1>3, <2>5
<1>5. m - 1 \in 0..Len(q) /\ ~(m <= m - 1) /\ m \in 1..Len(q) /\ m \in Nat \ {0}
    BY <1>1, <1>3, <1>4
<1>6. Reached(T, st, q, m - 1)
    <2>1. m - 1 \notin U
        <3> HIDE DEF U
        <3> QED  BY <1>2, <1>5
    <2> QED  BY <1>5, <2>1
<1> DEFINE s == st[m - 1]
           c == q[m]
           n == Cardinality(QuotesIn(q, m - 1))
<1>7. st[m] = ReadCharacter(s, c) /\ c \in T
    BY <1>5, ElementOfSeq DEF ReadsBy
<1>8. s \in LexerState(T) /\ (s.mode = "phrase" <=> n % 2 = 1)
    BY <1>6 DEF Reached
<1>9. n \in Nat /\ Cardinality(QuotesIn(q, m)) = n + (IF c = Quote THEN 1 ELSE 0)
    BY <1>5, OneMoreCharacter
<1> HIDE DEF s, c, n
<1>10. st[m] \in LexerState(T)
    BY <1>7, <1>8, CharactersAreRead
<1>11. (n + 1) % 2 = 1 <=> ~(n % 2 = 1)
    BY <1>9
<1>12. c = Quote => (st[m].mode = "phrase" <=> s.mode # "phrase")
    <2> SUFFICES ASSUME c = Quote PROVE st[m].mode = "phrase" <=> s.mode # "phrase"
        OBVIOUS
    <2>1. CASE s.mode = "bare"
        BY <1>7, <2>1, TextAssumption DEF ReadCharacter, ReadBare
    <2>2. CASE s.mode = "phrase"
        BY <1>7, <1>8, <2>2 DEF ReadCharacter, ReadPhrase, LexerState
    <2>3. CASE s.mode = "closing"
        BY <1>7, <1>8, <2>3 DEF ReadCharacter, ReadClosing, LexerState
    <2> QED  BY <1>8, <2>1, <2>2, <2>3 DEF LexerState
<1>13. c # Quote => (st[m].mode = "phrase" <=> s.mode = "phrase")
    BY <1>7, <1>8 DEF ReadCharacter, ReadBare, ReadPhrase, ReadClosing, LexerState
<1> QED  BY <1>3, <1>8, <1>9, <1>10, <1>11, <1>12, <1>13 DEF Reached
HasNul(chars) == \E j \in DOMAIN chars : chars[j] = Nul

\* A word outside of quotes holds a NUL: one that was read, or the one being read.
NulOutside(state) ==
    \/ \E n \in DOMAIN state.tokens :
        state.tokens[n].kind = "bareword" /\ HasNul(state.tokens[n].chars)
    \/ state.mode = "bare" /\ HasNul(state.chars)

\* Nothing that was read is forgotten.
LEMMA Remembered ==
    ASSUME NEW T, NEW s \in Seq(T), NEW e \in T
    PROVE  /\ \A n \in DOMAIN s : n \in DOMAIN Append(s, e) /\ Append(s, e)[n] = s[n]
           /\ \E n \in DOMAIN Append(s, e) : Append(s, e)[n] = e
<1>1. Len(s) \in Nat /\ DOMAIN s = 1..Len(s)
    BY LenProperties
<1>2. /\ DOMAIN Append(s, e) = 1..(Len(s) + 1)
      /\ \A n \in 1..Len(s) : Append(s, e)[n] = s[n]
      /\ Append(s, e)[Len(s) + 1] = e
    <2>1. Append(s, e) \in Seq(T) /\ Len(Append(s, e)) = Len(s) + 1
          /\ \A n \in 1..Len(s) : Append(s, e)[n] = s[n]
          /\ Append(s, e)[Len(s) + 1] = e
        BY AppendProperties
    <2> QED  BY <2>1, LenProperties
<1>3. \A n \in 1..Len(s) : n \in 1..(Len(s) + 1)
    BY <1>1
<1>4. Len(s) + 1 \in 1..(Len(s) + 1)
    BY <1>1
<1> QED  BY <1>1, <1>2, <1>3, <1>4

LEMMA NulIsRemembered ==
    ASSUME NEW state \in LexerState(Char), NEW c \in Char,
           NulOutside(state) \/ (c = Nul /\ state.mode # "phrase")
    PROVE  NulOutside(ReadCharacter(state, c))
<1>1. /\ state.tokens \in Seq(Token(Char)) /\ state.chars \in Seq(Char)
      /\ Phrase(state.chars) \in Token(Char) /\ Bareword(state.chars) \in Token(Char)
      /\ state.mode \in {"bare", "phrase", "closing"}
    BY DEF LexerState, Token, Phrase, Bareword
<1>2. Nul # Quote /\ Nul \notin Space /\ Quote \notin Space
    BY TextAssumption, QueryAssumption
<1> DEFINE Held(ts) == \E n \in DOMAIN ts : ts[n].kind = "bareword" /\ HasNul(ts[n].chars)
           more == Append(state.chars, c)
           phrased == Append(state.tokens, Phrase(state.chars))
           worded == Append(state.tokens, Bareword(state.chars))
           next == ReadCharacter(state, c)
<1>3. Held(state.tokens) => Held(phrased) /\ Held(worded)
    BY <1>1, Remembered
<1>4. HasNul(state.chars) => Held(worded)
    <2>1. Bareword(state.chars).kind = "bareword" /\ Bareword(state.chars).chars = state.chars
        BY DEF Bareword
    <2>2. PICK n \in DOMAIN worded : worded[n] = Bareword(state.chars)
        BY <1>1, Remembered
    <2> HIDE DEF worded
    <2> QED  BY <2>1, <2>2
<1>5. HasNul(state.chars) \/ c = Nul => HasNul(more)
    <2>1. /\ \A n \in DOMAIN state.chars : n \in DOMAIN more /\ more[n] = state.chars[n]
          /\ \E n \in DOMAIN more : more[n] = c
        BY <1>1, Remembered
    <2> HIDE DEF more
    <2> QED  BY <2>1 DEF HasNul
<1>6. HasNul(state.chars) => state.chars # <<>>
    <2>1. ~HasNul(<<>>)
        BY DEF HasNul
    <2> QED  BY <2>1
<1>8. CASE state.mode = "bare"
    <2> DEFINE ended == IF state.chars = <<>> THEN state.tokens ELSE worded
    <2>1. Held(state.tokens) \/ HasNul(state.chars) => Held(ended)
        BY <1>3, <1>4, <1>6
    <2>2. NulOutside(state) => Held(state.tokens) \/ HasNul(state.chars)
        BY DEF NulOutside
    <2>3. CASE c = Quote \/ c \in Space
        <3>1. next.tokens = ended
            BY <1>2, <1>8, <2>3 DEF ReadCharacter, ReadBare
        <3>2. c # Nul
            BY <1>2, <2>3
        <3> HIDE DEF ended, next
        <3> QED  BY <2>1, <2>2, <3>1, <3>2 DEF NulOutside, next
    <2>4. CASE c # Quote /\ c \notin Space
        <3>1. next = [state EXCEPT !.chars = more]
            BY <1>8, <2>4 DEF ReadCharacter, ReadBare
        <3>2. next.tokens = state.tokens /\ next.chars = more /\ next.mode = "bare"
            BY <1>8, <3>1 DEF LexerState
        <3> HIDE DEF next, more
        <3>3. Held(state.tokens) \/ HasNul(more)
            BY <1>5, <2>2, <1>8
        <3> QED  BY <3>2, <3>3 DEF NulOutside, next
    <2> QED  BY <2>3, <2>4
<1>9. CASE state.mode = "phrase"
    <2>1. Held(state.tokens)
        BY <1>9 DEF NulOutside
    <2>2. next.tokens = state.tokens
        BY <1>9 DEF ReadCharacter, ReadPhrase, LexerState
    <2> HIDE DEF next
    <2> QED  BY <2>1, <2>2 DEF NulOutside, next
<1>10. CASE state.mode = "closing"
    <2>1. NulOutside(state) => Held(state.tokens)
        BY <1>10 DEF NulOutside
    <2>2. CASE c = Quote
        <3>1. next.tokens = state.tokens
            BY <1>10, <2>2 DEF ReadCharacter, ReadClosing, LexerState
        <3>2. c # Nul
            BY <1>2, <2>2
        <3> HIDE DEF next
        <3> QED  BY <2>1, <3>1, <3>2 DEF NulOutside, next
    <2>3. CASE c # Quote
        <3> DEFINE s == [mode |-> "bare", chars |-> <<>>, tokens |-> phrased]
        <3>1. next = ReadBare(s, c)
            BY <1>10, <2>3 DEF ReadCharacter, ReadClosing
        <3>2. CASE c \in Space
            <4>1. next.tokens = phrased
                BY <1>2, <2>3, <3>1, <3>2 DEF ReadBare
            <4>2. c # Nul
                BY <1>2, <3>2
            <4> HIDE DEF next, phrased
            <4> QED  BY <1>3, <2>1, <4>1, <4>2 DEF NulOutside, next
        <3>3. CASE c \notin Space
            <4>1. /\ next.tokens = phrased /\ next.mode = "bare"
                  /\ next.chars = Append(<<>>, c)
                BY <2>3, <3>1, <3>3 DEF ReadBare
            <4>2. c = Nul => HasNul(Append(<<>>, c))
                <5>1. <<>> \in Seq(Char)
                    OBVIOUS
                <5> QED  BY <5>1, Remembered DEF HasNul
            <4> HIDE DEF next, phrased
            <4> QED  BY <1>3, <2>1, <4>1, <4>2 DEF NulOutside, next
        <3> QED  BY <3>2, <3>3
    <2> QED  BY <2>2, <2>3
<1> QED  BY <1>1, <1>8, <1>9, <1>10

\* If the words that were read hold no NUL but in phrases, then every NUL of the
\* query was read within one.
LEMMA NulIsInAPhrase ==
    ASSUME NEW q \in Seq(Char), NEW st, NEW r, ReadsBy(st, Bare(<<>>), q, r),
           ~NulOutside(r), NEW i \in 1..Len(q), q[i] = Nul
    PROVE  st[i - 1].mode = "phrase"
<1> DEFINE L == Len(q)
           U == { k \in i..L : ~NulOutside(st[k]) }
<1>1. L \in Nat /\ i \in Nat /\ i >= 1 /\ i <= L
    BY LenProperties
<1>2. \A k \in 1..L : /\ st[k - 1] \in LexerState(Char) /\ q[k] \in Char
                      /\ st[k] = ReadCharacter(st[k - 1], q[k])
    <2> SUFFICES ASSUME NEW k \in 1..L
                 PROVE  /\ st[k - 1] \in LexerState(Char) /\ q[k] \in Char
                        /\ st[k] = ReadCharacter(st[k - 1], q[k])
        OBVIOUS
    <2>1. k - 1 \in 0..Len(q)
        BY <1>1
    <2>2. Reached(Char, st, q, k - 1)
        BY <2>1, PhraseAfterOddQuotes
    <2> QED  BY <2>2, ElementOfSeq DEF Reached, ReadsBy
<1> SUFFICES ASSUME st[i - 1].mode # "phrase" PROVE FALSE
    OBVIOUS
<1>3. U # {}
    <2>1. st[L] = r /\ L \in i..L
        BY <1>1 DEF ReadsBy
    <2> QED  BY <2>1
<1>4. PICK m \in U : \A y \in U : m <= y
    <2>1. U \subseteq Nat
        BY <1>1
    <2> HIDE DEF U
    <2> QED  BY <1>3, <2>1, LeastOf
<1>5. m \in i..L /\ ~NulOutside(st[m])
    OBVIOUS
<1>6. m \in 1..L
    BY <1>1, <1>5
<1>7. CASE m = i
    BY <1>2, <1>5, <1>6, <1>7, NulIsRemembered
<1>8. CASE m # i
    <2>1. m - 1 \in i..L /\ ~(m <= m - 1)
        BY <1>1, <1>5, <1>8
    <2>2. m - 1 \notin U
        <3> HIDE DEF U
        <3> QED  BY <1>4, <2>1
    <2>3. NulOutside(st[m - 1])
        BY <2>1, <2>2
    <2> QED  BY <1>2, <1>5, <1>6, <2>3, NulIsRemembered
<1> QED  BY <1>7, <1>8

\* The quotes of a query, and those the lexer has read of it at its k-th character.
LEMMA QuotesAreRead ==
    ASSUME NEW query \in Seq(Char), NEW k \in 0..Len(query)
    PROVE  /\ Len(query \o <<Blank>>) = Len(query) + 1
           /\ \A j \in 1..Len(query) : (query \o <<Blank>>)[j] = query[j]
           /\ QuotesIn(query \o <<Blank>>, k) = { j \in 1..k : query[j] = Quote }
           /\ QuotesIn(query \o <<Blank>>, Len(query) + 1) =
                { j \in DOMAIN query : query[j] = Quote }
           /\ Cardinality({ j \in 1..k : query[j] = Quote }) \in Nat
<1> DEFINE L == Len(query)
           blank == <<Blank>>
           all == query \o blank
<1>1. Blank \in Char /\ Blank # Quote
    BY Separators, TextAssumption
<1>2. L \in Nat /\ DOMAIN query = 1..L /\ k \in Nat /\ k <= L
    BY LenProperties
<1>3. blank \in Seq(Char) /\ Len(blank) = 1 /\ blank[1] = Blank
    BY <1>1
<1> HIDE DEF blank
<1>4. Len(all) = L + 1 /\ (\A j \in 1..L : all[j] = query[j]) /\ all[L + 1] = Blank
    <2>1. Len(all) = L + 1 /\ \A j \in 1..(L + 1) :
            all[j] = IF j <= L THEN query[j] ELSE blank[j - L]
        BY <1>3, ConcatProperties
    <2>2. \A j \in 1..L : j \in 1..(L + 1) /\ j <= L
        BY <1>2
    <2>3. L + 1 \in 1..(L + 1) /\ ~(L + 1 <= L) /\ (L + 1) - L = 1
        BY <1>2
    <2> HIDE DEF all, L
    <2> QED  BY <1>3, <2>1, <2>2, <2>3
<1> HIDE DEF all
<1>5. QuotesIn(all, k) = { j \in 1..k : query[j] = Quote }
    <2>1. \A j \in 1..k : j \in 1..L
        BY <1>2
    <2> QED  BY <1>4, <2>1 DEF QuotesIn
<1>6. QuotesIn(all, L + 1) = { j \in DOMAIN query : query[j] = Quote }
    <2>1. \A j \in 1..(L + 1) : j \in 1..L \/ j = L + 1
        BY <1>2
    <2>2. \A j \in 1..L : j \in 1..(L + 1)
        BY <1>2
    <2> HIDE DEF L
    <2> QED  BY <1>1, <1>2, <1>4, <2>1, <2>2 DEF QuotesIn
<1>7. Cardinality({ j \in 1..k : query[j] = Quote }) \in Nat
    <2>1. IsFiniteSet(1..k)
        BY <1>2, FS_Interval
    <2>2. IsFiniteSet({ j \in 1..k : query[j] = Quote })
        BY <2>1, FS_Subset
    <2> QED  BY <2>2, FS_CardinalityType
<1> QED  BY <1>4, <1>5, <1>6, <1>7 DEF all, blank, L

\* FTS5 accepts what is made of any words.
LEMMA QueryIsAccepted ==
    ASSUME NEW text \in Seq(Char)
    PROVE  Accepted(BuildSafeFts5MatchQuery(text))
<1> DEFINE query == BuildSafeFts5MatchQuery(text)
           L == Len(query)
           S == { j \in DOMAIN query : query[j] = Quote }
<1>1. Words(text) \in Seq(Seq(Char)) /\ Char \in Alphabets
    BY RunsAreParts DEF Words, Alphabets
<1>2. /\ query \in Seq(Char)
      /\ \E read : Leads(Bare(<<>>), query \o <<Blank>>, Bare(read))
    BY <1>1, QueryIsRead
<1> HIDE DEF query
<1>3. PICK read, st : ReadsBy(st, Bare(<<>>), query \o <<Blank>>, Bare(read))
    BY <1>2 DEF Leads
<1>4. L \in Nat /\ L \in 0..L /\ DOMAIN query = 1..L
    BY <1>2, LenProperties
<1>5. /\ Len(query \o <<Blank>>) = L + 1 /\ QuotesIn(query \o <<Blank>>, L + 1) = S
      /\ Cardinality(S) \in Nat
    BY <1>2, <1>4, QuotesAreRead
<1>6. query \o <<Blank>> \in Seq(Char)
    BY <1>1, <1>2, InEveryAlphabet, ConcatProperties
<1>7. L + 1 \in 0..Len(query \o <<Blank>>)
    BY <1>4, <1>5
<1>8. Reached(Char, st, query \o <<Blank>>, L + 1)
    BY <1>3, <1>6, <1>7, PhraseAfterOddQuotes
<1>9. st[L + 1] = Bare(read)
    BY <1>3, <1>5 DEF ReadsBy
<1>10. Cardinality(S) % 2 # 1
    <2>1. Bare(read).mode = "bare" /\ "bare" # "phrase"
        BY DEF Bare
    <2>2. QuotesIn(query \o <<Blank>>, L + 1) = S
        BY <1>5
    <2> HIDE DEF S, L
    <2> QED  BY <1>8, <1>9, <2>1, <2>2 DEF Reached
<1> HIDE DEF S
<1>11. Cardinality(S) % 2 = 0
    BY <1>5, <1>10
<1> QED  BY <1>11 DEF Accepted, S, query

\* Where a word holds a NUL, the query does, within the phrase that the word is.
LEMMA NulIsRefused ==
    ASSUME NEW text \in Seq(Char),
           NEW w \in DOMAIN Words(text), Nul \in ToSet(Words(text)[w])
    PROVE  ~Accepted(CString(BuildSafeFts5MatchQuery(text)))
<1> DEFINE query == BuildSafeFts5MatchQuery(text)
           all == query \o <<Blank>>
           ws == Words(text)
           Other == Char \ {Nul}
           ends == {i \in DOMAIN query : query[i] = Nul}
<1>1. ws \in Seq(Seq(Char)) /\ Char \in Alphabets /\ Other \in Alphabets
    BY RunsAreParts DEF Words, Alphabets
<1>2. /\ query \in Seq(Char) /\ MeansAnyOf(query, ws)
      /\ \E read : Fts5Reads(query) = Bare(read) /\ Leads(Bare(<<>>), all, Bare(read))
    BY <1>1, QueryIsRead
<1>3. w \in DOMAIN ws /\ Nul \in ToSet(ws[w])
    OBVIOUS
<1> HIDE DEF query, ws
<1>4. PICK read, st : Fts5Reads(query) = Bare(read) /\ ReadsBy(st, Bare(<<>>), all, Bare(read))
    BY <1>2 DEF Leads
<1>5. /\ Len(read) = IF ws = <<>> THEN 0 ELSE 2 * Len(ws) - 1
      /\ \A n \in DOMAIN read : read[n] = IF n % 2 = 1 THEN Phrase(ws[(n + 1) \div 2])
                                          ELSE Bareword(Or)
    BY <1>2, <1>4 DEF MeansAnyOf, Bare
<1>6. /\ Len(query) \in Nat /\ DOMAIN query = 1..Len(query) /\ 0 \in 0..Len(query)
      /\ Len(ws) \in Nat /\ DOMAIN ws = 1..Len(ws)
    BY <1>1, <1>2, LenProperties
<1>7. /\ Len(all) = Len(query) + 1 /\ all \in Seq(Char)
      /\ \A j \in 1..Len(query) : all[j] = query[j]
    <2>1. <<Blank>> \in Seq(Char)
        BY <1>1, InEveryAlphabet
    <2> QED  BY <1>2, <1>6, <2>1, QuotesAreRead, ConcatProperties
<1>8. st[Len(all)] = Bare(read) /\ Len(all) \in 0..Len(all)
    BY <1>4, <1>6, <1>7 DEF ReadsBy
<1>9. read \in Seq(Token(Char)) /\ DOMAIN read = 1..Len(read)
    <2>1. Reached(Char, st, all, Len(all))
        BY <1>4, <1>7, <1>8, PhraseAfterOddQuotes
    <2>2. Bare(read) \in LexerState(Char)
        BY <1>8, <2>1 DEF Reached
    <2> QED  BY <2>2, LenProperties DEF LexerState, Bare
<1>10. ~NulOutside(Bare(read))
    <2>1. ~HasNul(<<>>) /\ ~HasNul(Or)
        <3>1. Or \in Seq(Char)
            BY <1>1, InEveryAlphabet
        <3>2. DOMAIN Or = 1..Len(Or)
            BY <3>1, LenProperties
        <3> QED  BY <3>2, Separators DEF HasNul
    <2>2. ASSUME NEW n \in DOMAIN read, read[n].kind = "bareword"
          PROVE  ~HasNul(read[n].chars)
        <3>1. read[n] = Bareword(Or)
            BY <1>5, <2>2 DEF Phrase
        <3> QED  BY <2>1, <3>1 DEF Bareword
    <2> QED  BY <2>1, <2>2 DEF NulOutside, Bare
<1>11. ends # {}
    <2> SUFFICES ASSUME ends = {} PROVE FALSE
        OBVIOUS
    <2>1. query \in Seq(Other)
        <3>1. \A j \in 1..Len(query) : query[j] \in Other
            BY <1>2, <1>6, ElementOfSeq
        <3> HIDE DEF Other
        <3> QED  BY <1>2, <1>6, <3>1, SeqDef
    <2>2. all \in Seq(Other)
        <3>1. <<Blank>> \in Seq(Other)
            BY <1>1, InEveryAlphabet
        <3> HIDE DEF Other
        <3> QED  BY <2>1, <3>1, ConcatProperties
    <2>3. Reached(Other, st, all, Len(all))
        <3> HIDE DEF Other, all
        <3> QED  BY <1>4, <1>8, <2>2, PhraseAfterOddQuotes
    <2>4. read \in Seq(Token(Other))
        <3> HIDE DEF Other
        <3>1. Bare(read) \in LexerState(Other)
            BY <1>8, <2>3 DEF Reached
        <3> QED  BY <3>1 DEF LexerState, Bare
    <2>5. 2 * w - 1 \in DOMAIN read /\ (2 * w - 1) % 2 = 1 /\ ((2 * w - 1) + 1) \div 2 = w
        <3>1. w \in Nat \ {0} /\ w <= Len(ws)
            BY <1>3, <1>6
        <3>2. ws # <<>>
            BY <1>3
        <3>3. 2 * w - 1 \in 1..(2 * Len(ws) - 1)
            BY <1>6, <3>1
        <3> QED  BY <1>5, <1>9, <3>1, <3>2, <3>3
    <2>6. Phrase(ws[w]) \in Token(Other)
        <3>1. read[2 * w - 1] = Phrase(ws[w])
            BY <1>5, <2>5
        <3> HIDE DEF Other
        <3> QED  BY <1>9, <2>4, <2>5, <3>1, ElementOfSeq
    <2>7. ws[w] \in Seq(Other)
        <3> HIDE DEF Other
        <3> QED  BY <2>6 DEF Phrase, Token
    <2>8. \A j \in DOMAIN ws[w] : ws[w][j] # Nul
        BY <2>7, LenProperties, ElementOfSeq
    <2> QED  BY <1>3, <2>8 DEF ToSet
<1>12. PICK i \in ends : i = CHOOSE k \in ends : \A j \in ends : k <= j
    <2>1. ends \subseteq Nat
        BY <1>6
    <2> HIDE DEF ends
    <2>2. \E k \in ends : \A j \in ends : k <= j
        BY <1>11, <2>1, LeastOf
    <2> QED  BY <2>2
<1>13. CString(query) = SubSeq(query, 1, i - 1)
    BY <1>11, <1>12 DEF CString
<1>14. i \in 1..Len(query) /\ i - 1 \in 0..Len(query) /\ query[i] = Nul /\ i - 1 \in Nat
    BY <1>6, <1>12
<1>15. st[i - 1].mode = "phrase"
    <2>1. i \in 1..Len(all) /\ all[i] = Nul
        BY <1>6, <1>7, <1>14
    <2> HIDE DEF all
    <2> QED  BY <1>4, <1>7, <1>10, <2>1, NulIsInAPhrase
<1> DEFINE S == { j \in 1..(i - 1) : query[j] = Quote }
<1>16. Cardinality(S) % 2 = 1
    <2>1. Reached(Char, st, all, i - 1)
        <3>1. i - 1 \in 0..Len(all)
            BY <1>6, <1>7, <1>14
        <3> HIDE DEF all
        <3> QED  BY <1>4, <1>7, <3>1, PhraseAfterOddQuotes
    <2>2. QuotesIn(all, i - 1) = S
        BY <1>2, <1>14, QuotesAreRead
    <2> QED  BY <1>15, <2>1, <2>2 DEF Reached
<1>17. { j \in DOMAIN CString(query) : CString(query)[j] = Quote } = S
    <2>1. DOMAIN SubSeq(query, 1, i - 1) = 1..(i - 1)
          /\ \A j \in 1..(i - 1) : SubSeq(query, 1, i - 1)[j] = query[j]
        <3>1. \A j \in 1..(i - 1) : query[j] \in Char
            BY <1>2, <1>6, <1>14, ElementOfSeq
        <3>2. 1 \in Int /\ i - 1 \in Int
            BY <1>14
        <3> DEFINE cut == SubSeq(query, 1, i - 1)
        <3>3. /\ cut \in Seq(Char) /\ Len(cut) = IF 1 <= i - 1 THEN (i - 1) - 1 + 1 ELSE 0
              /\ \A j \in 1..((i - 1) - 1 + 1) : cut[j] = query[1 + j - 1]
            BY <3>1, <3>2, SubSeqProperties
        <3>4. (i - 1) - 1 + 1 = i - 1 /\ \A j \in 1..(i - 1) : 1 + j - 1 = j
            BY <1>14
        <3> HIDE DEF cut
        <3>5. Len(cut) = i - 1
            BY <1>14, <3>3
        <3>6. DOMAIN cut = 1..(i - 1)
            BY <3>3, <3>5, LenProperties
        <3>7. \A j \in 1..(i - 1) : cut[j] = query[j]
            <4> SUFFICES ASSUME NEW j \in 1..(i - 1) PROVE cut[j] = query[j]
                OBVIOUS
            <4>1. j \in 1..((i - 1) - 1 + 1) /\ 1 + j - 1 = j
                BY <3>4
            <4>2. cut[j] = query[1 + j - 1]
                BY <3>3, <4>1
            <4> QED  BY <4>1, <4>2
        <3> QED  BY <3>6, <3>7 DEF cut
    <2> QED  BY <1>13, <2>1
<1> HIDE DEF S
<1>18. Cardinality({ j \in DOMAIN CString(query) : CString(query)[j] = Quote }) % 2 = 1
    BY <1>16, <1>17, Zenon
<1>19. ~Accepted(CString(query))
    BY <1>18 DEF Accepted
<1> QED  BY <1>19 DEF query
=============================================================================
