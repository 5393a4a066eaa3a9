------------------------- MODULE CommandLineProofs -------------------------
(***************************************************************************)
(* Proofs about the commands: the calls into usearch, what an ingest has   *)
(* stored when it ends, and what a query asks for.  A command moves each   *)
(* of its parts by the part's own operations or leaves it alone; beyond    *)
(* the invariants of the parts it takes what the documents in memory, the  *)
(* tables and the index have to do with each other at every place.         *)
(***************************************************************************)
EXTENDS CommandLine, TextProofs

(***************************************************************************)
(* The dense index.                                                        *)
(***************************************************************************)
\* A graph that may be used is made for the engine's vectors, and has a
\* context for each slot.
Provisioned(g) ==
    /\ g.dim = dimensions
    /\ threads <= g.contexts
    /\ g.size <= g.capacity

DenseInv ==
    /\ object \in {"none", "ready", "adding", "searching", "unusable"}
    /\ dimensions \in Nat
    /\ threads \in Nat \ {0}
    /\ graph \in Graph
    /\ object \in {"ready", "adding", "searching"} => Provisioned(graph)
    /\ object = "adding" => ~Full(graph)

DenseMoves ==
    \/ \E d \in Nat : Construct(d)
    \/ LoadThrows(sidecar) \/ Load(sidecar) \/ Clear
    \/ EnsureCapacity \/ Add \/ Search \/ Searched
    \/ Gone \/ UNCHANGED denseVars

\* usearch's reserve and make keep a graph a graph.
LEMMA ProvisionKeeps ==
    ASSUME NEW g \in Graph, NEW n \in Nat \ {0}, g.size <= g.capacity
    PROVE  /\ ProvisionSearchThreads(g, n) \in Graph
           /\ ProvisionSearchThreads(g, n).dim = g.dim
           /\ ProvisionSearchThreads(g, n).contexts = n
           /\ ProvisionSearchThreads(g, n).size <= ProvisionSearchThreads(g, n).capacity
<1> DEFINE c == IF g.capacity = 0 THEN 1 ELSE g.capacity
<1>1. c \in Nat /\ g.capacity <= c  BY DEF Graph
<1>2. ProvisionSearchThreads(g, n) = [g EXCEPT !.capacity = c, !.contexts = n]
    BY DEF ProvisionSearchThreads, Reserve
<1> HIDE DEF c
<1>3. [g EXCEPT !.capacity = c, !.contexts = n] \in Graph
    BY <1>1 DEF Graph
<1> QED  BY <1>1, <1>2, <1>3 DEF Graph

\* Every operation of DenseIndex keeps its invariant.
LEMMA DenseOperations ==
    ASSUME DenseInv, sidecar \in SidecarFile, DenseMoves
    PROVE  DenseInv'
<1> USE DenseAssumption DEF DenseInv
<1>1. CASE \E d \in Nat : Construct(d)
    <2>1. PICK d \in Nat : Construct(d)  BY <1>1
    <2>2. PICK cores \in Cores, n \in Cores :
            /\ threads' = UsearchSearchThreadCount(cores)
            /\ graph' = ProvisionSearchThreads(Empty(d, n), threads')
        BY <2>1 DEF Construct
    <2>3. threads' \in Nat \ {0}
        BY <2>2 DEF UsearchSearchThreadCount
    <2>4. Empty(d, n) \in Graph /\ Empty(d, n).dim = d
          /\ Empty(d, n).size <= Empty(d, n).capacity
        BY DEF Empty, Graph
    <2> DEFINE e == Empty(d, n)
    <2> HIDE DEF e
    <2>5. graph' \in Graph /\ graph'.dim = d /\ graph'.contexts = threads'
          /\ graph'.size <= graph'.capacity
        BY <2>2, <2>3, <2>4, ProvisionKeeps DEF e
    <2> QED  BY <2>1, <2>3, <2>5 DEF Construct, Provisioned, Graph
<1>2. CASE LoadThrows(sidecar)
    <2>1. graph' \in Graph
        <3>1. CASE UNCHANGED graph  BY <3>1
        <3>2. CASE \E n \in Cores : graph' = FromFile(sidecar, n)
            BY <3>2 DEF FromFile, Graph, SidecarFile
        <3>3. CASE \E n \in Cores :
                    graph' = ProvisionSearchThreads(Empty(dimensions, n), threads)
            <4>1. PICK n \in Cores :
                    graph' = ProvisionSearchThreads(Empty(dimensions, n), threads)
                BY <3>3
            <4>2. Empty(dimensions, n) \in Graph
                  /\ Empty(dimensions, n).size <= Empty(dimensions, n).capacity
                BY DEF Empty, Graph
            <4> QED  BY <4>1, <4>2, ProvisionKeeps
        <3> QED  BY <1>2, <3>1, <3>2, <3>3 DEF LoadThrows
    <2> QED  BY <1>2, <2>1 DEF LoadThrows
<1>3. CASE Load(sidecar)
    <2>1. PICK n \in Cores : graph' = ProvisionSearchThreads(FromFile(sidecar, n), threads)
        BY <1>3 DEF Load
    <2>2. FromFile(sidecar, n) \in Graph /\ FromFile(sidecar, n).dim = dimensions
          /\ FromFile(sidecar, n).size <= FromFile(sidecar, n).capacity
        BY <1>3 DEF FromFile, Graph, SidecarFile, Load
    <2>3. graph' \in Graph /\ graph'.dim = dimensions /\ graph'.contexts = threads
          /\ graph'.size <= graph'.capacity
        BY <2>1, <2>2, ProvisionKeeps
    <2> QED  BY <1>3, <2>3 DEF Load, Provisioned, Graph
<1>4. CASE Clear
    <2>1. PICK n \in Cores : graph' = ProvisionSearchThreads(Empty(dimensions, n), threads)
        BY <1>4 DEF Clear
    <2>2. Empty(dimensions, n) \in Graph /\ Empty(dimensions, n).dim = dimensions
          /\ Empty(dimensions, n).size <= Empty(dimensions, n).capacity
        BY DEF Empty, Graph
    <2>3. graph' \in Graph /\ graph'.dim = dimensions /\ graph'.contexts = threads
          /\ graph'.size <= graph'.capacity
        BY <2>1, <2>2, ProvisionKeeps
    <2> QED  BY <1>4, <2>3 DEF Clear, Provisioned, Graph
<1>5. CASE EnsureCapacity
    <2>1. CASE ~Full(graph)
        BY <1>5, <2>1 DEF EnsureCapacity, Provisioned, Full
    <2>2. CASE Full(graph)
        <3> DEFINE c == IF graph.capacity = 0 THEN FirstCapacity ELSE 2 * graph.capacity
        <3>1. c \in Nat /\ graph.size < c
            BY <2>2 DEF Full, Graph
        <3>2. graph' = [graph EXCEPT !.capacity = c, !.contexts = threads]
            BY <1>5, <2>2 DEF EnsureCapacity, Reserve
        <3> HIDE DEF c
        <3>3. graph' \in Graph
            BY <3>1, <3>2 DEF Graph
        <3>4. graph'.dim = graph.dim /\ graph'.contexts = threads
              /\ graph'.size < graph'.capacity
            BY <3>1, <3>2 DEF Graph
        <3> QED  BY <1>5, <3>3, <3>4 DEF EnsureCapacity, Provisioned, Full, Graph
    <2> QED  BY <2>1, <2>2
<1>6. CASE Add
    BY <1>6 DEF Add, Provisioned, Full, Graph
<1>7. CASE Search \/ Searched
    BY <1>7 DEF Search, Searched, Provisioned, Full
<1>8. CASE Gone
    BY <1>8 DEF Gone, NoIndex, Empty, Graph
<1>9. CASE UNCHANGED denseVars
    BY <1>9 DEF denseVars, Provisioned, Full
<1> QED  BY <1>1, <1>2, <1>3, <1>4, <1>5, <1>6, <1>7, <1>8, <1>9 DEF DenseMoves

(***************************************************************************)
(* The commands.                                                           *)
(***************************************************************************)
ProcessInv ==
    /\ sidecar \in SidecarFile
    /\ IsSequence(documents)
    /\ pc \notin {"shell", "library"} => command \in IngestCommand \cup QueryCommand
    /\ pc = "read" => command.kind = "ingest"

LEMMA AppendIsSequence ==
    ASSUME NEW s, IsSequence(s), NEW e
    PROVE  IsSequence(Append(s, e)) /\ Len(Append(s, e)) = Len(s) + 1
<1>1. PICK S : s \in Seq(S)
    BY DEF IsSequence
<1>2. s \in Seq(S \cup {e})
    BY <1>1, SeqMonotonic
<1>3. Append(s, e) \in Seq(S \cup {e}) /\ Len(Append(s, e)) = Len(s) + 1
    BY <1>2, AppendProperties
<1> QED  BY <1>3 DEF IsSequence

LEMMA NothingIsSequence == IsSequence(<<>>)
<1>1. <<>> \in Seq({})
    OBVIOUS
<1> QED  BY <1>1 DEF IsSequence

\* What the loop over the files reads.
LEMMA FileRead ==
    ASSUME ProcessInv, ReadFile
    PROVE  ChunkMoves
<1>1. pc = "read" /\ Len(documents) < Len(Files)
      /\ ChunkText(Files[Len(documents) + 1].text, ChunkWindow, ChunkOverlap)
    BY DEF ReadFile
<1>2. command \in IngestCommand
    BY <1>1 DEF ProcessInv, IngestCommand, QueryCommand
<1>3. command.folder \in Folder
    BY <1>2 DEF IngestCommand
<1>4. Files \in Seq(TextFile)
    BY <1>3, CommandAssumption DEF Files
<1>5. Len(documents) \in Nat /\ Len(Files) \in Nat
    BY <1>4 DEF ProcessInv, IsSequence
<1>6. Len(documents) + 1 \in 1..Len(Files)
    BY <1>1, <1>5
<1>7. Files[Len(documents) + 1] \in TextFile
    BY <1>4, <1>6, ElementOfSeq
<1>8. Len(documents) + 1 \in DOMAIN Files
    BY <1>4, <1>6
<1>9. 2 * Len(Files[Len(documents) + 1].text) <= SizeMod
    BY <1>3, <1>8, CommandAssumption DEF Files
<1>10. ChunkWindow \in 0..(SizeMod - 1) /\ ChunkOverlap \in 0..(SizeMod - 1)
    BY CommandAssumption, SizeAssumption
<1> DEFINE text == Files[Len(documents) + 1].text
<1>11. text \in Seq(Char)
    BY <1>7 DEF TextFile
<1>12. ChunkText(text, ChunkWindow, ChunkOverlap) /\ 2 * Len(text) <= SizeMod
    BY <1>1, <1>9
<1> HIDE DEF text
<1> QED  BY <1>10, <1>11, <1>12 DEF ChunkMoves

\* A direct call of chunk_text is one of its operations.
LEMMA LibraryCall ==
    ASSUME CallChunkText
    PROVE  ChunkMoves
<1>1. PICK f \in Folder, w \in Sizes, o \in Sizes : \E n \in DOMAIN FilesIn[f] :
        ChunkText(FilesIn[f][n].text, w, o) \/ ChunkTextRefuses(w, o)
    BY DEF CallChunkText
<1>2. PICK n \in DOMAIN FilesIn[f] :
        ChunkText(FilesIn[f][n].text, w, o) \/ ChunkTextRefuses(w, o)
    BY <1>1
<1>3. FilesIn[f] \in Seq(TextFile)
    BY CommandAssumption
<1>4. FilesIn[f][n] \in TextFile
    BY <1>3, <1>2, ElementOfSeq
<1>5. FilesIn[f][n].text \in Seq(Char) /\ 2 * Len(FilesIn[f][n].text) <= SizeMod
    BY <1>2, <1>4, CommandAssumption DEF TextFile
<1>6. w \in 0..(SizeMod - 1) /\ o \in 0..(SizeMod - 1)
    BY CommandAssumption
<1> QED  BY <1>2, <1>5, <1>6 DEF ChunkMoves

LEMMA SizeOfVectors ==
    ASSUME command \in IngestCommand \cup QueryCommand
    PROVE  EmbedDim \in Nat
<1>0. (\A d \in ModelDim : d \in Nat) /\ DefaultDim \in Nat
    <2>1. ModelDim \subseteq Nat \ {0} /\ DefaultDim \in Nat \ {0}
        BY CommandAssumption, Zenon
    <2> QED  BY <2>1
<1>1. CASE command \in IngestCommand
    <2>1. command.model_dim \in ModelDim \cup {0}  BY <1>1 DEF IngestCommand
    <2>2. command.model_dim \in ModelDim \/ command.model_dim = 0
        BY <2>1, Zenon
    <2>3. command.model_dim \in Nat
        BY <1>0, <2>2
    <2> QED  BY <1>0, <2>3, Zenon DEF EmbedDim
<1>2. CASE command \in QueryCommand
    <2>1. command.model_dim \in ModelDim \cup {0}  BY <1>2 DEF QueryCommand
    <2>2. command.model_dim \in ModelDim \/ command.model_dim = 0
        BY <2>1, Zenon
    <2>3. command.model_dim \in Nat
        BY <1>0, <2>2
    <2> QED  BY <1>0, <2>3, Zenon DEF EmbedDim
<1> QED  BY <1>1, <1>2

LEMMA SavedIsAFile ==
    ASSUME DenseInv
    PROVE  Saved \in SidecarFile
BY DEF DenseInv, Saved, SidecarFile, Graph

\* The end of a process is an operation of every part.
LEMMA ExitKeeps ==
    ASSUME NEW c, Exit(c), sidecar' \in SidecarFile
    PROVE  DenseMoves /\ ChunkMoves /\ ProcessInv'
<1>1. Gone /\ ForgetChunks /\ pc' = "shell" /\ documents' = <<>>
    BY DEF Exit
<1> QED  BY <1>1, NothingIsSequence DEF DenseMoves, ChunkMoves, ProcessInv

\* Whatever a command does, it moves the index and chunk_text only by their own
\* operations.
LEMMA StepsOfTheParts ==
    ASSUME DenseInv, ProcessInv, [CommandNext]_cmdVars
    PROVE  DenseMoves /\ ChunkMoves /\ ProcessInv'
<1> USE DEF DenseMoves, ChunkMoves
<1>1. CASE Open
    <2>1. EmbedDim \in Nat
        BY <1>1, SizeOfVectors DEF Open, ProcessInv
    <2> QED  BY <1>1, <2>1 DEF Open, Goto, ProcessInv
<1>2. CASE LoadSidecar
    BY <1>2 DEF LoadSidecar, ChunkingOver, processVars, fileVars, Goto, ProcessInv
<1>3. CASE CompareCounts
    BY <1>3 DEF CompareCounts, ChunkingOver, processVars, fileVars, Goto, ProcessInv
<1>4. CASE ClearIndex
    BY <1>4 DEF ClearIndex, ChunkingOver, processVars, fileVars, Goto, ProcessInv
<1>5. CASE RebuildFails
    BY <1>5, ExitKeeps DEF RebuildFails, Fail, fileVars, ProcessInv
<1>6. CASE AddVector
    BY <1>6 DEF AddVector, ChunkingOver, processVars, fileVars, Goto, ProcessInv
<1>7. CASE Indexed
    BY <1>7 DEF Indexed, ChunkingOver, processVars, fileVars, Goto, ProcessInv
<1>8. CASE Persist
    BY <1>8, SavedIsAFile DEF Persist, Goto, ProcessInv
<1>9. CASE MakeEmbedder
    BY <1>9 DEF MakeEmbedder, ChunkingOver, processVars, fileVars, Goto, ProcessInv
<1>10. CASE NoEmbedder
    BY <1>10, ExitKeeps DEF NoEmbedder, Fail, fileVars, ProcessInv
<1>11. CASE ReadFile
    <2>1. ChunkMoves
        BY <1>11, FileRead
    <2> QED  BY <1>11, <2>1 DEF ReadFile, Goto, fileVars, ProcessInv
<1>12. CASE UnreadableFile
    BY <1>12, ExitKeeps DEF UnreadableFile, Fail, fileVars, ProcessInv
<1>13. CASE AllRead
    BY <1>13 DEF AllRead, ChunkingOver, processVars, fileVars, Goto, ProcessInv
<1>14. CASE ChunkStep
    BY <1>14 DEF ChunkStep, ChunkingOver, processVars, fileVars, Goto, ProcessInv
<1>15. CASE Chunked
    BY <1>15 DEF Chunked, ChunkingOver, processVars, fileVars, Goto, ProcessInv
<1>16. CASE StartEncoding
    BY <1>16 DEF StartEncoding, ChunkingOver, processVars, fileVars, Goto, ProcessInv
<1>17. CASE EncodingStep
    BY <1>17 DEF EncodingStep, ChunkingOver, processVars, fileVars, Goto, ProcessInv
<1>18. CASE EmbedOne
    BY <1>18 DEF EmbedOne, ChunkingOver, processVars, fileVars, Goto, ProcessInv
<1>19. CASE FileDone
    <2>1. IsSequence(documents')
        BY <1>19, AppendIsSequence DEF FileDone, ProcessInv
    <2> QED  BY <1>19, <2>1 DEF FileDone, ChunkingOver, Goto, fileVars, ProcessInv
<1>20. CASE InsertFails
    BY <1>20, ExitKeeps DEF InsertFails, Fail, fileVars, ProcessInv
<1>21. CASE AddDocuments
    BY <1>21 DEF AddDocuments, ChunkingOver, processVars, fileVars, Goto, ProcessInv
<1>22. CASE Save
    <2>1. sidecar' \in SidecarFile
        BY <1>22, SavedIsAFile DEF Save
    <2> QED  BY <1>22, <2>1, ExitKeeps DEF Save
<1>23. CASE QueryEmbedded
    BY <1>23 DEF QueryEmbedded, ChunkingOver, processVars, fileVars, Goto, ProcessInv
<1>24. CASE SparseSearch
    BY <1>24 DEF SparseSearch, ChunkingOver, processVars, fileVars, Goto, ProcessInv
<1>25. CASE PrintResults \/ MatchRefused
    BY <1>25, ExitKeeps DEF PrintResults, MatchRefused, Fail, fileVars, ProcessInv
<1>26. CASE ChunkTextReturns
    BY <1>26 DEF ChunkTextReturns, ChunkingOver, processVars, fileVars, Goto, ProcessInv
<1>27. CASE Throws
    BY <1>27, ExitKeeps DEF Throws, Fail, fileVars, ProcessInv
<1>28. CASE Killed
    BY <1>28, ExitKeeps DEF Killed, Fail, fileVars, ProcessInv
<1>29. CASE Launch
    BY <1>29 DEF Launch, fileVars, ProcessInv
<1>30. CASE CallChunkText
    <2>1. ChunkMoves
        BY <1>30, LibraryCall
    <2> QED  BY <1>30, <2>1 DEF CallChunkText, fileVars, ProcessInv
<1>31. CASE DamageSidecar
    <2>1. sidecar' \in SidecarFile
        BY <1>31 DEF DamageSidecar, ProcessInv, SidecarFile, NoFile
    <2> QED  BY <1>31, <2>1 DEF DamageSidecar, processVars, ProcessInv
<1>32. CASE UNCHANGED cmdVars
    BY <1>32 DEF cmdVars, processVars, fileVars, ProcessInv
<1> QED
    BY <1>1, <1>2, <1>3, <1>4, <1>5, <1>6, <1>7, <1>8, <1>9, <1>10, <1>11, <1>12, <1>13, <1>14, <1>15, <1>16, <1>17, <1>18, <1>19, <1>20, <1>21, <1>22, <1>23, <1>24, <1>25, <1>26, <1>27, <1>28, <1>29, <1>30, <1>31, <1>32
    DEF CommandNext, ProcessStep

(***************************************************************************)
(* What the commands tokenize.                                             *)
(***************************************************************************)
\* While chunks are embedded, their texts stay as chunk_text has cut them.
TextInv ==
    /\ chunking \in {"loop", "done"} => tokens \in Seq(Seq(Char))
    /\ pc = "embed" /\ command.kind = "ingest" =>
        chunking = "done" /\ todo \in 0..Len(chunks)

\* What chunk_text has cut are texts.
LEMMA TokensAreWords ==
    ASSUME ChunkMoves, chunking \in {"loop", "done"} => tokens \in Seq(Seq(Char))
    PROVE  chunking' \in {"loop", "done"} => tokens' \in Seq(Seq(Char))
<1>1. ASSUME NEW text \in Seq(Char), NEW w, NEW o, ChunkText(text, w, o)
      PROVE  tokens' \in Seq(Seq(Char))
    BY <1>1, RunsAreParts DEF ChunkText, Words
<1>2. CASE \E text \in Seq(Char), w, o \in 0..(SizeMod - 1) :
            /\ 2 * Len(text) <= SizeMod
            /\ ChunkText(text, w, o) \/ ChunkTextRefuses(w, o)
    BY <1>1, <1>2 DEF ChunkTextRefuses
<1>3. CASE EmitWindow
    BY <1>3 DEF EmitWindow
<1>4. CASE ForgetChunks
    BY <1>4 DEF ForgetChunks
<1>5. CASE UNCHANGED chunkingVars
    BY <1>5 DEF chunkingVars
<1> QED  BY <1>2, <1>3, <1>4, <1>5 DEF ChunkMoves

\* Whatever is embedded is a text.
LEMMA EmbedsText ==
    ASSUME ProcessInv, ChunkInv, TextInv, pc = "embed", todo > 0
    PROVE  ToEmbed \in Seq(Letter)
<1>1. command \in IngestCommand \cup QueryCommand
    BY DEF ProcessInv
<1>2. CASE command.kind = "ingest"
    <2>1. /\ chunking = "done" /\ todo \in 0..Len(chunks) /\ chunks \in Seq(Window)
          /\ tokens \in Seq(Seq(Char)) /\ WindowsCover
        BY <1>2 DEF TextInv, ChunkInv
    <2>2. Len(chunks) \in Nat /\ DOMAIN chunks = 1..Len(chunks) /\ Len(tokens) \in Nat
        BY <2>1, LenProperties
    <2> DEFINE n == Len(chunks) - todo + 1
    <2>3. n \in 1..Len(chunks)
        BY <2>1, <2>2
    <2> HIDE DEF n
    <2>4. chunks[n].start_token \in Nat /\ chunks[n].end_token \in Nat
        <3>1. chunks[n] \in Window
            BY <2>1, <2>3, ElementOfSeq
        <3> QED  BY <3>1 DEF Window
    <2>5. chunks[n].end_token <= Len(tokens)
        <3>1. Tiled /\ (chunks # <<>> => chunks[Len(chunks)].end_token = Len(tokens))
            BY <2>1 DEF WindowsCover
        <3>2. CASE n = Len(chunks)
            <4>1. chunks # <<>>
                BY <2>2, <2>3, EmptySeq
            <4> QED  BY <2>2, <3>1, <3>2, <4>1
        <3>3. CASE n # Len(chunks)
            <4> DEFINE last == Len(chunks)
            <4>0. last \in Nat /\ n \in 1..last /\ n # last
                BY <2>2, <2>3, <3>3
            <4> HIDE DEF last
            <4>1. n \in DOMAIN chunks /\ n < Len(chunks)
                <5>1. n < last
                    BY <4>0
                <5> QED  BY <2>2, <2>3, <5>1 DEF last
            <4>2. chunks[n].end_token < Len(tokens)
                BY <3>1, <4>1, Zenon DEF Tiled
            <4> QED  BY <2>2, <2>4, <4>2
        <3> QED  BY <3>2, <3>3
    <2>6. ChunkWords(n) \in Seq(Seq(Char))
        <3> DEFINE a == chunks[n].start_token + 1
                   b == chunks[n].end_token
        <3>1. a \in Int /\ b \in Int /\ \A i \in a..b : i \in 1..Len(tokens)
            BY <2>2, <2>4, <2>5
        <3>2. \A i \in a..b : tokens[i] \in Seq(Char)
            BY <2>1, <3>1, ElementOfSeq
        <3> HIDE DEF a, b
        <3>3. SubSeq(tokens, a, b) \in Seq(Seq(Char))
            BY <3>1, <3>2, SubSeqProperties
        <3> QED  BY <3>3 DEF ChunkWords, a, b
    <2>7. ToEmbed = Joined(ChunkWords(n))
        BY <1>2 DEF ToEmbed, TextOf, n
    <2> QED  BY <2>6, <2>7, JoinedIsText
<1>3. CASE command.kind # "ingest"
    <2>1. command.text \in Query
        BY <1>1, <1>3 DEF IngestCommand, QueryCommand
    <2>2. command.text \in Seq(Char)
        BY <2>1, CommandAssumption
    <2>3. command.text \in Seq(Letter)
        BY <2>2, SeqMonotonic DEF Letter
    <2> QED  BY <1>3, <2>3 DEF ToEmbed
<1> QED  BY <1>2, <1>3

LEMMA ExitForgets ==
    ASSUME NEW c, Exit(c)
    PROVE  EncodingMoves /\ pc' # "embed"
BY DEF Exit, EncodingMoves

\* A command moves the tokenizer only by its own operations, and gives it texts.
LEMMA StepsOfTheTokenizer ==
    ASSUME ProcessInv, ChunkInv, TextInv, ChunkMoves, [CommandNext]_cmdVars
    PROVE  EncodingMoves /\ TextInv'
<1> DEFINE Embedding == pc' = "embed" /\ command'.kind = "ingest" =>
                            chunking' = "done" /\ todo' \in 0..Len(chunks')
<1>1. CASE StartEncoding
    <2>1. ToEmbed \in Seq(Letter)
        BY <1>1, EmbedsText DEF StartEncoding
    <2> QED
        BY <1>1, <2>1, TokensAreWords
        DEF StartEncoding, EncodingMoves, TextInv, processVars, chunkingVars
<1>2. CASE EncodingStep
    BY <1>2, TokensAreWords DEF EncodingStep, EncodingMoves, TextInv, processVars, chunkingVars
<1>3. CASE EmbedOne
    <2>1. EncodingMoves
        BY <1>3 DEF EmbedOne, EncodingOver, EncodingMoves
    <2>2. Embedding
        <3> SUFFICES ASSUME command'.kind = "ingest"
                     PROVE  chunking' = "done" /\ todo' \in 0..Len(chunks')
            OBVIOUS
        <3>1. pc = "embed" /\ command' = command /\ todo > 0 /\ todo' = todo - 1
              /\ chunking' = chunking /\ chunks' = chunks
            BY <1>3 DEF EmbedOne, Goto, chunkingVars
        <3>2. chunking = "done" /\ todo \in 0..Len(chunks) /\ chunks \in Seq(Window)
            BY <3>1 DEF TextInv, ChunkInv
        <3> QED  BY <3>1, <3>2
    <2> QED  BY <2>1, <2>2, TokensAreWords DEF TextInv
<1>4. CASE Chunked
    <2>1. EncodingMoves
        BY <1>4 DEF Chunked, EncodingMoves
    <2>2. Embedding
        <3>1. chunking = "done" /\ chunking' = chunking /\ chunks' = chunks /\ todo' = Len(chunks)
            BY <1>4 DEF Chunked, chunkingVars
        <3>2. chunks \in Seq(Window)
            BY <3>1 DEF ChunkInv
        <3> QED  BY <3>1, <3>2
    <2> QED  BY <2>1, <2>2, TokensAreWords DEF TextInv
<1>5. CASE MakeEmbedder
    <2>1. EncodingMoves
        BY <1>5 DEF MakeEmbedder, EncodingMoves
    <2>2. Embedding
        BY <1>5 DEF MakeEmbedder, Goto
    <2> QED  BY <2>1, <2>2, TokensAreWords DEF TextInv
<1>6. CASE ChunkStep
    <2>1. EncodingMoves
        BY <1>6 DEF ChunkStep, EncodingMoves
    <2>2. Embedding
        BY <1>6 DEF ChunkStep, EmitWindow, processVars, TextInv
    <2> QED  BY <2>1, <2>2, TokensAreWords DEF TextInv
<1> DEFINE Ends == RebuildFails \/ NoEmbedder \/ UnreadableFile \/ InsertFails \/ Save
                   \/ PrintResults \/ MatchRefused \/ Throws \/ Killed
<1>7. CASE Ends
    <2>1. EncodingMoves /\ pc' # "embed"
        BY <1>7, ExitForgets
        DEF RebuildFails, NoEmbedder, UnreadableFile, InsertFails, Save, PrintResults, MatchRefused,
            Throws, Killed, Fail
    <2> QED  BY <2>1, TokensAreWords DEF TextInv
<1> DEFINE Passes == Open \/ LoadSidecar \/ CompareCounts \/ ClearIndex \/ AddVector
                     \/ Indexed \/ Persist \/ ReadFile \/ AllRead \/ FileDone
                     \/ AddDocuments \/ QueryEmbedded \/ SparseSearch \/ ChunkTextReturns
                     \/ Launch \/ CallChunkText
<1>8. CASE Passes
    <2>1. UNCHANGED encodingVars /\ pc' # "embed"
        BY <1>8
        DEF Open, LoadSidecar, CompareCounts, ClearIndex, AddVector, Indexed, Persist,
            ReadFile, AllRead, FileDone, AddDocuments, QueryEmbedded, SparseSearch,
            ChunkTextReturns, Launch, CallChunkText, Goto
    <2> QED  BY <2>1, TokensAreWords DEF TextInv, EncodingMoves
<1>9. CASE DamageSidecar \/ UNCHANGED cmdVars
    BY <1>9, TokensAreWords
    DEF DamageSidecar, cmdVars, processVars, chunkingVars, TextInv, EncodingMoves
<1> QED
    BY <1>1, <1>2, <1>3, <1>4, <1>5, <1>6, <1>7, <1>8, <1>9
    DEF CommandNext, ProcessStep

(***************************************************************************)
(* What an ingest stores.                                                  *)
(***************************************************************************)
LEMMA QuotientBounds ==
    ASSUME NEW s \in Nat \ {0}, NEW y \in Nat
    PROVE  (y \div s) \in Int /\ (y \div s) * s <= y /\ y < (y \div s) * s + s
OBVIOUS

LEMMA NextMultiple ==
    ASSUME NEW s \in Nat \ {0}, NEW a \in Int, NEW b \in Int, a < b
    PROVE  a * s + s <= b * s
<1>1. a + 1 <= b
    OBVIOUS
<1>2. (a + 1) * s <= b * s
    BY <1>1
<1>3. (a + 1) * s = a * s + s
    OBVIOUS
<1> QED  BY <1>2, <1>3

LEMMA QuotientIsUnique ==
    ASSUME NEW s \in Nat \ {0}, NEW y \in Nat, NEW q \in Int, q * s <= y, y < q * s + s
    PROVE  y \div s = q
<1> DEFINE d == y \div s
<1>1. d \in Int /\ d * s <= y /\ y < d * s + s
    BY QuotientBounds
<1> HIDE DEF d
<1>2. q * s \in Int /\ d * s \in Int
    BY <1>1
<1>3. ~(d < q)
    <2> SUFFICES ASSUME d < q PROVE FALSE
        OBVIOUS
    <2>1. d * s + s <= q * s
        BY <1>1, NextMultiple
    <2> QED  BY <1>1, <1>2, <2>1
<1>4. ~(q < d)
    <2> SUFFICES ASSUME q < d PROVE FALSE
        OBVIOUS
    <2>1. q * s + s <= d * s
        BY <1>1, NextMultiple
    <2> QED  BY <1>1, <1>2, <2>1
<1> QED  BY <1>1, <1>3, <1>4 DEF d

\* The last window is no longer than a window.
LastInv ==
    chunking = "done" /\ chunks # <<>> =>
        Len(tokens) <= chunks[Len(chunks)].start_token + window

\* Every operation of chunk_text keeps the last window short enough.
LEMMA LastOperations ==
    ASSUME ChunkInv, LastInv, ChunkMoves, ChunkInv'
    PROVE  LastInv'
<1>1. CASE EmitWindow
    <2> SUFFICES ASSUME chunking' = "done"
                 PROVE  Len(tokens') <= chunks'[Len(chunks')].start_token + window'
        BY DEF LastInv
    <2> DEFINE new == [start_token |-> start, end_token |-> WindowEnd]
               end == (start + window) % SizeMod
    <2>1. /\ chunking = "loop" /\ chunks' = Append(chunks, new)
          /\ UNCHANGED <<tokens, window, overlap>>
        BY <1>1 DEF EmitWindow
    <2>2. /\ window \in 1..(SizeMod - 1) /\ IsSequence(tokens)
          /\ chunks \in Seq(Window) /\ start \in Nat
        BY <2>1 DEF ChunkInv
    <2>3. Len(tokens) \in Nat /\ SizeMod \in Nat \ {0} /\ window \in Nat
        BY <2>2, SizeAssumption DEF IsSequence
    <2>4. end \in Nat /\ end <= start + window
        BY <2>2, <2>3
    <2>5. new.start_token = start /\ new.end_token = WindowEnd
        OBVIOUS
    <2>6. WindowEnd = IF end < Len(tokens) THEN end ELSE Len(tokens)
        BY DEF WindowEnd
    <2> HIDE DEF end
    <2>7. new \in Window
        BY <2>2, <2>3, <2>4, <2>6 DEF Window
    <2> HIDE DEF new
    <2>8. /\ Len(chunks') = Len(chunks) + 1 /\ chunks'[Len(chunks) + 1] = new
          /\ chunks' # <<>>
        BY <2>1, <2>2, <2>7, AppendProperties
    <2>9. chunks'[Len(chunks')].end_token = Len(tokens')
        BY <2>8 DEF ChunkInv, WindowsCover
    <2>10. WindowEnd = Len(tokens)
        BY <2>1, <2>5, <2>8, <2>9
    <2>11. Len(tokens) <= end
        BY <2>3, <2>4, <2>6, <2>10
    <2> QED  BY <2>1, <2>2, <2>3, <2>4, <2>5, <2>8, <2>11
<1>2. CASE \E text \in Seq(Char), w, o \in 0..(SizeMod - 1) :
            /\ 2 * Len(text) <= SizeMod
            /\ ChunkText(text, w, o) \/ ChunkTextRefuses(w, o)
    BY <1>2 DEF ChunkText, ChunkTextRefuses, LastInv
<1>3. CASE ForgetChunks
    BY <1>3 DEF ForgetChunks, LastInv
<1>4. CASE UNCHANGED chunkingVars
    BY <1>4 DEF chunkingVars, LastInv
<1> QED  BY <1>1, <1>2, <1>3, <1>4 DEF ChunkMoves

\* How many windows there are, from the length of the text alone.
LEMMA WindowCount ==
    ASSUME NEW L \in Nat \ {0}, NEW w \in Nat \ {0}, NEW s \in Nat \ {0}, NEW c \in Nat \ {0},
           c > 1 => (c - 2) * s + w < L,
           L <= (c - 1) * s + w
    PROVE  c = IF L <= w THEN 1 ELSE 1 + ((L - w + s - 1) \div s)
<1>1. CASE c = 1
    <2>1. (c - 1) * s = 0
        BY <1>1
    <2> QED  BY <1>1, <2>1
<1>2. CASE c > 1
    <2> DEFINE a == (c - 2) * s
               b == (c - 1) * s
               y == L - w + s - 1
    <2>1. a \in Nat /\ b \in Nat /\ b = a + s
        BY <1>2
    <2>2. a + w < L /\ L <= b + w
        BY <1>2
    <2>3. y = L - w + s - 1
        OBVIOUS
    <2> HIDE DEF a, b, y
    <2>4. ~(L <= w) /\ y \in Nat /\ b <= y /\ y < b + s
        BY <2>1, <2>2, <2>3
    <2>5. (c - 1) * s <= y /\ y < (c - 1) * s + s
        BY <2>4 DEF b
    <2>6. y \div s = c - 1
        BY <2>4, <2>5, QuotientIsUnique
    <2> QED  BY <2>3, <2>4, <2>6
<1> QED  BY <1>1, <1>2

\* The document that FileDone adds is the one expected of its file, less what
\* follows a NUL.
LEMMA DocumentIsExpected ==
    ASSUME ChunkInv, LastInv, chunking = "done",
           window = ChunkWindow, overlap = ChunkOverlap,
           NEW file, tokens = Words(file.text), NEW d
    PROVE  [id |-> file.name, dim |-> d,
            chunks |-> [n \in DOMAIN chunks |->
                [text |-> CString(TextOf(n)),
                 start_token |-> chunks[n].start_token,
                 end_token |-> chunks[n].end_token]]] = LessWhatFollowsNul(Expected(file, d))
<1> DEFINE c == Len(chunks)
           L == Len(tokens)
           step == ChunkWindow - ChunkOverlap
           count == IF tokens = <<>> THEN 0
                    ELSE IF L <= ChunkWindow THEN 1
                    ELSE 1 + ((L - ChunkWindow + step - 1) \div step)
           last(n) == IF n = count THEN L ELSE (n - 1) * step + ChunkWindow
           text(n) == Joined(SubSeq(tokens, (n - 1) * step + 1, last(n)))
           made(n) == [text |-> CString(TextOf(n)), start_token |-> chunks[n].start_token,
                       end_token |-> chunks[n].end_token]
           all(n) == [text |-> text(n), start_token |-> (n - 1) * step, end_token |-> last(n)]
           wanted(n) == [all(n) EXCEPT !.text = CString(text(n))]
<1>1. /\ chunks \in Seq(Window) /\ IsSequence(tokens)
      /\ window \in 1..(SizeMod - 1) /\ overlap \in 0..(window - 1)
      /\ WindowsCover
    BY DEF ChunkInv
<1>2. /\ c \in Nat /\ L \in Nat /\ DOMAIN chunks = 1..c
      /\ Step = step /\ step \in Nat \ {0} /\ window \in Nat \ {0}
    <2>1. c \in Nat /\ L \in Nat /\ DOMAIN chunks = 1..c
        BY <1>1, LenProperties DEF IsSequence
    <2>2. SizeMod \in Nat
        BY SizeAssumption
    <2>3. Step = step
        BY DEF Step
    <2> QED  BY <1>1, <2>1, <2>2, <2>3
<1>3. /\ chunks = <<>> <=> tokens = <<>>
      /\ chunks = <<>> <=> c = 0
      /\ tokens = <<>> <=> L = 0
    <2>1. chunks = <<>> <=> c = 0
        BY <1>1, EmptySeq
    <2>2. tokens = <<>> <=> L = 0
        BY <1>1, EmptySeq DEF IsSequence
    <2> QED  BY <1>1, <2>1, <2>2 DEF WindowsCover
<1> HIDE DEF step, c, L
<1>4. \A n \in 1..c :
        /\ chunks[n].start_token = (n - 1) * step
        /\ n < c => chunks[n].end_token = (n - 1) * step + window /\ chunks[n].end_token < L
    <2> SUFFICES ASSUME NEW n \in 1..c
                 PROVE  /\ chunks[n].start_token = (n - 1) * step
                        /\ n < c => /\ chunks[n].end_token = (n - 1) * step + window
                                    /\ chunks[n].end_token < L
        OBVIOUS
    <2>1. Tiled /\ n \in DOMAIN chunks
        BY <1>1, <1>2 DEF WindowsCover
    <2>2. /\ chunks[n].start_token = (n - 1) * Step
          /\ n < c => chunks[n].end_token = chunks[n].start_token + window
                      /\ chunks[n].end_token < L
        BY <2>1, Zenon DEF Tiled, c, L
    <2> QED  BY <1>2, <2>2
<1>5. c # 0 => chunks[c].end_token = L /\ L <= (c - 1) * step + window
    <2> SUFFICES ASSUME c # 0 PROVE chunks[c].end_token = L /\ L <= (c - 1) * step + window
        OBVIOUS
    <2>1. c \in 1..c /\ chunks # <<>>
        BY <1>2, <1>3
    <2>2. chunks[c].end_token = L /\ L <= chunks[c].start_token + window
        BY <1>1, <2>1 DEF WindowsCover, LastInv, c, L
    <2> QED  BY <1>4, <2>1, <2>2
<1>6. count = c
    <2>1. CASE c = 0
        BY <1>3, <2>1
    <2>2. CASE c # 0
        <3>1. L \in Nat \ {0} /\ c \in Nat \ {0} /\ tokens # <<>>
            BY <1>2, <1>3, <2>2
        <3>2. c > 1 => (c - 2) * step + window < L
            <4> SUFFICES ASSUME c > 1 PROVE (c - 2) * step + window < L
                OBVIOUS
            <4>1. c - 1 \in 1..c /\ c - 1 < c /\ (c - 1) - 1 = c - 2
                BY <1>2
            <4> QED  BY <1>4, <4>1
        <3>3. c = IF L <= window THEN 1 ELSE 1 + ((L - window + step - 1) \div step)
            BY <1>2, <1>5, <2>2, <3>1, <3>2, WindowCount
        <3> QED  BY <3>1, <3>3
    <2> QED  BY <2>1, <2>2
<1> HIDE DEF count
<1>7. ASSUME NEW n \in 1..c PROVE made(n) = wanted(n)
    <2>1. chunks[n].start_token = (n - 1) * step
        BY <1>4
    <2>2. chunks[n].end_token = last(n)
        <3>1. CASE n = c
            <4>1. c # 0
                BY <1>2, <3>1
            <4> QED  BY <1>5, <1>6, <3>1, <4>1
        <3>2. CASE n # c
            <4>1. n < c
                BY <1>2, <3>2
            <4> QED  BY <1>4, <1>6, <3>2, <4>1
        <3> QED  BY <3>1, <3>2
    <2> HIDE DEF last
    <2>3. TextOf(n) = Joined(SubSeq(tokens, (n - 1) * step + 1, last(n)))
        BY <2>1, <2>2 DEF TextOf, ChunkWords
    <2> QED  BY <2>1, <2>2, <2>3
<1>8. LessWhatFollowsNul(Expected(file, d)) =
        [id |-> file.name, dim |-> d, chunks |-> [n \in 1..count |-> wanted(n)]]
    <2> DEFINE e == Expected(file, d)
    <2>1. e = [id |-> file.name, dim |-> d, chunks |-> [n \in 1..count |-> all(n)]]
        BY DEF Expected, count, step, L
    <2>2. \A n \in 1..count : all(n).text = text(n)
        OBVIOUS
    <2> HIDE DEF e, all, text
    <2>3. /\ DOMAIN e.chunks = 1..count
          /\ \A n \in 1..count : e.chunks[n] = all(n)
        BY <2>1
    <2>4. [n \in DOMAIN e.chunks |->
                [e.chunks[n] EXCEPT !.text = CString(e.chunks[n].text)]]
          = [n \in 1..count |-> wanted(n)]
        BY <2>2, <2>3
    <2>5. LessWhatFollowsNul(e) = [e EXCEPT !.chunks = [n \in 1..count |-> wanted(n)]]
        BY <2>4 DEF LessWhatFollowsNul
    <2> HIDE DEF wanted
    <2>6. LessWhatFollowsNul(e) =
            [id |-> file.name, dim |-> d, chunks |-> [n \in 1..count |-> wanted(n)]]
        BY <2>1, <2>5
    <2> QED  BY <2>6 DEF e
<1> HIDE DEF made, wanted
<1>9. [n \in DOMAIN chunks |-> made(n)] = [n \in 1..count |-> wanted(n)]
    BY <1>2, <1>6, <1>7
<1>10. [id |-> file.name, dim |-> d, chunks |-> [n \in DOMAIN chunks |-> made(n)]]
        = LessWhatFollowsNul(Expected(file, d))
    BY <1>8, <1>9, Zenon
<1> QED  BY <1>10 DEF made

\* The chunks that ChunksOf counts.
Keys(docs) == UNION { {d} \X DOMAIN d.chunks : d \in docs }

\* Documents that have none in common have no chunk in common.
LEMMA CountsAdd ==
    ASSUME NEW A, NEW B, IsFiniteSet(Keys(A)), IsFiniteSet(Keys(B)), A \cap B = {}
    PROVE  /\ IsFiniteSet(Keys(A \cup B))
           /\ ChunksOf(A) \in Nat /\ ChunksOf(B) \in Nat
           /\ ChunksOf(A \cup B) = ChunksOf(A) + ChunksOf(B)
<1>1. Keys(A \cup B) = Keys(A) \cup Keys(B)
    BY DEF Keys
<1>2. \A D, x : x \in Keys(D) => \E d \in D : x[1] = d
    BY DEF Keys
<1>3. Keys(A) \cap Keys(B) = {}
    BY <1>2
<1> DEFINE P == Keys(A)
           Q == Keys(B)
<1>4. Cardinality(P) \in Nat /\ Cardinality(Q) \in Nat
    BY FS_CardinalityType
<1>5. IsFiniteSet(P \cup Q)
      /\ Cardinality(P \cup Q) = Cardinality(P) + Cardinality(Q) - Cardinality(P \cap Q)
    BY FS_Union
<1>6. Cardinality(P \cap Q) = 0
    BY <1>3, FS_EmptySet
<1> HIDE DEF P, Q
<1>7. Cardinality(P \cup Q) = Cardinality(P) + Cardinality(Q)
    BY <1>4, <1>5, <1>6
<1>8. \A D : ChunksOf(D) = Cardinality(Keys(D))
    BY DEF ChunksOf, Keys
<1> QED  BY <1>1, <1>4, <1>5, <1>7, <1>8 DEF P, Q

\* The chunks of a sequence of documents are finitely many.
LEMMA FewKeys ==
    ASSUME NEW s, IsSequence(s), \A n \in 1..Len(s) : IsFiniteSet(DOMAIN s[n].chunks)
    PROVE  IsFiniteSet(Keys(ToSet(s)))
<1>1. Len(s) \in Nat /\ DOMAIN s = 1..Len(s)
    BY DEF IsSequence
<1> DEFINE of(d) == {d} \X DOMAIN d.chunks
           T == { of(d) : d \in ToSet(s) }
           f == [n \in 1..Len(s) |-> of(s[n])]
<1>2. f \in Surjection(1..Len(s), T)
    <2>1. \A n \in 1..Len(s) : s[n] \in ToSet(s)
        BY <1>1 DEF ToSet
    <2>2. \A d \in ToSet(s) : \E n \in 1..Len(s) : d = s[n]
        BY <1>1 DEF ToSet
    <2> HIDE DEF of
    <2>3. f \in [1..Len(s) -> T]
        BY <2>1
    <2>4. \A t \in T : \E n \in 1..Len(s) : f[n] = t
        BY <2>2
    <2> QED  BY <2>3, <2>4 DEF Surjection
<1>3. IsFiniteSet(T)
    <2>1. IsFiniteSet(1..Len(s))
        BY <1>1, FS_Interval
    <2> HIDE DEF T, f
    <2> QED  BY <1>2, <2>1, FS_Surjection
<1>4. \A t \in T : IsFiniteSet(t)
    <2> SUFFICES ASSUME NEW d \in ToSet(s) PROVE IsFiniteSet(of(d))
        OBVIOUS
    <2>1. IsFiniteSet(DOMAIN d.chunks)
        BY <1>1 DEF ToSet
    <2>2. IsFiniteSet({d})
        BY FS_Singleton
    <2> QED  BY <2>1, <2>2, FS_Product
<1>5. Keys(ToSet(s)) = UNION T
    BY DEF Keys
<1> HIDE DEF T
<1> QED  BY <1>3, <1>4, <1>5, FS_UNION

\* The documents built so far are those expected of the first files.
DocumentsInv ==
    /\ Len(documents) <= Len(Files)
    /\ \A n \in 1..Len(documents) : documents[n] = LessWhatFollowsNul(Expected(Files[n], EmbedDim))
    /\ \A n \in 1..Len(documents) : IsFiniteSet(DOMAIN documents[n].chunks)

\* The file in work is the next one, cut as ingest cuts.
FileInWork ==
    /\ Len(documents) < Len(Files)
    /\ chunking \in {"loop", "done"}
    /\ tokens = Words(Files[Len(documents) + 1].text)
    /\ window = ChunkWindow /\ overlap = ChunkOverlap

FilesInv ==
    /\ pc \in {"shell", "library"} => command = NoCommand /\ documents = <<>>
    /\ pc \in {"search", "answer"} => command.kind = "query"
    /\ pc \in {"read", "chunk", "insert", "index", "save"} => command.kind = "ingest"
    /\ command.kind = "ingest" =>
        /\ DocumentsInv
        /\ pc \in {"chunk", "embed"} => FileInWork
        /\ pc \in {"insert", "index", "save"} => Len(documents) = Len(Files)
        /\ stored = IF pc \in {"index", "save"} THEN before \cup ToSet(documents) ELSE before

\* What is in the index, and what is still to be added.
CountInv ==
    /\ IsFiniteSet(Keys(stored))
    /\ pc \notin {"shell", "library", "open"} => dimensions = EmbedDim
    /\ pc \in {"load", "compare", "clear"} => todo = ChunksOf(stored)
    /\ pc \in {"rebuild", "index"} => todo \in Int /\ graph.size + todo = ChunksOf(stored)
    /\ pc \in {"persist", "model", "read", "chunk", "embed", "insert", "save", "search", "answer"} =>
        graph.size = ChunksOf(stored)
    /\ pc = "save" => object = "ready"

\* What the folder of an ingest holds.
LEMMA FolderFiles ==
    ASSUME ProcessInv, pc \notin {"shell", "library"}, command.kind = "ingest"
    PROVE  Files \in Seq(TextFile) /\ Len(Files) \in Nat /\ EmbedDim \in Nat
<1>1. command \in IngestCommand
    BY DEF ProcessInv, IngestCommand, QueryCommand
<1>2. command.folder \in Folder
    BY <1>1 DEF IngestCommand
<1>3. Files \in Seq(TextFile)
    BY <1>2, CommandAssumption DEF Files
<1> QED  BY <1>1, <1>3, SizeOfVectors, LenProperties

\* A step that neither adds a document nor stores one.
LEMMA FilesStay ==
    ASSUME FilesInv,
           UNCHANGED <<command, documents, before, stored>>,
           pc' \in {"shell", "library"} => pc \in {"shell", "library"},
           pc' \in {"search", "answer"} => command.kind = "query",
           pc' \in {"read", "chunk", "insert", "index", "save"} => command.kind = "ingest",
           command.kind = "ingest" =>
              /\ pc' \in {"chunk", "embed"} => FileInWork'
              /\ pc' \in {"insert", "index", "save"} => Len(documents) = Len(Files)
              /\ pc' \in {"index", "save"} <=> pc \in {"index", "save"}
    PROVE  FilesInv'
<1>1. Files' = Files /\ EmbedDim' = EmbedDim
    BY DEF Files, EmbedDim
<1>2. command.kind = "ingest" => DocumentsInv'
    BY <1>1 DEF FilesInv, DocumentsInv
<1> QED  BY <1>1, <1>2 DEF FilesInv

LEMMA FileStays ==
    ASSUME FileInWork, UNCHANGED <<chunkingVars, command, documents>>
    PROVE  FileInWork'
BY DEF FileInWork, chunkingVars, Files

\* A process that has ended has no document.
LEMMA ExitClears ==
    ASSUME NEW c, Exit(c)
    PROVE  FilesInv'
BY DEF Exit, FilesInv, NoCommand

\* Every step keeps the documents in memory and in the tables those of the folder.
LEMMA StepsOfTheFiles ==
    ASSUME ProcessInv, ChunkInv, TextInv, LastInv, FilesInv, [CommandNext]_cmdVars
    PROVE  FilesInv'
<1> DEFINE Ends == RebuildFails \/ NoEmbedder \/ UnreadableFile \/ InsertFails \/ Save
                   \/ PrintResults \/ MatchRefused \/ Throws \/ Killed
<1>1. CASE Ends
    BY <1>1, ExitClears
    DEF RebuildFails, NoEmbedder, UnreadableFile, InsertFails, Save, PrintResults, MatchRefused,
        Throws, Killed, Fail
<1>2. CASE Launch
    <2>1. /\ pc = "shell" /\ command = NoCommand /\ documents = <<>>
          /\ UNCHANGED <<documents, stored>>
        BY <1>2 DEF Launch, FilesInv, fileVars
    <2>2. CASE UNCHANGED <<pc, command, before>>
        BY <2>1, <2>2 DEF FilesInv, NoCommand
    <2>3. CASE pc' = "open" /\ before' = stored
                /\ command' \in IngestCommand \cup QueryCommand
        <3>1. command'.kind = "ingest" => Files' \in Seq(TextFile)
            <4> SUFFICES ASSUME command'.kind = "ingest" PROVE Files' \in Seq(TextFile)
                OBVIOUS
            <4>1. command' \in IngestCommand
                BY <2>3 DEF IngestCommand, QueryCommand
            <4>2. command'.folder \in Folder
                BY <4>1 DEF IngestCommand
            <4> QED  BY <4>2, CommandAssumption DEF Files
        <3>2. command'.kind = "ingest" => Len(Files') \in Nat
            BY <3>1, LenProperties
        <3>3. Len(documents') = 0 /\ 1..Len(documents') = {}
            BY <2>1
        <3>4. command'.kind = "ingest" => DocumentsInv'
            BY <3>2, <3>3 DEF DocumentsInv
        <3> QED  BY <2>1, <2>3, <3>4 DEF FilesInv
    <2> QED  BY <1>2, <2>2, <2>3 DEF Launch
<1>3. CASE FileDone
    <2>1. /\ pc = "embed" /\ pc' = "read" /\ todo = 0 /\ command.kind = "ingest"
          /\ documents' = Append(documents, NewDocument)
          /\ UNCHANGED <<command, before, stored>>
        BY <1>3 DEF FileDone, Goto, fileVars
    <2>2. /\ DocumentsInv /\ FileInWork /\ stored = before /\ chunking = "done"
          /\ chunks \in Seq(Window) /\ IsSequence(documents)
        BY <2>1 DEF FilesInv, TextInv, ChunkInv, ProcessInv
    <2>3. Files' = Files /\ EmbedDim' = EmbedDim /\ Len(Files) \in Nat /\ Len(documents) \in Nat
        <3>1. Len(Files) \in Nat
            BY <2>1, FolderFiles
        <3> QED  BY <2>1, <2>2, <3>1 DEF Files, EmbedDim, IsSequence
    <2> DEFINE m == Len(documents)
               file == Files[m + 1]
               e == NewDocument
    <2>4. e = LessWhatFollowsNul(Expected(file, EmbedDim))
        <3>1. tokens = Words(file.text) /\ window = ChunkWindow /\ overlap = ChunkOverlap
            BY <2>2 DEF FileInWork
        <3> HIDE DEF file
        <3>2. [id |-> file.name, dim |-> EmbedDim,
               chunks |-> [n \in DOMAIN chunks |->
                    [text |-> CString(TextOf(n)),
                     start_token |-> chunks[n].start_token,
                     end_token |-> chunks[n].end_token]]]
                = LessWhatFollowsNul(Expected(file, EmbedDim))
            BY <2>2, <3>1, DocumentIsExpected
        <3> QED  BY <3>2 DEF NewDocument, file
    <2>5. IsFiniteSet(DOMAIN e.chunks)
        <3>1. DOMAIN e.chunks = DOMAIN chunks
            BY DEF NewDocument
        <3>2. DOMAIN chunks = 1..Len(chunks) /\ Len(chunks) \in Nat
            BY <2>2, LenProperties
        <3>3. IsFiniteSet(1..Len(chunks))
            BY <3>2, FS_Interval
        <3> QED  BY <3>1, <3>2, <3>3
    <2> HIDE DEF e
    <2>6. /\ Len(documents') = m + 1
          /\ \A n \in 1..m : documents'[n] = documents[n]
          /\ documents'[m + 1] = e
        <3>1. PICK S : documents \in Seq(S)
            BY <2>2 DEF IsSequence
        <3>2. documents \in Seq(S \cup {e}) /\ e \in S \cup {e}
            BY <3>1, SeqMonotonic
        <3>3. documents' = Append(documents, e)
            BY <2>1 DEF e
        <3> QED  BY <3>2, <3>3, AppendProperties
    <2> HIDE DEF m
    <2>7. m \in Nat /\ m < Len(Files) /\ m = Len(documents)
        BY <2>2, <2>3 DEF FileInWork, m
    <2>8. \A n \in 1..(m + 1) : documents'[n] = LessWhatFollowsNul(Expected(Files[n], EmbedDim))
                                /\ IsFiniteSet(DOMAIN documents'[n].chunks)
        <3> SUFFICES ASSUME NEW n \in 1..(m + 1)
                     PROVE  /\ documents'[n] = LessWhatFollowsNul(Expected(Files[n], EmbedDim))
                            /\ IsFiniteSet(DOMAIN documents'[n].chunks)
            OBVIOUS
        <3>1. CASE n = m + 1
            BY <2>4, <2>5, <2>6, <3>1
        <3>2. CASE n # m + 1
            <4>1. n \in 1..m
                BY <2>7, <3>2
            <4> QED  BY <2>2, <2>6, <2>7, <4>1 DEF DocumentsInv
        <3> QED  BY <3>1, <3>2
    <2>9. Len(documents') <= Len(Files)
        BY <2>3, <2>6, <2>7
    <2>10. DocumentsInv'
        BY <2>3, <2>6, <2>8, <2>9 DEF DocumentsInv
    <2> QED  BY <2>1, <2>2, <2>10 DEF FilesInv
<1>4. CASE AddDocuments
    <2>1. /\ pc = "insert" /\ pc' = "index" /\ stored' = stored \cup ToSet(documents)
          /\ UNCHANGED <<command, documents, before>>
        BY <1>4 DEF AddDocuments, Goto
    <2>2. /\ command.kind = "ingest" /\ DocumentsInv /\ stored = before
          /\ Len(documents) = Len(Files)
        BY <2>1 DEF FilesInv
    <2>3. Files' = Files /\ EmbedDim' = EmbedDim
        BY <2>1 DEF Files, EmbedDim
    <2>4. DocumentsInv'
        BY <2>1, <2>2, <2>3 DEF DocumentsInv
    <2> QED  BY <2>1, <2>2, <2>3, <2>4 DEF FilesInv
<1>5. CASE ReadFile
    <2>1. /\ pc = "read" /\ pc' = "chunk" /\ Len(documents) < Len(Files)
          /\ UNCHANGED <<command, documents, before, stored>>
          /\ ChunkText(Files[Len(documents) + 1].text, ChunkWindow, ChunkOverlap)
        BY <1>5 DEF ReadFile, Goto, fileVars
    <2>2. FileInWork'
        BY <2>1 DEF FileInWork, ChunkText, Files
    <2>3. command.kind = "ingest"
        BY <2>1 DEF FilesInv
    <2> QED  BY <2>1, <2>2, <2>3, FilesStay
<1>6. CASE AllRead
    <2>1. /\ pc = "read" /\ pc' = "insert" /\ Len(documents) = Len(Files)
          /\ UNCHANGED <<command, documents, before, stored>>
        BY <1>6 DEF AllRead, Goto, fileVars
    <2>2. command.kind = "ingest"
        BY <2>1 DEF FilesInv
    <2> QED  BY <2>1, <2>2, FilesStay
<1>7. CASE ChunkStep
    <2>1. UNCHANGED <<pc, command, documents, before, stored>> /\ EmitWindow
        BY <1>7 DEF ChunkStep, processVars, fileVars
    <2>2. FileInWork => FileInWork'
        BY <2>1 DEF FileInWork, EmitWindow, Files
    <2> QED  BY <2>1, <2>2, FilesStay DEF FilesInv
<1>8. CASE Chunked
    <2>1. /\ pc = "chunk" /\ pc' = "embed"
          /\ UNCHANGED <<chunkingVars, command, documents, before, stored>>
        BY <1>8 DEF Chunked, Goto, fileVars
    <2>2. FileInWork'
        BY <2>1, FileStays DEF FilesInv
    <2> QED  BY <2>1, <2>2, FilesStay DEF FilesInv
<1>9. CASE StartEncoding \/ EncodingStep \/ EmbedOne
    <2>1. UNCHANGED <<pc, chunkingVars, command, documents, before, stored>>
        BY <1>9 DEF StartEncoding, EncodingStep, EmbedOne, Goto, processVars, fileVars
    <2>2. FileInWork => FileInWork'
        BY <2>1, FileStays
    <2> QED  BY <2>1, <2>2, FilesStay DEF FilesInv
<1>10. CASE MakeEmbedder
    <2>1. /\ pc = "model" /\ pc' = IF command.kind = "ingest" THEN "read" ELSE "embed"
          /\ UNCHANGED <<command, documents, before, stored>>
        BY <1>10 DEF MakeEmbedder, Goto, fileVars
    <2> QED  BY <2>1, FilesStay
<1>11. CASE Open \/ LoadSidecar \/ CompareCounts \/ ClearIndex \/ Persist
    <2>1. /\ pc \in {"open", "load", "compare", "clear", "persist"}
          /\ pc' \in {"rebuild", "load", "clear", "compare", "model"}
          /\ UNCHANGED <<command, documents, before, stored>>
        BY <1>11 DEF Open, LoadSidecar, CompareCounts, ClearIndex, Persist, Goto, fileVars
    <2> QED  BY <2>1, FilesStay
<1>12. CASE AddVector
    <2>1. /\ pc \in {"index", "rebuild"} /\ pc' = pc
          /\ UNCHANGED <<command, documents, before, stored>>
        BY <1>12 DEF AddVector, Goto, fileVars
    <2> QED  BY <2>1, FilesStay DEF FilesInv
<1>13. CASE Indexed
    <2>1. /\ \/ pc = "rebuild" /\ pc' = "persist"
             \/ pc = "index" /\ pc' = "save"
          /\ UNCHANGED <<command, documents, before, stored>>
        BY <1>13 DEF Indexed, Goto, fileVars
    <2> QED  BY <2>1, FilesStay DEF FilesInv
<1>14. CASE QueryEmbedded \/ SparseSearch
    <2>1. /\ pc' \in {"search", "answer"} /\ pc \in {"embed", "search"} /\ command.kind = "query"
          /\ UNCHANGED <<command, documents, before, stored>>
        BY <1>14 DEF QueryEmbedded, SparseSearch, Goto, fileVars, FilesInv
    <2> QED  BY <2>1, FilesStay
<1>15. CASE ChunkTextReturns \/ CallChunkText \/ DamageSidecar
    <2>1. /\ pc \in {"shell", "library"} /\ pc' \in {"shell", "library"}
          /\ UNCHANGED <<command, documents, before, stored>>
        BY <1>15 DEF ChunkTextReturns, CallChunkText, DamageSidecar, processVars, fileVars
    <2>2. command.kind # "ingest"
        BY <2>1 DEF FilesInv, NoCommand
    <2> QED  BY <2>1, <2>2, FilesStay
<1>16. CASE UNCHANGED cmdVars
    <2>1. UNCHANGED <<pc, chunkingVars, command, documents, before, stored>>
        BY <1>16 DEF cmdVars, processVars, fileVars
    <2>2. FileInWork => FileInWork'
        BY <2>1, FileStays
    <2> QED  BY <2>1, <2>2, FilesStay DEF FilesInv
<1> QED
    BY <1>1, <1>2, <1>3, <1>4, <1>5, <1>6, <1>7, <1>8, <1>9, <1>10, <1>11, <1>12, <1>13,
       <1>14, <1>15, <1>16
    DEF CommandNext, ProcessStep

\* Provisioning adds no vector.
LEMMA ProvisionedSize ==
    ASSUME NEW g \in Graph, NEW n
    PROVE  ProvisionSearchThreads(g, n).size = g.size
BY DEF ProvisionSearchThreads, Reserve, Graph

LEMMA EmptySize ==
    ASSUME NEW d \in Nat, NEW n \in Cores, NEW t
    PROVE  ProvisionSearchThreads(Empty(d, n), t).size = 0
<1>1. Empty(d, n) \in Graph /\ Empty(d, n).size = 0
    BY DenseAssumption DEF Empty, Graph
<1> QED  BY <1>1, ProvisionedSize

\* A step that neither stores documents nor changes how many vectors there are.
LEMMA CountsStay ==
    ASSUME CountInv,
           UNCHANGED <<command, stored, dimensions>>, graph'.size = graph.size,
           pc' \notin {"shell", "library", "open"} => pc \notin {"shell", "library", "open"},
           pc' \in {"load", "compare", "clear"} =>
               pc \in {"load", "compare", "clear"} /\ todo' = todo,
           pc' \in {"rebuild", "index"} => pc' = pc /\ todo' = todo,
           pc' \in {"persist", "model", "read", "chunk", "embed", "insert", "save", "search", "answer"} =>
               graph.size = ChunksOf(stored),
           pc' = "save" => object' = "ready"
    PROVE  CountInv'
<1>1. EmbedDim' = EmbedDim /\ Keys(stored)' = Keys(stored) /\ ChunksOf(stored)' = ChunksOf(stored)
    BY DEF EmbedDim
<1> QED  BY <1>1 DEF CountInv

\* A process that has ended has no index.
LEMMA ExitCounts ==
    ASSUME CountInv, NEW c, Exit(c), UNCHANGED stored
    PROVE  CountInv'
BY DEF Exit, CountInv

\* Every step keeps account of the vectors.
LEMMA StepsOfTheCounts ==
    ASSUME DenseInv, ProcessInv, FilesInv, CountInv, [CommandNext]_cmdVars
    PROVE  CountInv'
<1> DEFINE Ends == RebuildFails \/ NoEmbedder \/ UnreadableFile \/ InsertFails \/ Save
                   \/ PrintResults \/ MatchRefused \/ Throws \/ Killed
<1>1. CASE Ends
    BY <1>1, ExitCounts
    DEF RebuildFails, NoEmbedder, UnreadableFile, InsertFails, Save, PrintResults, MatchRefused,
        Throws, Killed, Fail, fileVars
<1>2. CASE Launch
    BY <1>2 DEF Launch, fileVars, CountInv
<1>3. CASE Open
    <2>1. /\ pc = "open" /\ pc' \in {"rebuild", "load"} /\ Construct(EmbedDim)
          /\ todo' = ChunksOf(stored) /\ UNCHANGED <<command, stored>>
        BY <1>3 DEF Open, Goto
    <2>2. EmbedDim \in Nat
        BY <2>1, SizeOfVectors DEF ProcessInv
    <2>3. dimensions' = EmbedDim /\ graph'.size = 0
        BY <2>1, <2>2, EmptySize DEF Construct
    <2>4. EmbedDim' = EmbedDim /\ ChunksOf(stored)' = ChunksOf(stored)
          /\ Keys(stored)' = Keys(stored)
        BY <2>1 DEF EmbedDim
    <2>5. ChunksOf(stored) \in Nat
        BY FS_CardinalityType DEF CountInv, ChunksOf, Keys
    <2> QED  BY <2>1, <2>3, <2>4, <2>5 DEF CountInv
<1>4. CASE LoadSidecar
    <2>1. /\ pc = "load" /\ pc' \in {"clear", "compare"}
          /\ UNCHANGED <<command, stored, dimensions, todo>>
        BY <1>4 DEF LoadSidecar, Goto, fileVars, Load, LoadThrows
    <2>2. EmbedDim' = EmbedDim /\ ChunksOf(stored)' = ChunksOf(stored)
          /\ Keys(stored)' = Keys(stored)
        BY <2>1 DEF EmbedDim
    <2> QED  BY <2>1, <2>2 DEF CountInv
<1>5. CASE CompareCounts
    <2>1. /\ pc = "compare" /\ UNCHANGED <<command, stored, todo>> /\ UNCHANGED denseVars
          /\ \/ graph.size = ChunksOf(stored) /\ pc' = "model"
             \/ pc' = "clear"
        BY <1>5 DEF CompareCounts, Goto, fileVars
    <2> QED  BY <2>1, CountsStay DEF denseVars
<1>6. CASE ClearIndex
    <2>1. /\ pc = "clear" /\ pc' = "rebuild" /\ Clear
          /\ UNCHANGED <<command, stored, todo>>
        BY <1>6 DEF ClearIndex, Goto, fileVars
    <2>2. graph'.size = 0 /\ dimensions' = dimensions
        BY <2>1, EmptySize DEF Clear, DenseInv
    <2>3. EmbedDim' = EmbedDim /\ ChunksOf(stored)' = ChunksOf(stored)
          /\ Keys(stored)' = Keys(stored)
        BY <2>1 DEF EmbedDim
    <2>4. ChunksOf(stored) \in Nat
        BY FS_CardinalityType DEF CountInv, ChunksOf, Keys
    <2> QED  BY <2>1, <2>2, <2>3, <2>4 DEF CountInv
<1>7. CASE AddVector
    <2>1. /\ pc \in {"index", "rebuild"} /\ pc' = pc /\ UNCHANGED <<command, stored>>
        BY <1>7 DEF AddVector, Goto, fileVars
    <2>2. CASE EnsureCapacity /\ UNCHANGED todo
        <3>1. graph'.size = graph.size /\ dimensions' = dimensions
            BY <2>2 DEF EnsureCapacity, Reserve, DenseInv, Graph
        <3> QED  BY <2>1, <2>2, <3>1, CountsStay
    <2>3. CASE Add /\ todo' = todo - 1
        <3>1. graph'.size = graph.size + 1 /\ graph.size \in Nat /\ dimensions' = dimensions
            BY <2>3 DEF Add, DenseInv, Graph
        <3>2. EmbedDim' = EmbedDim /\ ChunksOf(stored)' = ChunksOf(stored)
              /\ Keys(stored)' = Keys(stored)
            BY <2>1 DEF EmbedDim
        <3>3. todo \in Int /\ graph.size + todo = ChunksOf(stored)
            BY <2>1 DEF CountInv
        <3>4. todo' \in Int /\ graph'.size + todo' = ChunksOf(stored)
            BY <2>3, <3>1, <3>3
        <3> QED  BY <2>1, <3>1, <3>2, <3>4 DEF CountInv
    <2> QED  BY <1>7, <2>2, <2>3 DEF AddVector
<1>8. CASE Indexed
    <2>1. /\ pc \in {"index", "rebuild"} /\ pc' \in {"persist", "save"}
          /\ UNCHANGED <<command, stored, todo>> /\ UNCHANGED denseVars
          /\ object = "ready" /\ todo = 0
        BY <1>8 DEF Indexed, Goto, fileVars
    <2>2. graph.size = ChunksOf(stored)
        BY <2>1 DEF CountInv, DenseInv, Graph
    <2> QED  BY <2>1, <2>2, CountsStay DEF denseVars
<1>9. CASE AddDocuments
    <2>1. /\ pc = "insert" /\ pc' = "index" /\ ~Duplicate
          /\ stored' = stored \cup ToSet(documents) /\ todo' = ChunksOf(ToSet(documents))
          /\ UNCHANGED <<command, documents>> /\ UNCHANGED denseVars
        BY <1>9 DEF AddDocuments, Goto
    <2>2. stored \cap ToSet(documents) = {}
        BY <2>1 DEF Duplicate, ToSet
    <2>3. IsFiniteSet(Keys(ToSet(documents)))
        BY <2>1, FewKeys DEF FilesInv, DocumentsInv, ProcessInv
    <2> DEFINE A == stored
               B == ToSet(documents)
    <2>4. /\ IsFiniteSet(Keys(A \cup B))
          /\ ChunksOf(A) \in Nat /\ ChunksOf(B) \in Nat
          /\ ChunksOf(A \cup B) = ChunksOf(A) + ChunksOf(B)
        <3>1. IsFiniteSet(Keys(A)) /\ A \cap B = {} /\ IsFiniteSet(Keys(B))
            BY <2>2, <2>3 DEF CountInv
        <3> HIDE DEF A, B
        <3> QED  BY <3>1, CountsAdd
    <2>5. graph.size = ChunksOf(stored) /\ dimensions = EmbedDim
        BY <2>1 DEF CountInv
    <2>6. EmbedDim' = EmbedDim
        BY <2>1 DEF EmbedDim
    <2>7. Keys(stored)' = Keys(A \cup B) /\ ChunksOf(stored)' = ChunksOf(A \cup B)
        BY <2>1
    <2> HIDE DEF A
    <2>8. todo' = ChunksOf(B) /\ graph' = graph /\ dimensions' = dimensions
        BY <2>1 DEF denseVars
    <2> HIDE DEF B
    <2> QED  BY <2>1, <2>4, <2>5, <2>6, <2>7, <2>8 DEF CountInv, A
<1>10. CASE MakeEmbedder \/ Persist \/ ReadFile \/ AllRead \/ Chunked \/ EmbedOne \/ FileDone
    <2>1. /\ pc \in {"model", "persist", "read", "chunk", "embed"}
          /\ pc' \in {"model", "read", "embed", "chunk", "insert"}
          /\ UNCHANGED <<command, stored>> /\ UNCHANGED denseVars
        BY <1>10 DEF MakeEmbedder, Persist, ReadFile, AllRead, Chunked, EmbedOne, FileDone,
            Goto, fileVars
    <2>2. graph.size = ChunksOf(stored)
        BY <2>1 DEF CountInv
    <2> QED  BY <2>1, <2>2, CountsStay DEF denseVars
<1>11. CASE QueryEmbedded \/ SparseSearch
    <2>1. /\ pc \in {"embed", "search"} /\ pc' \in {"search", "answer"}
          /\ UNCHANGED <<command, stored, graph, dimensions>>
        BY <1>11 DEF QueryEmbedded, SparseSearch, Search, Searched, Goto, fileVars
    <2>2. graph.size = ChunksOf(stored)
        BY <2>1 DEF CountInv
    <2> QED  BY <2>1, <2>2, CountsStay
<1>12. CASE StartEncoding \/ EncodingStep \/ ChunkStep \/ DamageSidecar \/ UNCHANGED cmdVars
    <2>1. UNCHANGED <<pc, command, stored, todo>> /\ UNCHANGED denseVars
        BY <1>12 DEF StartEncoding, EncodingStep, ChunkStep, DamageSidecar, cmdVars,
            processVars, fileVars
    <2> QED  BY <2>1 DEF CountInv, denseVars, EmbedDim
<1>13. CASE ChunkTextReturns \/ CallChunkText
    <2>1. pc' \in {"shell", "library"} /\ UNCHANGED stored
        BY <1>13 DEF ChunkTextReturns, CallChunkText, fileVars
    <2> QED  BY <2>1 DEF CountInv
<1> QED
    BY <1>1, <1>2, <1>3, <1>4, <1>5, <1>6, <1>7, <1>8, <1>9, <1>10, <1>11, <1>12, <1>13
    DEF CommandNext, ProcessStep

\* The operand of MATCH is made of the command's text.
MatchInv == pc = "answer" => match = CString(BuildSafeFts5MatchQuery(command.text))

\* Only SparseSearch makes an operand of MATCH.
LEMMA StepsOfTheQuery ==
    ASSUME MatchInv, [CommandNext]_cmdVars
    PROVE  MatchInv'
<1> DEFINE Ends == RebuildFails \/ NoEmbedder \/ UnreadableFile \/ InsertFails \/ Save
                   \/ PrintResults \/ MatchRefused \/ Throws \/ Killed
<1>1. CASE Ends
    <2>1. pc' = "shell"
        BY <1>1 DEF RebuildFails, NoEmbedder, UnreadableFile, InsertFails, Save, PrintResults, MatchRefused,
            Throws, Killed, Fail, Exit
    <2> QED  BY <2>1 DEF MatchInv
<1>2. CASE SparseSearch
    BY <1>2 DEF SparseSearch, MatchInv
<1>3. CASE ChunkStep \/ StartEncoding \/ EncodingStep \/ EmbedOne \/ AddVector \/ DamageSidecar
           \/ UNCHANGED cmdVars
    <2>1. UNCHANGED <<pc, match, command>>
        BY <1>3 DEF ChunkStep, StartEncoding, EncodingStep, EmbedOne, AddVector, DamageSidecar,
            Goto, processVars, cmdVars
    <2> QED  BY <2>1 DEF MatchInv
<1>4. CASE \/ Open \/ LoadSidecar \/ CompareCounts \/ ClearIndex \/ Indexed \/ Persist
           \/ MakeEmbedder \/ ReadFile \/ AllRead \/ Chunked \/ FileDone \/ AddDocuments
           \/ QueryEmbedded \/ ChunkTextReturns \/ Launch \/ CallChunkText
    <2>1. pc' # "answer"
        BY <1>4 DEF Open, LoadSidecar, CompareCounts, ClearIndex, Indexed, Persist, MakeEmbedder,
            ReadFile, AllRead, Chunked, FileDone, AddDocuments, QueryEmbedded,
            ChunkTextReturns, Launch, CallChunkText, Goto
    <2> QED  BY <2>1 DEF MatchInv
<1> QED  BY <1>1, <1>2, <1>3, <1>4 DEF CommandNext, ProcessStep

CommandInv ==
    /\ DenseInv /\ ChunkInv /\ ProcessInv /\ EncodingInv /\ TextInv
    /\ LastInv /\ FilesInv /\ CountInv /\ MatchInv

\* The invariant of the commands, the parts together.
LEMMA CommandInvariant == CommandSpec => []CommandInv
<1>1. CommandInit => CommandInv
    <2> SUFFICES ASSUME CommandInit PROVE CommandInv
        OBVIOUS
    <2>1. DenseInv
        BY DEF CommandInit, DenseInit, NoIndex, DenseInv, Empty, Graph
    <2>2. ChunkInv
        BY DEF CommandInit, ChunkingInit, ChunkInv, WindowsCover
    <2>3. ProcessInv
        BY NothingIsSequence DEF CommandInit, ProcessInv, NoFile, SidecarFile
    <2>4. EncodingInv /\ TextInv
        BY DEF CommandInit, ChunkingInit, EncodingInit, EncodingInv, TextInv
    <2>5. LastInv /\ FilesInv
        BY DEF CommandInit, ChunkingInit, LastInv, FilesInv, NoCommand
    <2>6. CountInv
        <3>1. Keys({}) = {}
            BY DEF Keys
        <3> QED  BY <3>1, FS_EmptySet DEF CommandInit, CountInv
    <2>7. MatchInv
        BY DEF CommandInit, MatchInv
    <2> QED  BY <2>1, <2>2, <2>3, <2>4, <2>5, <2>6, <2>7 DEF CommandInv
<1>2. CommandInv /\ [CommandNext]_cmdVars => CommandInv'
    <2> SUFFICES ASSUME CommandInv, [CommandNext]_cmdVars PROVE CommandInv'
        OBVIOUS
    <2>1. DenseMoves /\ ChunkMoves /\ ProcessInv'
        BY StepsOfTheParts DEF CommandInv
    <2>2. DenseInv'
        BY <2>1, DenseOperations DEF CommandInv, ProcessInv
    <2>3. ChunkInv'
        BY <2>1, ChunkOperations DEF CommandInv
    <2>4. EncodingMoves /\ TextInv'
        BY <2>1, StepsOfTheTokenizer DEF CommandInv
    <2>5. EncodingInv'
        BY <2>4, EncodingOperations DEF CommandInv
    <2>6. LastInv'
        BY <2>1, <2>3, LastOperations DEF CommandInv
    <2>7. FilesInv'
        BY StepsOfTheFiles DEF CommandInv
    <2>8. CountInv'
        BY StepsOfTheCounts DEF CommandInv
    <2>9. MatchInv'
        BY StepsOfTheQuery DEF CommandInv
    <2> QED  BY <2>1, <2>2, <2>3, <2>4, <2>5, <2>6, <2>7, <2>8, <2>9 DEF CommandInv
<1> QED  BY <1>1, <1>2, PTL DEF CommandSpec

\* usearch is called only as it allows: an addition finds room, every search
\* slot has a context, and the graph is made for the engine's vectors, however
\* DenseIndex loaded, cleared or grew it and however many cores there are.
THEOREM UsearchCalledAsAllowed == CommandSpec => []UsearchPreconditions
<1>1. CommandInv => UsearchPreconditions
    BY DEF CommandInv, DenseInv, UsearchPreconditions, Provisioned, Full, Graph
<1> QED  BY <1>1, CommandInvariant, PTL

\* chunk_text leaves no token out, for every text, window and overlap, and
\* although its sums may wrap.
THEOREM ChunksCoverTheText == CommandSpec => []WindowsCover
<1>1. CommandInv => WindowsCover
    BY DEF CommandInv, ChunkInv
<1> QED  BY <1>1, CommandInvariant, PTL

\* What an ingest has stored, wherever it is.
LEMMA StoredSoFar ==
    ASSUME CommandInv, command.kind = "ingest",
           NEW all, all = before \cup {LessWhatFollowsNul(Expected(Files[n], EmbedDim)) : n \in DOMAIN Files}
    PROVE  /\ stored \in {before, all}
           /\ pc = "save" => stored = all
<1>1. pc \notin {"shell", "library"}
    BY DEF CommandInv, FilesInv, NoCommand
<1>2. /\ DocumentsInv
      /\ pc \in {"insert", "index", "save"} => Len(documents) = Len(Files)
      /\ stored = IF pc \in {"index", "save"} THEN before \cup ToSet(documents) ELSE before
    BY DEF CommandInv, FilesInv
<1>3. CASE pc \in {"index", "save"}
    <2>1. Files \in Seq(TextFile) /\ Len(Files) \in Nat
        BY <1>1, FolderFiles DEF CommandInv
    <2>2. DOMAIN Files = 1..Len(Files)
        BY <2>1
    <2>3. DOMAIN documents = 1..Len(documents)
        BY DEF CommandInv, ProcessInv, IsSequence
    <2>4. Len(documents) = Len(Files)
        BY <1>2, <1>3
    <2> DEFINE e(n) == LessWhatFollowsNul(Expected(Files[n], EmbedDim))
    <2>5. \A n \in DOMAIN Files : documents[n] = e(n)
        BY <1>2, <2>2, <2>4 DEF DocumentsInv
    <2> HIDE DEF e
    <2>6. ToSet(documents) = {e(n) : n \in DOMAIN Files}
        BY <2>2, <2>3, <2>4, <2>5 DEF ToSet
    <2> QED  BY <1>2, <1>3, <2>6 DEF e
<1> QED  BY <1>2, <1>3

\* An ingest stores all documents of its folder or none, wherever it ends or is
\* killed, and its success means all of them, with a sidecar that the next command
\* finds whole and complete: for every folder, text, window and overlap, and for
\* every state an earlier command has left.  Stored of a document are all of its
\* windows, each with its text in full unless that holds a NUL.
THEOREM IngestStoresAllOrNothing == CommandSpec => IngestAllOrNothing
<1> DEFINE All == before \cup {LessWhatFollowsNul(Expected(Files[n], EmbedDim)) : n \in DOMAIN Files}
           File == [state |-> "whole", dim |-> EmbedDim, size |-> ChunksOf(stored')]
           Ended == command.kind = "ingest" /\ pc' = "shell" =>
                /\ stored' \in {before, All}
                /\ code' = 0 => stored' = All /\ sidecar' = File
<1>1. CommandInv /\ [CommandNext]_cmdVars => Ended
    <2> SUFFICES ASSUME CommandInv, [CommandNext]_cmdVars,
                        command.kind = "ingest", pc' = "shell"
                 PROVE  /\ stored' \in {before, All}
                        /\ code' = 0 => stored' = All /\ sidecar' = File
        OBVIOUS
    <2>1. pc \notin {"shell", "library"}
        BY DEF CommandInv, FilesInv, NoCommand
    <2>2. stored \in {before, All} /\ (pc = "save" => stored = All)
        BY StoredSoFar
    <2> HIDE DEF All
    <2>3. CASE RebuildFails \/ NoEmbedder \/ UnreadableFile \/ InsertFails \/ Throws \/ Killed
        <3>1. stored' = stored /\ code' # 0
            BY <2>3 DEF RebuildFails, NoEmbedder, UnreadableFile, InsertFails, Throws, Killed,
                Fail, Exit, fileVars
        <3> QED  BY <2>2, <3>1
    <2>4. CASE Save
        <3>1. pc = "save" /\ stored' = stored /\ sidecar' = Saved
            BY <2>4 DEF Save
        <3>2. object = "ready" /\ dimensions = EmbedDim /\ graph.size = ChunksOf(stored)
            BY <3>1 DEF CommandInv, CountInv
        <3>3. graph.dim = dimensions
            BY <3>2 DEF CommandInv, DenseInv, Provisioned
        <3>4. sidecar' = File
            BY <3>1, <3>2, <3>3 DEF Saved
        <3> QED  BY <2>2, <3>1, <3>4
    <2>5. ~(PrintResults \/ MatchRefused)
        BY DEF PrintResults, MatchRefused, CommandInv, FilesInv
    <2>6. ~(Launch \/ CallChunkText \/ DamageSidecar \/ ChunkTextReturns \/ UNCHANGED cmdVars)
        BY <2>1 DEF Launch, CallChunkText, DamageSidecar, ChunkTextReturns, cmdVars, processVars
    <2>7. ~(ChunkStep \/ StartEncoding \/ EncodingStep \/ EmbedOne \/ AddVector)
        BY <2>1 DEF ChunkStep, StartEncoding, EncodingStep, EmbedOne, AddVector, Goto, processVars
    <2>8. ~(\/ Open \/ LoadSidecar \/ CompareCounts \/ ClearIndex \/ Indexed \/ Persist
            \/ MakeEmbedder \/ ReadFile \/ AllRead \/ Chunked \/ FileDone \/ AddDocuments
            \/ QueryEmbedded \/ SparseSearch)
        BY DEF Open, LoadSidecar, CompareCounts, ClearIndex, Indexed, Persist, MakeEmbedder,
            ReadFile, AllRead, Chunked, FileDone, AddDocuments, QueryEmbedded, SparseSearch, Goto
    <2> QED
        BY <2>3, <2>4, <2>5, <2>6, <2>7, <2>8 DEF CommandNext, ProcessStep
<1>2. CommandSpec => [][Ended]_cmdVars
    BY <1>1, CommandInvariant, PTL DEF CommandSpec
<1>3. Ended <=> (command.kind = "ingest" /\ pc' = "shell" =>
        LET all == before \cup {LessWhatFollowsNul(Expected(Files[n], EmbedDim)) : n \in DOMAIN Files}
        IN  /\ stored' \in {before, all}
            /\ code' = 0 =>
                /\ stored' = all
                /\ sidecar' = [state |-> "whole", dim |-> EmbedDim,
                               size |-> ChunksOf(stored')])
    OBVIOUS
<1> HIDE DEF Ended
<1> QED  BY <1>2, <1>3, PTL DEF IngestAllOrNothing

\* What lies between [CLS] and [SEP] is what the invariant says ids 2 to m are.
LEMMA BodyReads ==
    ASSUME EncodingInv, encoding = "done"
    PROVE  EncodingReadsTheText
<1>1. /\ AreWords(words)
      /\ ids \in Seq(Id) /\ ids[1] = Special("cls")
      /\ Len(ids) \in 2..MaxTokens /\ ids[Len(ids)] = Special("sep")
      /\ Reads(words, ids, Len(ids) - 1)
      /\ Len(ids) < MaxTokens => ReadsUpTo(words, ids, Len(ids) - 1, Len(words))
    BY DEF EncodingInv
<1> DEFINE m == Len(ids) - 1
           body == SubSeq(ids, 2, m)
<1>2. Len(ids) \in Nat /\ m \in Nat /\ m >= 1 /\ Len(words) \in Nat
      /\ DOMAIN words = 1..Len(words)
    BY <1>1 DEF AreWords, IsSequence
<1>3. body \in Seq(Id) /\ Len(body) = m - 1 /\ \A n \in 1..(m - 1) : body[n] = ids[n + 1]
    <2>1. \A i \in 2..m : i \in 1..Len(ids)
        BY <1>2
    <2>2. \A i \in 2..m : ids[i] \in Id
        BY <1>1, <2>1, ElementOfSeq
    <2> HIDE DEF m
    <2>3. 2 \in Int /\ m \in Int /\ (IF 2 <= m THEN m - 2 + 1 ELSE 0) = m - 1
          /\ m - 2 + 1 = m - 1
        BY <1>2
    <2>4. body \in Seq(Id) /\ Len(body) = m - 1
        BY <2>2, <2>3, SubSeqProperties
    <2>5. \A n \in 1..(m - 2 + 1) : body[n] = ids[2 + n - 1]
        BY <2>2, <2>3, SubSeqProperties
    <2>6. \A n \in 1..(m - 1) : 2 + n - 1 = n + 1
        OBVIOUS
    <2> QED  BY <2>3, <2>4, <2>5, <2>6
<1> HIDE DEF m, body
<1>4. DOMAIN body = 1..(m - 1)
    BY <1>3, LenProperties
<1>5. \A n \in 1..(m - 1) : n + 1 \in 2..m
    BY <1>2
<1>6. \A p : Stands(words, p) => GreedyPiece(p) \/ UnknownWord(p)
    BY DEF Stands, GreedyPiece, UnknownWord, Matches, Unknown
<1>7. Reads(words, ids, m)
    BY <1>1 DEF m
<1>8. ASSUME NEW n \in DOMAIN body PROVE GreedyPiece(body[n]) \/ UnknownWord(body[n])
    <2>1. Stands(words, ids[n + 1])
        BY <1>4, <1>5, <1>7 DEF Reads
    <2> QED  BY <1>3, <1>4, <1>6, <2>1
<1>9. body # <<>> => Begins(body[1])
    <2> SUFFICES ASSUME body # <<>> PROVE Begins(body[1])
        OBVIOUS
    <2>1. Len(body) # 0
        BY <1>3, EmptySeq
    <2>2. 1 \in 1..(m - 1) /\ m >= 2
        BY <1>2, <1>3, <2>1
    <2>3. body[1] = ids[2]
        BY <1>3, <2>2
    <2> QED  BY <1>7, <2>2, <2>3 DEF Reads, Begins
<1>10. ASSUME NEW n \in 1..(Len(body) - 1) PROVE Follows(body[n + 1], body[n])
    <2>1. n \in 1..(m - 1) /\ n + 1 \in 1..(m - 1) /\ n + 1 \in 2..(m - 1)
        BY <1>2, <1>3
    <2>2. body[n] = ids[n + 1] /\ body[n + 1] = ids[(n + 1) + 1]
        BY <1>3, <2>1
    <2>3. Adjoins(words, ids[(n + 1) + 1], ids[n + 1])
        BY <1>7, <2>1 DEF Reads
    <2> QED  BY <2>2, <2>3 DEF Adjoins, Follows
<1>11. ReadsOn(body)
    BY <1>8, <1>9, <1>10 DEF ReadsOn
<1>12. ASSUME Len(ids) < MaxTokens PROVE ReadsToTheEnd(body)
    <2>1. ReadsUpTo(words, ids, m, Len(words))
        BY <1>1, <1>12 DEF m
    <2>2. CASE body = <<>>
        <3>1. m = 1
            BY <1>2, <1>3, <2>2
        <3>2. Len(words) = 0
            BY <2>1, <3>1 DEF ReadsUpTo
        <3>3. words = <<>>
            BY <1>1, <3>2, EmptySeq DEF AreWords, IsSequence
        <3> QED  BY <2>2, <3>3 DEF ReadsToTheEnd
    <2>3. CASE body # <<>>
        <3>1. Len(body) # 0
            BY <1>3, <2>3, EmptySeq
        <3>2. m >= 2 /\ m - 1 \in 1..(m - 1) /\ (m - 1) + 1 = m
            BY <1>2, <1>3, <3>1
        <3>3. body[Len(body)] = ids[m]
            BY <1>3, <3>2
        <3>4. Len(words) # 0
            BY <2>1, <3>2 DEF ReadsUpTo
        <3> QED  BY <2>1, <2>3, <3>3, <3>4 DEF ReadsUpTo, ReadsToTheEnd
    <2> QED  BY <2>2, <2>3
<1>13. body = SubSeq(ids, 2, Len(ids) - 1)
    BY DEF body, m
<1> QED  BY <1>1, <1>11, <1>12, <1>13 DEF EncodingReadsTheText

\* Whatever the text, the vocabulary and the limits are, encode gives a model
\* [CLS], the text from its start in greedy pieces without a gap, and [SEP].
THEOREM EncodingCorrect == CommandSpec => []EncodingReadsTheText
<1>1. CommandInv => EncodingReadsTheText
    <2>1. CASE encoding = "done"
        BY <2>1, BodyReads DEF CommandInv
    <2>2. CASE encoding # "done"
        BY <2>2 DEF EncodingReadsTheText
    <2> QED  BY <2>1, <2>2
<1> QED  BY <1>1, CommandInvariant, PTL

\* FTS5 reads every query as any of its words, taken literally, unless one of them
\* holds a NUL: then it refuses the query.
THEOREM QueriesMeanTheirWords == CommandSpec => []QueryMeansItsWords
<1>1. CommandInv => QueryMeansItsWords
    <2> DEFINE text == command.text
               query == BuildSafeFts5MatchQuery(text)
    <2> SUFFICES ASSUME CommandInv, pc = "answer"
                 PROVE  IF \E n \in DOMAIN Words(text) : Nul \in ToSet(Words(text)[n])
                        THEN ~Accepted(match)
                        ELSE Accepted(match) /\ MeansAnyOf(match, Words(text))
        BY DEF QueryMeansItsWords
    <2>1. command.kind = "query"
        BY DEF CommandInv, FilesInv
    <2>2. command \in QueryCommand
        BY <2>1 DEF CommandInv, ProcessInv, IngestCommand, QueryCommand
    <2>3. text \in Query
        BY <2>2 DEF QueryCommand
    <2>4. text \in Seq(Char)
        BY <2>3, CommandAssumption
    <2>5. match = CString(query)
        BY DEF CommandInv, MatchInv
    <2> HIDE DEF text
    <2>6. CASE \E n \in DOMAIN Words(text) : Nul \in ToSet(Words(text)[n])
        BY <2>4, <2>5, <2>6, NulIsRefused
    <2>7. CASE \A n \in DOMAIN Words(text) : Nul \notin ToSet(Words(text)[n])
        <3> DEFINE Other == Char \ {Nul}
        <3>1. Words(text) \in Seq(Seq(Other))
            <4>1. Words(text) \in Seq(Seq(Char))
                BY <2>4, RunsAreParts DEF Words
            <4> DEFINE ws == Words(text)
            <4> HIDE DEF ws
            <4>2. ws \in Seq(Seq(Char)) /\ \A n \in DOMAIN ws : Nul \notin ToSet(ws[n])
                BY <2>7, <4>1 DEF ws
            <4>3. Len(ws) \in Nat /\ DOMAIN ws = 1..Len(ws)
                BY <4>2, LenProperties
            <4>4. ASSUME NEW n \in 1..Len(ws) PROVE ws[n] \in Seq(Other)
                <5>1. ws[n] \in Seq(Char) /\ Nul \notin ToSet(ws[n])
                    BY <4>2, <4>3, ElementOfSeq
                <5> DEFINE w == ws[n]
                <5> HIDE DEF w
                <5>2. w \in Seq(Char) /\ Nul \notin ToSet(w)
                    BY <5>1 DEF w
                <5>3. Len(w) \in Nat /\ DOMAIN w = 1..Len(w) /\ w = [i \in 1..Len(w) |-> w[i]]
                    BY <5>2, LenProperties
                <5>4. \A i \in 1..Len(w) : w[i] \in Other
                    BY <5>2, <5>3, ElementOfSeq DEF ToSet
                <5> HIDE DEF Other
                <5>5. w \in [1..Len(w) -> Other]
                    BY <5>3, <5>4
                <5>6. w \in Seq(Other)
                    BY <5>3, <5>5, SeqDef
                <5> QED  BY <5>6 DEF w
            <4> HIDE DEF Other
            <4>5. ws \in [1..Len(ws) -> Seq(Other)]
                BY <4>2, <4>3, <4>4
            <4>6. ws \in Seq(Seq(Other))
                BY <4>3, <4>5, SeqDef
            <4> QED  BY <4>6 DEF ws
        <3>2. Other \in Alphabets
            BY DEF Alphabets
        <3>3. query \in Seq(Other) /\ MeansAnyOf(query, Words(text))
            <4> HIDE DEF Other
            <4> QED  BY <3>1, <3>2, QueryIsRead
        <3>4. Accepted(query)
            BY <2>4, QueryIsAccepted
        <3> HIDE DEF query
        <3>5. match = query
            BY <2>5, <3>3, NothingCut
        <3> QED  BY <2>7, <3>3, <3>4, <3>5
    <2> QED  BY <2>6, <2>7
<1> QED  BY <1>1, CommandInvariant, PTL
=============================================================================
