---------------------------- MODULE CommandLine ----------------------------
(***************************************************************************)
(* The commands ingest and query, one process after another on one index.  *)
(*                                                                         *)
(* A command opens an engine on the database of the directory, reads and   *)
(* chunks files, embeds each chunk, stores all documents in one call, or   *)
(* answers a query; it may be killed anywhere.  The composition is of      *)
(* chunk_text, the tokenizer, the query builder and the dense index; what  *)
(* add_documents does to the tables is the one step DocumentStore promises.*)
(***************************************************************************)
EXTENDS Chunking, WordPiece, Fts5Query, DenseIndex

CONSTANTS
    Folder,        \* arguments of ingest
    FilesIn,       \* the .txt files of every folder, sorted: [name, readable, text]
    Query,         \* texts of queries: of the command, or of a program that makes
                   \* the same calls; an argument of a process holds no NUL, a string may
    Model,         \* model files: [format, dim, vocab]
    ModelDim,      \* values of --model-dim
    WithOnnx,      \* RETRIEVAL_ENGINE_WITH_ONNX
    DefaultDim,    \* _DEFAULT_DIM
    ChunkWindow,   \* _CHUNK_WINDOW_TOKENS
    ChunkOverlap,  \* _CHUNK_OVERLAP_TOKENS
    Sizes          \* bound: windows and overlaps of a direct call of chunk_text

TextFile == [name : STRING, readable : BOOLEAN, text : Seq(Char)]

ASSUME CommandAssumption ==
    /\ FilesIn \in [Folder -> Seq(TextFile)]
    /\ \A f \in Folder : \A n \in DOMAIN FilesIn[f] :
        2 * Len(FilesIn[f][n].text) <= SizeMod
    /\ \A t \in Query : t \in Seq(Char)
    /\ \A m \in Model : m.dim \in Nat
    /\ ModelDim \subseteq Nat \ {0}
    /\ WithOnnx \in BOOLEAN
    /\ DefaultDim \in Nat \ {0}
    /\ ChunkWindow \in 1..(SizeMod - 1) /\ ChunkOverlap \in 0..(ChunkWindow - 1)
    /\ Sizes \subseteq 0..(SizeMod - 1)

VARIABLES
    pc,          \* where the process is; "shell" between two commands
    command,     \* the command that runs
    documents,   \* documents built from the files read so far
    todo,        \* vectors to be added, or chunks to be embedded
    match,       \* the operand of MATCH
    database,    \* whether the file exists
    stored,      \* documents committed: [id, dim, chunks]
    sidecar,     \* the file beside it
    code,        \* how the last command ended: 0, 1, or killed (2)
    before       \* history: what was stored when the command began

processVars == <<pc, command, documents, todo, match, code, before>>
fileVars == <<database, stored, sidecar>>
cmdVars == <<chunkingVars, encodingVars, denseVars, processVars, fileVars>>

NoModel == [format |-> "none", dim |-> 0, vocab |-> FALSE]

IngestCommand == [kind : {"ingest"}, folder : Folder,
                  model : Model \cup {NoModel}, model_dim : ModelDim \cup {0}]
QueryCommand == [kind : {"query"}, text : Query, top_k : {0, 1},
                 model : Model \cup {NoModel}, model_dim : ModelDim \cup {0}]
NoCommand == [kind |-> "none"]

CommandInit ==
    /\ ChunkingInit /\ EncodingInit /\ DenseInit
    /\ pc = "shell" /\ command = NoCommand
    /\ documents = <<>> /\ todo = 0 /\ match = <<>>
    /\ database = FALSE /\ stored = {} /\ sidecar = NoFile
    /\ code = 0 /\ before = {}

-----------------------------------------------------------------------------
\* The end of a process, with all it had in memory.
Exit(c) ==
    /\ pc' = "shell" /\ command' = NoCommand
    /\ documents' = <<>> /\ todo' = 0 /\ match' = <<>> /\ before' = {}
    /\ code' = c
    /\ ForgetChunks /\ ForgetIds /\ Gone

Fail == Exit(1) /\ UNCHANGED fileVars

Goto(p) == pc' = p /\ UNCHANGED <<command, match, code, before>>

\* How many chunks the documents have.
ChunksOf(docs) == Cardinality(UNION { {d} \X DOMAIN d.chunks : d \in docs })

Files == FilesIn[command.folder]

Refuses(c) ==
    \/ c.model # NoModel /\ c.model_dim = 0
    \/ c.kind = "ingest" /\ FilesIn[c.folder] = <<>>
    \/ c.kind = "query" /\ (c.top_k = 0 \/ ~database)

EmbedDim == IF command.model = NoModel THEN DefaultDim ELSE command.model_dim

Launch ==
    /\ pc = "shell"
    /\ \E c \in IngestCommand \cup QueryCommand :
        IF Refuses(c)
        THEN code' = 1 /\ UNCHANGED <<pc, command, before>>
        ELSE /\ pc' = "open" /\ command' = c
             /\ before' = stored /\ code' = 0
    /\ UNCHANGED <<chunkingVars, encodingVars, denseVars, documents, todo, match, fileVars>>

-----------------------------------------------------------------------------
\* The constructor of the engine: SQLite creates the file, then the sidecar is
\* loaded or the index rebuilt.
Open ==
    /\ pc = "open"
    /\ Construct(EmbedDim)
    /\ database' = TRUE
    /\ Goto(IF sidecar.state = "absent" THEN "rebuild" ELSE "load")
    /\ todo' = ChunksOf(stored)
    /\ UNCHANGED <<chunkingVars, encodingVars, documents, stored, sidecar>>

LoadSidecar ==
    /\ pc = "load"
    /\ \/ LoadThrows(sidecar) /\ Goto("clear")
       \/ Load(sidecar) /\ Goto("compare")
    /\ UNCHANGED <<chunkingVars, encodingVars, documents, todo, fileVars>>

\* chunk_count is a query: it may throw, within the try.
CompareCounts ==
    /\ pc = "compare"
    /\ \/ graph.size = ChunksOf(stored) /\ Goto("model")
       \/ Goto("clear")
    /\ UNCHANGED <<chunkingVars, encodingVars, denseVars, documents, todo, fileVars>>

ClearIndex ==
    /\ pc = "clear"
    /\ Clear
    /\ Goto("rebuild")
    /\ UNCHANGED <<chunkingVars, encodingVars, documents, todo, fileVars>>

\* ForEachChunk throws at an embedding of another size.
Mismatched == \E d \in stored : d.chunks # <<>> /\ d.dim # dimensions

RebuildFails == pc = "rebuild" /\ Mismatched /\ Fail

\* Add for one vector, of the rebuild or of a new document.
AddVector ==
    /\ pc = "index" \/ (pc = "rebuild" /\ ~Mismatched)
    /\ \/ todo > 0 /\ EnsureCapacity /\ UNCHANGED todo
       \/ Add /\ todo' = todo - 1
    /\ UNCHANGED <<chunkingVars, encodingVars, documents, fileVars>>
    /\ Goto(pc)

Indexed ==
    /\ pc \in {"rebuild", "index"}
    /\ object = "ready" /\ todo = 0
    /\ Goto(IF pc = "rebuild" THEN "persist" ELSE "save")
    /\ UNCHANGED <<chunkingVars, encodingVars, denseVars, documents, todo, fileVars>>

Persist ==
    /\ pc = "persist"
    /\ sidecar' = Saved
    /\ Goto("model")
    /\ UNCHANGED <<chunkingVars, encodingVars, denseVars, documents, todo, database, stored>>

\* LoadTextEmbedder: an ONNX model needs the backend, a vocabulary and the
\* engine's size; a mock model the size; nothing else is recognised.
Loads(m, d) ==
    /\ m.dim = d
    /\ \/ m.format = "onnx" /\ WithOnnx /\ m.vocab
       \/ m.format = "mock"

MakeEmbedder ==
    /\ pc = "model"
    /\ command.model = NoModel \/ Loads(command.model, dimensions)
    /\ Goto(IF command.kind = "ingest" THEN "read" ELSE "embed")
    /\ todo' = IF command.kind = "ingest" THEN 0 ELSE 1
    /\ UNCHANGED <<chunkingVars, encodingVars, denseVars, documents, fileVars>>

NoEmbedder ==
    /\ pc = "model"
    /\ command.model # NoModel /\ ~Loads(command.model, dimensions)
    /\ Fail

-----------------------------------------------------------------------------
\* The loop over the files of ingest.
ReadFile ==
    /\ pc = "read"
    /\ Len(documents) < Len(Files)
    /\ LET file == Files[Len(documents) + 1]
       IN  /\ file.readable
           /\ ChunkText(file.text, ChunkWindow, ChunkOverlap)
    /\ Goto("chunk")
    /\ UNCHANGED <<encodingVars, denseVars, documents, todo, fileVars>>

UnreadableFile ==
    /\ pc = "read"
    /\ Len(documents) < Len(Files)
    /\ ~Files[Len(documents) + 1].readable
    /\ Fail

AllRead ==
    /\ pc = "read"
    /\ Len(documents) = Len(Files)
    /\ Goto("insert")
    /\ UNCHANGED <<chunkingVars, encodingVars, denseVars, documents, todo, fileVars>>

ChunkStep ==
    /\ EmitWindow
    /\ UNCHANGED <<encodingVars, denseVars, processVars, fileVars>>

Chunked ==
    /\ pc = "chunk"
    /\ chunking = "done"
    /\ Goto("embed")
    /\ todo' = Len(chunks)
    /\ UNCHANGED <<chunkingVars, encodingVars, denseVars, documents, fileVars>>

TextOf(n) == Joined(ChunkWords(n))

ToEmbed == IF command.kind = "ingest" THEN TextOf(Len(chunks) - todo + 1)
           ELSE command.text

\* An ONNX model tokenizes the text; the others hash it.
StartEncoding ==
    /\ pc = "embed" /\ todo > 0
    /\ command.model.format = "onnx"
    /\ Encode(ToEmbed)
    /\ UNCHANGED <<chunkingVars, denseVars, processVars, fileVars>>

EncodingStep ==
    /\ EncodeStep
    /\ UNCHANGED <<chunkingVars, denseVars, processVars, fileVars>>

EmbedOne ==
    /\ pc = "embed" /\ todo > 0
    /\ IF command.model.format = "onnx" THEN EncodingOver
       ELSE UNCHANGED encodingVars
    /\ todo' = todo - 1
    /\ Goto(pc)
    /\ UNCHANGED <<chunkingVars, denseVars, documents, fileVars>>

\* What sqlite3_bind_text stores of a chunk: up to its first NUL.
NewDocument ==
    [id |-> Files[Len(documents) + 1].name,
     dim |-> EmbedDim,
     chunks |-> [n \in DOMAIN chunks |->
        [text |-> CString(TextOf(n)),
         start_token |-> chunks[n].start_token, end_token |-> chunks[n].end_token]]]

\* Mutant: a document is stored as soon as its file is read.
FileDoneStored ==
    /\ pc = "embed" /\ todo = 0
    /\ command.kind = "ingest"
    /\ documents' = Append(documents, NewDocument)
    /\ stored' = stored \cup {NewDocument}
    /\ ChunkingOver
    /\ Goto("read")
    /\ UNCHANGED <<encodingVars, denseVars, todo, database, sidecar>>

FileDone ==
    /\ pc = "embed" /\ todo = 0
    /\ command.kind = "ingest"
    /\ documents' = Append(documents, NewDocument)
    /\ ChunkingOver
    /\ Goto("read")
    /\ UNCHANGED <<encodingVars, denseVars, todo, fileVars>>

\* The transaction of add_documents: document ids are keys.
Duplicate == \E n \in DOMAIN documents, d \in stored : documents[n].id = d.id

InsertFails == pc = "insert" /\ Duplicate /\ Fail

AddDocuments ==
    /\ pc = "insert"
    /\ ~Duplicate
    /\ stored' = stored \cup ToSet(documents)
    /\ todo' = ChunksOf(ToSet(documents))
    /\ Goto("index")
    /\ UNCHANGED <<chunkingVars, encodingVars, denseVars, documents, database, sidecar>>

Save ==
    /\ pc = "save"
    /\ sidecar' = Saved
    /\ Exit(0)
    /\ UNCHANGED <<database, stored>>

-----------------------------------------------------------------------------
\* search_memory and search_memory_explained.
QueryEmbedded ==
    /\ pc = "embed" /\ todo = 0
    /\ command.kind = "query"
    /\ Search
    /\ Goto("search")
    /\ UNCHANGED <<chunkingVars, encodingVars, documents, todo, fileVars>>

SparseSearch ==
    /\ pc = "search"
    /\ Searched
    /\ match' = CString(BuildSafeFts5MatchQuery(command.text))
    /\ pc' = "answer"
    /\ UNCHANGED <<chunkingVars, encodingVars, command, documents, todo, code, before, fileVars>>

PrintResults == pc = "answer" /\ Accepted(match) /\ Exit(0) /\ UNCHANGED fileVars

MatchRefused == pc = "answer" /\ ~Accepted(match) /\ Fail

\* SQLite, usearch, the file system or ONNX Runtime fail: every exception ends
\* the command with 1.
Throws ==
    /\ pc \in {"open", "rebuild", "persist", "embed", "insert", "index", "save", "search", "answer"}
    /\ Fail

Killed == pc \notin {"shell", "library"} /\ Exit(2) /\ UNCHANGED fileVars

-----------------------------------------------------------------------------
\* chunk_text is public: a caller passes whatever window and overlap.
CallChunkText ==
    /\ pc = "shell"
    /\ \E f \in Folder, w, o \in Sizes : \E n \in DOMAIN FilesIn[f] :
        ChunkText(FilesIn[f][n].text, w, o) \/ ChunkTextRefuses(w, o)
    /\ pc' = "library"
    /\ UNCHANGED <<command, documents, todo, match, code, before, encodingVars, denseVars, fileVars>>

ChunkTextReturns ==
    /\ pc = "library"
    /\ ChunkingOver
    /\ pc' = "shell"
    /\ UNCHANGED <<command, documents, todo, match, code, before, encodingVars, denseVars, fileVars>>

\* Between two commands the sidecar may be deleted, cut short or garbled.
DamageSidecar ==
    /\ pc = "shell"
    /\ sidecar.state = "whole"
    /\ sidecar' \in {NoFile, [sidecar EXCEPT !.state = "short"], [sidecar EXCEPT !.state = "torn"]}
    /\ UNCHANGED <<chunkingVars, encodingVars, denseVars, processVars, database, stored>>

ProcessStep ==
    \/ Open \/ LoadSidecar \/ CompareCounts \/ ClearIndex
    \/ RebuildFails \/ AddVector \/ Indexed \/ Persist
    \/ MakeEmbedder \/ NoEmbedder
    \/ ReadFile \/ UnreadableFile \/ AllRead \/ ChunkStep \/ Chunked
    \/ StartEncoding \/ EncodingStep \/ EmbedOne \/ FileDone
    \/ InsertFails \/ AddDocuments \/ Save
    \/ QueryEmbedded \/ SparseSearch \/ PrintResults \/ MatchRefused
    \/ ChunkTextReturns

CommandNext ==
    ProcessStep \/ Throws \/ Killed \/ Launch \/ CallChunkText \/ DamageSidecar

\* A process keeps running; nothing has to fail, and nobody has to start one
\* or kill it.
CommandSpec == CommandInit /\ [][CommandNext]_cmdVars /\ WF_cmdVars(ProcessStep)

-----------------------------------------------------------------------------
\* What ingest is to make of a file: all of its words, in windows of ChunkWindow,
\* each beginning ChunkOverlap before the end of the last.
Expected(file, d) ==
    LET all == Words(file.text)
        step == ChunkWindow - ChunkOverlap
        count == IF all = <<>> THEN 0
                 ELSE IF Len(all) <= ChunkWindow THEN 1
                 ELSE 1 + ((Len(all) - ChunkWindow + step - 1) \div step)
        last(n) == IF n = count THEN Len(all) ELSE (n - 1) * step + ChunkWindow
    IN  [id |-> file.name, dim |-> d,
         chunks |-> [n \in 1..count |->
            [text |-> Joined(SubSeq(all, (n - 1) * step + 1, last(n))),
             start_token |-> (n - 1) * step, end_token |-> last(n)]]]

\* The same document after the texts of its chunks went through a C string: one
\* that holds a NUL has lost the NUL and every word and letter after it.
LessWhatFollowsNul(document) ==
    [document EXCEPT !.chunks =
        [n \in DOMAIN document.chunks |->
            [document.chunks[n] EXCEPT !.text = CString(document.chunks[n].text)]]]

\* However an ingest ends - with success, an unreadable file, a key that is
\* taken, a failure after the commit, or killed (cli.py:135-165) - it has stored
\* every document of the folder or none: all of its windows, with their offsets,
\* and the text of each in full if that holds no NUL.  Of a text that does only
\* what precedes the NUL is stored (chunk_repository.cpp:129): that much is lost.
\* Success means all of the documents, with a sidecar the next command can trust.
IngestAllOrNothing ==
    [][command.kind = "ingest" /\ pc' = "shell" =>
        LET all == before \cup
                {LessWhatFollowsNul(Expected(Files[n], EmbedDim)) : n \in DOMAIN Files}
        IN  /\ stored' \in {before, all}
            /\ code' = 0 =>
                /\ stored' = all
                /\ sidecar' = [state |-> "whole", dim |-> EmbedDim,
                               size |-> ChunksOf(stored')]]_cmdVars

\* FTS5 reads what the engine passes to MATCH as the words of the query, each
\* as a literal phrase, OR between them and nothing else, whatever operators,
\* punctuation or quotes were typed, balanced or not (fts5_query.hpp:12-26; the
\* public header, retrieval_engine.hpp:160-162, says of unbalanced quotes that they
\* make the search throw).  Where a word holds a NUL the operand is cut inside the
\* phrase: FTS5 refuses it, and never takes it for another query.
QueryMeansItsWords ==
    pc = "answer" =>
        LET asked == Words(command.text)
        IN  IF \E n \in DOMAIN asked : Nul \in ToSet(asked[n]) THEN ~Accepted(match)
            ELSE Accepted(match) /\ MeansAnyOf(match, asked)

\* Every command ends, whatever its files hold and wherever it fails.
CommandsEnd == pc # "shell" ~> pc = "shell"
=============================================================================
