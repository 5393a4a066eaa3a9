# A TLA+ model of sqlite-hybrid-search

This directory holds TLA+ specifications of the engine in `src/core`, TLC
configurations that check them on small instances, and TLAPS proofs that hold
for every value of the constants. Each definition that models code is listed
with its lines in `PROJECT.json`.

    tlc -config SharedFile.cfg MCChunkStore.tla      # one run
    tlc -config CommandLine.cfg MCCommandLine.tla
    tlapm ChunkStoreProofs.tla                       # one module of proofs

## 1. The system

An engine is a C++ object over one SQLite database. SQLite holds documents,
chunks (with their embeddings) and an FTS5 index of the chunk texts. A usearch
HNSW graph in memory answers nearest-neighbour queries, and is saved after every
ingest to a file next to the database, the *sidecar* `<db>.usearch`. SQLite is
authoritative; the graph can always be rebuilt from it (ADR-2, ADR-10). One
engine may be shared by threads under a read/write lock (ADR-11), and several
engines, in one process or in many, may be open on one database file.

| Part | State | Operations | Talks to |
|---|---|---|---|
| `ChunkStore` (`chunk_store.cpp`) | `loaded_index_from_sidecar_` | constructor (load or rebuild), `add_documents`, searches | repository, dense index, read pool |
| `ChunkRepository` (`chunk_repository.cpp`) | tables `documents`, `chunks`, `chunks_fts`; one open transaction | schema, `add_documents`, `ForEachChunk`, `Resolve`, `SearchSparse`, `GetCreatedAt`, `chunk_count` | SQLite |
| `DenseIndex` (`dense_index.cpp`) | the usearch graph, its files, its search slots | `Add`, `Search`, `Save`, `Load`, `Clear` | file system, `BlockingPool` |
| `BlockingPool` (`blocking_pool.hpp`) | free resources, mutex, condition variable | `Acquire`, `Release` by handle | threads |
| `ReadConnectionPool` | read-only connections, or none | `Acquire` | `BlockingPool`, the writer's connection as fallback |
| `RetrievalEngine` (`retrieval_engine.cpp`) | `rw_mutex`, the embedder pointer | every public method | `ChunkStore`, embedders |
| Ranking (`rrf_fusion.cpp`, `recency_decay.cpp`) | none | `RrfFuse`, `ComputeRecencyFactor`, `FuseRankAndDecay` | |
| Text (`chunking.cpp`, `fts5_query.cpp`, `wordpiece_tokenizer.cpp`) | vocabulary | `chunk_text`, `BuildSafeFts5MatchQuery`, `encode` | |
| Models (`embedding_model_loader.cpp`, embedders) | weights | `LoadTextEmbedder`, `embed` | |
| Python package and CLI | a database path | wrappers, resumable ingest | the engine |

### What is hard

* **Two stores, one commit.** Rows and vectors are written one after the other.
  A rowid that was rolled back is used again for another row, by this engine or
  another one, so a vector indexed too early resolves to a foreign row.
* **Crashes and stale files.** A process may die between any two steps. The next
  constructor only compares two counts to decide whether the sidecar is current.
* **Several engines on one file.** They share the tables, the sidecar and the
  temporary name the sidecar is written under, and no checksum tells a file of
  two writers from one of one.
* **Partial failure.** Inserts, COMMIT, additions to the index, saving and
  renaming fail one by one, each with its own clean-up.
* **Loss of power.** SQLite runs with `synchronous = NORMAL` and the sidecar is
  renamed without a sync: the two may reach the disk in either order.
* **Threads.** A condition variable that is notified after the unlock, a
  shared mutex over two pools, and a model that is exchanged while others embed.
* **A graph with demands.** usearch reads out of bounds if it is not given room,
  contexts and vectors of its size, and loading or resetting it takes them away.
* **Limits and boundaries.** Sums of sizes that wrap, a last window that is
  short, a limit on tokens that falls inside a word, a quote inside a query, a
  NUL inside a text.

### What makes each part correct

* Write path: a call stores all of its documents or none; no index or file holds
  a vector without its committed row; a trusted sidecar is complete, unless two
  engines wrote it at once; a caller finds what it has stored; no call leaves a transaction open or waits for ever.
* Pools: every resource is in one place; no wakeup is lost; `Acquire` returns.
* Shared engine: every call takes effect at one moment; ingests exclude
  searches; an embedder outlives its use; nothing leaks; calls end.
* Ranking: the order is total and the same every time; the best are kept; the
  decay never inflates a score and reorders only in favour of fresher results.
* Dense index: whatever was loaded, cleared or grown before, usearch is called
  within its preconditions.
* Text: the windows leave no token out; the ids read the text from its start
  with nothing skipped; any string without a NUL makes a query that means its words.
* Commands: an ingest that ends in any way has stored its folder or nothing;
  every command ends.

## 2. Modules

| Module | What it is |
|---|---|
| `DocumentStore` | what `add_documents` promises: a map of documents, changed by whole calls |
| `ChunkStore` | the write path in detail: constructor, transaction, indexing, saving, crashes |
| `MCChunkStore` | symmetry, and the refinement mapping to `DocumentStore` |
| `ChunkStoreProofs` | proofs about `ChunkStore`: tables, indexes and files stay in step |
| `ChunkStoreCallerProofs` | what its callers rely on, and that it implements `DocumentStore` |
| `PowerLoss`, `MCPowerLoss` | `ChunkStore` over a disk that is written back later |
| `ResourcePool` | what a pool promises: a resource is taken by one user at a time |
| `BlockingPool` | mutex, vector and condition variable of the pool, step by step |
| `MCBlockingPool`, `BlockingPoolProofs` | its refinement of `ResourcePool`, checked and proved |
| `Operations` | the public methods, and what their answers are made of |
| `AtomicEngine` | what one shared engine promises: each call takes effect at one moment |
| `RetrievalEngine` | lock, pools, embedder and calls of a shared engine |
| `MCRetrievalEngine` | its instance, and the refinement mapping to `AtomicEngine` |
| `RetrievalEngineProofs` | proofs about locks, pools and the embedder |
| `AtomicEngineProofs` | that `RetrievalEngine` implements `AtomicEngine` |
| `Ranking` | fusion of two rankings, recency factor, re-ranking by decayed score |
| `MCRanking`, `RankingProofs` | its instance, and proofs |
| `Text` | characters, words, and the scan for whitespace that three parts share |
| `Chunking` | `chunk_text`, one step per window |
| `WordPiece` | `encode`, one step per word and per piece |
| `Fts5Query` | `BuildSafeFts5MatchQuery`, and how FTS5 reads what it builds |
| `DenseIndex` | capacity, contexts and dimensionality of the usearch graph |
| `CommandLine` | the commands `ingest` and `query` as processes, one after another |
| `MCCommandLine` | its instance |
| `TextProofs` | proofs about the windows, the tokenizer and the query that FTS5 reads |
| `CommandLineProofs` | proofs about what the commands make of them, and about the index |

`RetrievalEngine` composes two instances of `ResourcePool` (connections, search
slots); that `BlockingPool` implements `ResourcePool` is what entitles it to. It
abstracts an ingest to the steps *insert, commit, index, save*, whose inside is
`ChunkStore`. `CommandLine` composes `Chunking`, `WordPiece`, `Fts5Query` and
`DenseIndex`, by EXTENDS and with their actions as conjuncts of its own; it takes
the transaction of `add_documents` as the one step that `DocumentStore` promises
and `ChunkStore` implements.

### ChunkStore

An *instance* is one `RetrievalEngine` object. `rw_mutex` admits one mutating
call at a time, so an instance is a sequential process, and `pc` is the place in
the code it has reached:

    closed -> load -> compare -> idle                     constructor, fast path
              load/compare -> scan -> index -> write -> rename -> idle   rebuild
    idle -> begin -> document -> chunk <-> fts -> ... -> index -> write -> rename -> idle

`db` is what SQLite has committed, `work` what the holder of SQLite's write lock
sees; `lock` names that holder. BEGIN is deferred, so the lock is taken by the
first INSERT. `index[i]` is the graph as a set of entries, an entry being a rowid
with the row it was made from: this is what lets a property say that a rowid
still means the same row. `sidecar` and `temp` are the two files; a file knows
who has it open for writing, since a rename moves the file together with the
open handles. `pending` is the vector list that `ChunkRepository::add_documents`
returns, or the scan of `ForEachChunk`. Two variables are history: `owed`, the rows a
caller may expect to find, and `garbled`, the instances whose index goes back to a
mixed file.

A file is *whole* if it is the graph of one writer, and *mixed* if two instances
had it open at once, or if it was saved from an index loaded from such a file.
What two simultaneous writers leave is nondeterministic (`Written`): the graph of
one of them as it should be; the header and keys of one around vectors of any of
them, slot by slot (`Mixes`); or something usearch cannot read. `Loadable` asks what
`DenseIndex::Load` asks: a header and a graph that usearch can read, of the right
dimensionality. No checksum exists, so a mixed file may be loaded, counted and
trusted like any other. The properties that such a file breaks (`IndexBackedByRows`,
`SavedBackedByRows`, `ReadYourWrites`, `NoDuplicateKey`, `TrustedSidecarIsComplete`)
except it by name, and finding 1 is what it does.

Data is abstracted to what the properties tell apart: a chunk is its document, its
position and the *size* of its embedding. Ids are rowids; the tables never
delete, so the n-th row has id n. SQLite's snapshot isolation makes `ForEachChunk`
and `COUNT(*)` one step each. Every SQLite or file operation may fail where the
code checks its result. `Stop` is the destructor and the death of the process at
any point alike: SQLite drops the open transaction, the files stay as they are.

Abstractions to know: a file cut short is taken as unreadable by
`DenseIndex::Load`, since usearch reads a length it cannot find; of the mixtures of two
writers only those described above are readable, though bytes may interleave
anywhere, so the model shows fewer wrong graphs than there are, never more; a batch
with a wrong embedding size throws before it changes anything and is left out (it
would be a stutter). `CommitBusy` lets SQLite answer
COMMIT with BUSY and keep the transaction. SQLite documents that for rollback
journals; the code asks for WAL at `sqlite_util.cpp:41` and does not look at
which mode it got, so a file system without shared memory leaves it there.

### PowerLoss

`ChunkStore` keeps what the processes see, which is the operating system's cache.
`disk` is what a loss of power would leave. `WriteBackTables` and
`WriteBackSidecar` copy a part of the cache to it, at any time and independently
of each other, because `PRAGMA synchronous = NORMAL` (`sqlite_util.cpp:42`) does not
sync the log at COMMIT and `Save` does not sync the file or its directory.
`PowerFails` ends all processes and puts the disk in the place of the cache. A
file is written back whole or not at all; a file written back in part would be
torn, and is rebuilt.

### BlockingPool

One thread per caller: `idle -> lock -> check -> holding -> release -> push ->
notify -> idle`, with `waiting` and `relock` inside `wait()`. `Wait` gives up the
mutex and sleeps in one step, as a condition variable does. `SpuriousWakeup` is
the freedom the C++ standard gives `wait`. `Notify` comes after the mutex has
been given back, as in the code, and may find nobody.

### RetrievalEngine

A thread is idle or inside one public method. Reads take the lock in shared mode,
then (as needed) the embedder, a connection, and a slot; writes take it in
exclusive mode. `load_embedding_model` builds the model first and locks only to
exchange the pointer. The two parts of a hybrid search run in either order,
because C++ leaves the order of `RrfFuse`'s arguments open (`chunk_store.cpp:140`).
Handles and locks are RAII objects, so returning and throwing leave by the same
steps, `LeaveSlot`, `LeaveConnection`, `Unlock`. An answer is the state each part
of it was computed from: rows, vectors, model. `path` says whether the database
is a file or in memory; `Visible` is the difference between a pooled connection
and the writer's own, which readers use on `:memory:` and would show them an open
transaction. `search_explained` and
`search_memory_explained` take the same steps as the methods they explain. An
ingest adds one row, whatever the batch: an index that has part of a batch, which an
`Add` that fails in the middle leaves, is `ChunkStore`'s matter.

`AtomicEngine` lets an ingest that throws have stored its rows, with or without
indexing them: `chunk_store.cpp:94-96` accepts that the index lags. Every other
call that throws has changed nothing.

### Ranking

One search in two steps: `Fuse` is `RrfFuse` on the hits of both rankings, and
what `search_hybrid` returns; `Decay` is the rest of `FuseRankAndDecay`, and what
`search_memory` returns. The inputs are chosen by `Init`: any two rankings, of any
length, since the index may lag behind the tables and the words match what they
match. A reciprocal rank is an integer in units of 1/1000000 and the factor one
in hundredths, whose product is exact: the rounding of floats, which may turn two
close scores into a tie, is left out, and the properties are worded so that a tie
does no harm. `lambda` is any double a caller passes, since nothing validates it: an
integer, an infinity or NaN. `std::exp` is a constant function, nondecreasing and one
at zero; values above `MaxFinite` are the ones that are not finite. For a lambda that
is not finite `Decayed` follows the arithmetic of doubles: an infinite lambda times
an age of zero is not a number, and exp of minus infinity is zero. The age wraps around
`Span`, as a two's complement subtraction does; C++ leaves that overflow
undefined, and wrapping is what compilers emit for it. `Sorted` allows every
order `std::sort` might leave among elements its comparison does not tell apart;
`StrictlyRanked` says that there are none.

### Text, Chunking, WordPiece, Fts5Query

A character is a code point, or a byte that is not well-formed UTF-8; of it only
the answers the code asks for are kept: does it separate words, does it stand
alone, what is its lower case, how many bytes has it. A word is a maximal run
between borders, which is what the three scanning loops compute.

`Chunking` has one step per window, and adds sizes modulo `SizeMod`, since `window`
and `overlap` are whatever a caller of the public `chunk_text` passes.
`WordPiece` keeps an id as the place it comes from, characters `from+1..to` of a
word, so that a property can tell whether part of the text is missing. `Room` is
the limit with [SEP] counted in. The code matches bytes and backs off byte by
byte; the model backs off by characters, which is the same because the entries of
a vocabulary file are well-formed UTF-8. `Fts5Query` builds the operand of MATCH
and models FTS5's lexer the way `fts5_query.hpp` describes it: quotes delimit a
phrase, a doubled quote is a literal one, everything else outside is a bareword.
`CString` is the passage through `c_str()` without a length
(`chunk_repository.cpp:116-158`, `:227`), which ends at the first NUL. `Accepted` is
FTS5's refusal of a query that ends inside a phrase ("unterminated string").

### DenseIndex

The graph is its dimensionality, size, capacity and number of search contexts;
which vectors it holds is `ChunkStore`'s matter. usearch itself is not in the
repository. What its operations do is taken from how the class and its comments
use them: `reset()` restores the freshly constructed state, dimensionality
included (`dense_index.hpp:61`), `load()` takes dimensionality, size and number of
contexts from the file and its own choice, and `reserve` sets what it is given. A
`load()` that throws may leave anything behind, so `Clear` has to follow.

### CommandLine

One process at a time runs on one directory, from its arguments to its exit code.

    shell -> open -> [load -> compare ->] [clear -> rebuild -> persist ->] model
    model -> read -> chunk -> embed -> read -> ... -> insert -> index -> save -> shell
    model -> embed -> search -> answer -> shell

`Launch` covers the refusals of `cli.py` before an engine exists: a model without
`--model-dim`, a folder without texts, a database that is not there, `top_k` below
one. `Throws` is any exception of SQLite, usearch, the file system or ONNX
Runtime, and `Killed` the death of the process; both may happen at every place
where such a call is made. All exceptions end with 1, caught or not: the embedding
inside the loop is outside the `try` block and ends with a traceback instead of a
message. Between two commands the sidecar may be deleted, cut short or garbled
(`DamageSidecar`), which the next constructor has to survive. Ingesting a folder
twice fails, since its document ids are keys. `CallChunkText` is any other
caller of the public `chunk_text`.

Left out here because another module has it in detail: the steps of the
transaction and a temporary file that a killed save leaves (`ChunkStore`), the
order of the two searches (`RetrievalEngine`), and scores (`Ranking`). An argument of
a process holds no NUL, but a query of a program that makes the same calls may, and
texts of files do; both are inputs here. A word with a NUL cuts the operand of MATCH
inside a phrase, and FTS5 refuses it (`MatchRefused`). A chunk with a NUL is stored up
to it: `LessWhatFollowsNul` is what is left of the document an ingest should have
stored, `Expected`.

## 3. Runs

| Run | Instance | Shows |
|---|---|---|
| `single_instance` | 1 engine, 2 documents, batches of 2 x 2 chunks, 2 sizes | types, FTS in step, keys unique, no duplicate key at usearch, no torn sidecar, no open transaction, one size in tables and index, refinement of `DocumentStore`: all or nothing |
| `shared_file` | 2 engines, 2 documents, `CommitBusy` | index and files backed by committed rows, read-your-writes, trusted sidecars complete, all of it unless two engines wrote one file at once; refinement of `DocumentStore` with concurrent writers |
| `termination` | 2 engines, fair, `CommitBusy` | every call ends |
| `shared_temp` | 2 engines, 2 documents | **violated**: finding 1 |
| `commit_left_open` | 1 engine, `CommitBusy` | **violated**: finding 2 |
| `mixed_sizes` | 2 engines, 2 sizes | **violated**: finding 3 |
| `power_loss` | 1 engine, 1 loss | **violated**: finding 4 |
| `blocking_pool` | 4 threads, 2 resources, 2 calls each, fair | conservation, no lost wakeup, refinement of `ResourcePool`, `Acquire` returns |
| `engine` | 3 threads, 2 connections, 2 slots, any 3 calls, on a file and in memory | exclusion, embedder lifetime, no leak, no nested starvation, refinement of `AtomicEngine` |
| `engine_fair` | 2 threads, 1 connection, 1 slot | every call ends |
| `ranking` | 3 chunks in 2 documents, all rankings, k up to 3, 3 timestamps, 8 lambdas | order, selection, and what the decay may do |
| `command_line` | 5 folders, 4 queries, 3 models, 2 sizes, 0 to 2 cores, fair | windows cover, ids read the text, usearch's preconditions, queries mean their words or are refused, ingest all or nothing, every command ends |

**Bounds.** `MaxBatch` and `MaxChunks` bound one call; two of each give a failure
in the first and in a later document, and before and after the first chunk. Calls
are not counted in `ChunkStore`: an engine may be opened, used and killed any
number of times, and document ids, which are keys, bound the tables. Two engines
are enough for every conflict named above, since each is between two parties (one
write lock, one temporary file, one sidecar). Four threads on two resources give
two holders and two sleepers at once; three engine threads on two connections a
reader that waits while another is inside; two on one slot give the single-core
host. `MaxCalls` bounds the calls of the engine runs, `MaxSpurious` the wakeups
nobody asked for. Three chunks give two that tie within a document and two that tie
across documents, and a hit that k or the cap on sparse results leaves out;
timestamps lie in the future, in the past, and so far back that the age wraps;
lambda goes from a boost that is not finite to a decay below the floor, and is
either infinity or NaN besides.
`MaxLosses` is one, which is all finding 4 takes.

In `command_line` the longest text has 14 characters and 7 words, cut into three
windows of 3 that overlap in 1. `Sizes` adds calls with a window of zero, an
overlap equal to the window, and 31, whose sums wrap at `SizeMod = 32`; texts are
at most half of `SizeMod` long, as no string in memory is longer than half of
2^64. Five tokens (`MaxTokens`) end some texts between words and some inside one;
five bytes (`MaxCharsPerWord`) are exceeded by a word of two characters. The queries
are a word with two quotes, a quote that nothing closes before OR, a quote and a NUL
in one word, and nothing but spaces; one file holds a NUL inside a word, with another
word after it. A graph
of `FirstCapacity = 4` is outgrown by the folders together. `hardware_concurrency`
may answer 0. Commands are not counted: document ids bound the tables. Symmetry is used
in runs without liveness only.

**Fairness.** `WF_vars(Step(i))`: a thread inside a call keeps being scheduled.
Calls themselves, spurious wakeups and crashes are never forced. Likewise
`WF(ProcessStep)` in `CommandLine`: a command keeps running, while failures, kills
and new commands are not forced, so `CommandsEnd` holds without any of them. In `ChunkStore`
waiting for SQLite's lock ends because `busy_timeout` makes the INSERT fail
(`InsertFails` is always enabled in the loop). In `BlockingPool` and
`RetrievalEngine` a waiting thread may be overtaken as long as newcomers come, as
`std::condition_variable` and `std::shared_mutex` allow; the liveness properties
of threads therefore hold for finitely many calls, which the bounds provide, and starvation
under an endless stream of readers is not excluded by the code.

### Findings

1. **One temporary name.** All engines save under `<db>.usearch.tmp`
   (`dense_index.cpp:99`), and a rename moves the file together with the handle of an
   engine that is still writing it. `Load` looks at a 64-byte header and at what usearch
   can parse, not at a checksum. In the run one engine commits *a* but fails to index
   it, then adds *b*, so that its graph holds row 2 alone; another one opens, and
   rebuilds rows 1 and 2. Both save at once, and the file has the header and the keys
   of the second with, in its first slot, the vector that the first one has there: row
   1's id goes with row 2's vector. The next constructor counts two vectors and two
   rows and trusts it. `chunk_store.cpp:37-38` takes equal counts for the reason to
   trust a graph, and `docs/DECISIONS.md:336-337` says a stale sidecar can never cause
   wrong results. Nothing repairs it: every later save writes the wrong vector again
   (`garbled` follows it), until the sidecar is deleted or its count differs. Whether
   the bytes of two saves fall this way depends on usearch's writes and the system;
   what the code does not do is notice. The same interleaving with a crash in it
   leaves a torn file under the sidecar's name, which `dense_index.hpp:50-52` rules out;
   that one is rebuilt. One engine alone does neither (`single_instance`, and the
   theorems `OneEngineTrustIsSound` and `OneEngineNoTornSidecar`).
2. **A COMMIT outside the try block.** `chunk_repository.hpp:38` says the
   transaction is rolled back if anything fails partway through. A COMMIT that
   fails with BUSY leaves it open; the next call fails at BEGIN and the write
   lock stays taken until the engine is destroyed. `termination` shows that
   everybody else still gets an answer.
3. **No record of the size.** `chunk_store.cpp:50` says SQLite can always
   reconstruct the index. Two engines opened with different `dim` on a file that
   is still empty both store chunks, and from then on no constructor succeeds
   without a sidecar. One engine at a time cannot do this (`single_instance`).
4. **Loss of power.** `docs/DECISIONS.md:336-337` says a stale sidecar can never
   cause wrong results, because the row-count check forces a rebuild. One engine
   is enough: it stores document *a*, whose COMMIT succeeds while adding to the
   index fails, so the index lags, as `chunk_store.cpp:94-96` accepts. *a*'s commit
   is written back. The engine stores *b*, and saves a sidecar with *b*'s vector
   only. The sidecar reaches the disk, *b*'s commit does not, and power fails. The
   next engine finds one row and one vector, trusts the sidecar, and its vector
   carries an id whose row is gone and which the next document will get. Without
   a loss of power the property holds of every sidecar that no two engines wrote at
   once (`shared_file`, proved as `TrustIsSound`), and with one engine of every
   sidecar (`OneEngineTrustIsSound`).

Remarks that need no run, since a passing property says what the code does instead:

* The comment at `chunk_store.cpp:206-208` says the decay can change which chunks land
  in the final top k. The list has been cut to k before (`chunk_store.cpp:192`), as
  ADR-5 describes it: the decay only reorders, which `MemoryPermutesHybrid` states.
* `recency_decay.hpp:17-20` says a memory from the future is left undecayed. That holds
  for every finite lambda. With an infinite one the exponent is infinity times zero,
  not a number, and the factor is the floor, 0.01; nothing validates `decay_lambda`.
  `DecayOnlyDiscounts` states both.
* `retrieval_engine.hpp:160-162` says `search_sparse` throws on unbalanced quotes. It does
  not: `BuildSafeFts5MatchQuery` doubles every quote, and the query is answered as
  text, as `fts5_query.hpp:12-26` wants it. What does make FTS5 refuse the operand is a
  NUL inside a word, which no comment mentions. `QueryMeansItsWords` states both.
* `chunk_repository.cpp:129` and `:158` bind the text of a chunk as a C string, so whatever
  follows a NUL in it, ordinary words included, is lost, and `add_documents` succeeds;
  `retrieval_engine.hpp:139-141` has `chunk_count` verify that "ingestion persisted
  everything add_documents() was given", and the count agrees, since no row is missing.
  `IngestAllOrNothing` states exactly what is kept: all windows with their offsets, and
  the text of each up to its first NUL.

## 4. Proofs

All theorems hold for any sets of instances, threads, documents, models,
resources and texts; the assumptions are the named ones of the modules
(`ConstantsAssumption`, `PoolAssumption`, `EngineAssumption`,
`RankingAssumption`, `ExponentAssumption`, `TextAssumption`, `SizeAssumption`,
`QueryAssumption`, `WordPieceAssumption`, `DenseAssumption`,
`CommandAssumption`). TLC evaluates each of them in a run. Four theorems have a
hypothesis of their own, named below. Every safety property and every refinement
that a passing run checks is proved; the inductive invariants behind them are not
part of a run, since a proof covers what a run would.

**`ChunkStoreProofs`.** `StoreInvariant` is inductive (`StoreCorrect`). The
property wanted, `IndexBackedByRows`, is not inductive by itself: that an
added vector is backed needs `PendingInv` (pending vectors belong to
uncommitted rows inside the transaction and to committed ones after it), which
needs `LockInv` (one writer, whose table extends the committed one) and
`LoopInv` (cursors). `FtsInv` follows chunks_fts through the transaction, and
`SavedBackedByRows` the graph through both files. From it: `TypeCorrect`,
`IndexNeverAhead`, `SidecarNeverAhead`, `SparseIndexInStep`. `TrustIsSound` is
the argument behind the constructor's fast path: a loaded graph is a subset of
the committed entries, entries are as many as rows, and a subset of a finite
set with as many members is the set. The argument needs its first premise, which a
file that two engines wrote at once does not give: that is why it speaks of instances
outside `garbled`, as `IndexBackedByRows` does, and of no other.

**`ChunkStoreCallerProofs`** adds to `StoreInvariant` what makes
`CallersInvariant` inductive (`CallersCorrect`):

* `AccountInv`, the account of an open transaction: up to its cursors, the
  documents of the batch are in the tables, each spelled out by its rows from
  position 0 without a gap or a double, none of them was there before, and every
  uncommitted row has its vector pending. With `KeysInv` (rows belong to
  documents, uncommitted rows to uncommitted documents) it gives
  `ChunkKeysAreUnique`.
* `FoundInv`: what a call owes its caller is in the index, or pending while the
  index is being filled. It is here that an exception between COMMIT and `Save`
  must not count as a promise. Gives `OwnWritesAreFound`.
* `OrderInv`: vectors are queued by increasing id and enter an index that holds
  smaller ids only, which is why usearch never sees a key twice (`NoKeyAddedTwice`).

Both are about instances outside `garbled`.

`WritePathImplementsStore` maps every step to one of `DocumentStore` or to a
stutter. COMMIT is the moment at which a call takes effect. The documents that
`DocumentStore` holds are read back from the rows; for the reading to be what was
written, the rows of every committed document must spell it out
(`DocumentsStoredWhole`), and this the account hands over at COMMIT.

Hypotheses. `TransactionsEnd` (`NoTransactionLeftOpen`) assumes that COMMIT is
never BUSY, `~CommitBusy`: finding 2 is what happens otherwise.
`OneEngineNoTornSidecar`, `OneEngineTrustIsSound` and `OneEngineOneSize` assume one
engine on the path, `Instance = {engine}`: findings 1 and 3 show two. What
`OneEngineTrustIsSound` adds to `TrustIsSound` is that one engine never makes a mixed
file, since its saves do not overlap, so that `garbled` stays empty and every sidecar
it trusts is complete. What holds with any number of engines is `IndexesHoldOneSize`:
within one index outside `garbled` all vectors have one size.

**`BlockingPoolProofs`.** `PoolInv` (types, who holds the mutex and a resource
where, each resource in one place) is inductive; `ResourcesConserved`,
`PoolTypeCorrect` and the refinement of `ResourcePool`, `PoolRefinement`, follow.
`WakeupsNotLost` keeps `Len(free) <= Cardinality(Awake)` while anyone sleeps:
`Push` adds a resource and an awake thread, `Take` removes both, `Notify` hands
the one over to the sleeper.

**`RetrievalEngineProofs`.** `EngineInvariant` is inductive: where a thread is
determines the mode in which it holds `rw_mutex` (`LockInv`), a reference to an
embedder is to the attached one (`UseInv`), rows are numbered without gaps and
indexed and found rows are committed (`RowsInv`). From it follow
`EngineTypeCorrect`, `SearchesExcludeIngest`, `EmbedderSafe` and
`HitsAlwaysHaveRows`. `PoolInv` (`PoolsCorrect`) says of both pools that each
resource is free or lent to one thread, and of each thread at which places it
holds one; idle is not among them (`CallsLeaveNothingBehind`). `SlotsSuffice` counts:
on a file every thread that uses a slot also holds a connection, so slots in use
inject into connections in use. The thread that comes for a slot holds a
connection that is not in the image, so fewer slots are in use than there are
connections, and there are as many slots as connections.

**`AtomicEngineProofs`.** A read takes effect when its answer is complete, still
under the shared lock, and an ingest as it ends. A reader's answer was put together over
many steps, so one has to show that it is the state of one moment:
`AtomicInvariant` (`AnswersAreCurrent`) says that whatever a reader has found is still so, because what would change it needs the exclusive lock, and
that what a writer has not published is visible to nobody with an answer. Then
every step is one of `AtomicEngine` or shows nothing (`SharedEngineIsAtomic`).

**`RankingProofs`.** `RankInv` is inductive because scores depend on the inputs
alone (`InputsDecideScores`). Score and key order the chunks totally
(`TotalOrder`), so what a sort leaves is strictly ordered (`SortedFacts`) and a
prefix of it holds the best (`BestKept`). `DominanceKept` multiplies two
inequalities: a fresher chunk has the larger factor (`FresherDecaysLess`,
since exp does not decrease) and the first one the larger score; under a lambda that
is not finite all factors are the floor (`FloorUnlessFinite`). `OnlyDiscounts` has every
lambda, and says of those that are not finite what the code does with them.
`ZeroLambdaKeepsTheRanking`: all factors are one, so both lists are strictly
ordered lists of one set; at the first place where two such lists differ, the
better element would be missing from the other.

**`TextProofs`.**

* The loop of `chunk_text` keeps its windows full and its start short of the end
  (`WindowEmitted`). A text has no more words than characters (`WordsAreFew`, since
  each word starts at a character of its own), so at most half of `SizeMod`. The
  first window starts at zero and cannot wrap; there is a second one only if the
  window is shorter than the text, and then the sum of two numbers below half of
  `SizeMod` cannot either.
* `EncodingInv`: the ids so far read the text up to the place the loop has
  reached; the pieces of the word in work, which are dropped if it turns out to be
  unknown, read that word up to the piece being matched. Each operation of
  `encode` appends ids that adjoin (`EncodingOperations`).
* FTS5's lexer. `Leads(p, q, r)` says that reading `q` takes the lexer from `p`
  to `r`; readings compose, and one character has one successor.
  `EscapedIsRead`, `QuotedIsRead` and `OrIsRead` follow the lexer through a word with
  doubled quotes, a phrase, and the operator between two; `QueryIsRead` puts them
  together for any number of words.
* Refusal. Whether a query is `Accepted` is the parity of its quotes, and where the lexer
  is inside a phrase that number is odd (`PhraseAfterOddQuotes`); it ends what
  `QueryIsRead` reads outside of one (`QueryIsAccepted`). A NUL that it meets outside of a
  phrase stays in the words it has read (`NulIsRemembered`), which are OR and phrases; so
  each NUL of the query stands in a phrase (`NulIsInAPhrase`), and the cut before the
  first leaves an odd number of quotes (`NulIsRefused`).

**`CommandLineProofs`.** A command moves each part only by the part's own
operations (`StepsOfTheParts`), so each part keeps its own invariant; `CommandInv`
has all of them. `DenseInv`: outside of a failed load the graph has the right size
and a context for every slot, and there is room while a vector is added; it needs
that files hold sizes in Nat, and nothing about how they came to be. `FilesInv`:
the documents in memory are those expected of the first files, and the stored
ones are those before the command or, from the COMMIT on, all of them.
That a document is `Expected` is that the loop of `chunk_text` ends with as many windows
as the property computes by a division: `LastInv` (the last window is short
enough) and `QuotientIsUnique`. `CountInv`: vectors in the graph and vectors still to
be added are as many as chunks. Together `IngestStoresAllOrNothing`. With
`EncodingInv`, kept for the texts a command tokenizes: `EncodingCorrect`; with
`QueryIsRead`, `QueryIsAccepted` and `NulIsRefused`: `QueriesMeanTheirWords`, where a
query without a NUL passes the C string as it is (`NothingCut`).

**Induction.** The induction theorems of the library take an operator as a
parameter, which the provers here cannot instantiate. A least number needs none:
`LeastOf` (`NatLessThanWellFounded` with `WFMin`) gives every nonempty set of numbers
its least member, and a set of counterexamples is such a set. The facts
about `FoldLeft`, `FlattenSeq` and the lists of `ZeroLambdaKeepsTheRanking` are
proved in this way, after the recursion behind an operator has been put as a function
of the number of steps.

**What the assumptions say.** `TextAssumption` has `Space` nonempty and
`QueryAssumption` the letters of OR distinct from spaces, quotes and NUL: facts
about six whitespace characters and two letters. `EngineAssumption` has as many
connections as slots, since `UsearchSearchThreadCount` (`usearch_util.hpp:19`)
gives the number of both.

**Only model-checked.** Liveness, which like ENABLED is out of the prover's reach:
`CallsTerminate`, `AcquireReturns`, `CallsReturn`, `CommandsEnd`. And the four
violations, which are facts about instances. `PowerLoss` has no theorem: what it
says is that a property of `ChunkStore` is lost.

## 5. Not modelled, and what comes next

The plan for the proofs:

1. `PowerLoss`: under which condition on the order of writing back is a trusted
   sidecar complete after a loss of power? If tables never reach the disk after
   a sidecar made from them, `StoreInvariant` should extend to `disk`.
2. Action properties of `ChunkStore` that follow from `CallersInvariant`: no call
   that fails changes what another instance has committed.

Not modelled, and why:

* Schema creation: one idempotent script that runs before anything else.
* Reading `vocab.txt` and model files byte by byte: loading succeeds or throws.
* ONNX inference, pooling and normalisation, the hashing of the mock embedder,
  bm25, and usearch's approximate search: numerical, or not in the repository.
* Moving an engine while calls are in flight, which its contract excludes.
* The `Engine` wrapper in `__init__.py` and the conversion of arguments in the
  bindings: they keep no state. The bindings release the GIL, so that Python
  threads are the threads of `RetrievalEngine`.
* Benchmarks and build scripts.
