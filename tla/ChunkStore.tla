----------------------------- MODULE ChunkStore -----------------------------
(***************************************************************************)
(* The write path of the engine: ChunkStore over ChunkRepository (SQLite)  *)
(* and DenseIndex (usearch), with the sidecar file the index is saved to.  *)
(*                                                                         *)
(* Several engine instances, in one process or in many, may be open on the *)
(* same database path.  An instance is closed, under construction, idle or *)
(* inside add_documents; the write lock of retrieval_engine.cpp admits one *)
(* mutating call per instance, so an instance is a sequential process and  *)
(* "pc" says where it is.  Instances share the SQLite tables, the sidecar  *)
(* "<db>.usearch" and the temporary file "<db>.usearch.tmp".               *)
(*                                                                         *)
(* A chunk is abstracted to the size of its embedding and its identity     *)
(* (document, position); ids are SQLite rowids.                            *)
(***************************************************************************)
EXTENDS Integers, Sequences, FiniteSets

CONSTANTS
    Instance,    \* engine instances opened on the one database path
    Document,    \* values of document_id
    Dim,         \* dimensionalities, and sizes of the callers' embeddings
    MaxBatch,    \* bound: documents in one add_documents call
    MaxChunks,   \* bound: chunks in one document
    CommitBusy   \* SQLite may answer COMMIT with BUSY and keep the transaction

\* An engine of dimensionality zero is refused (retrieval_engine.cpp:87).
ASSUME ConstantsAssumption ==
    /\ Dim \subseteq Nat \ {0}
    /\ MaxBatch \in Nat
    /\ MaxChunks \in Nat
    /\ CommitBusy \in BOOLEAN

VARIABLES
    db,        \* the committed tables: documents, chunks, chunks_fts
    work,      \* the tables as the holder of SQLite's write lock sees them
    lock,      \* the holder of that lock: {} or a singleton
    sidecar,   \* the file "<db>.usearch"
    temp,      \* the file "<db>.usearch.tmp"
    pc,        \* where each instance is
    up,        \* its constructor has returned
    dim,       \* the dimensionality it was opened with
    index,     \* the vectors in its usearch index, with the ids they go by
    loaded,    \* loaded_index_from_sidecar_
    garbled,   \* history: instances whose index goes back to a mixed file
    batch,     \* the argument of its add_documents call
    at,        \* the document and the chunk the insert loop has reached
    pending,   \* vectors still to be added to the index
    owed       \* history: the entries its callers may expect to find

tables  == <<db, work, lock>>
files   == <<sidecar, temp>>
objects == <<up, dim, index, loaded, garbled>>
call    == <<batch, at, pending>>
vars    == <<tables, files, pc, objects, call, owed>>

-----------------------------------------------------------------------------
(* Data. *)

DocumentInput == [document_id : Document, chunks : Seq(Dim)]

Row == [document_id : Document, chunk_index : Nat, size : Dim]

\* A rowid with the row it names: a row of `chunks` as the index, the
\* sidecar and chunks_fts refer to it.
Entry == [id : Nat \ {0}, row : Row]

\* chunk_id is an INTEGER PRIMARY KEY of a table that never deletes, so the
\* row at position n of the table is the row whose id is n.
Entries(rows) == { [id |-> n, row |-> rows[n]] : n \in DOMAIN rows }

Tables == [documents : SUBSET Document, chunks : Seq(Row), fts : SUBSET Entry]

NoTables == [documents |-> {}, chunks |-> <<>>, fts |-> {}]

\* A file is absent, being written, whole (the graph of one writer), or mixed:
\* two writers had it open at once, or it was saved from an index that goes back
\* to such a file.  `dim` is zero as long as usearch cannot read it.  `writers`
\* still have it open; a rename moves the file, and the open handles with it.
File == [state : {"absent", "writing", "mixed", "whole"}, dim : Dim \cup {0},
         entries : SUBSET Entry, writers : SUBSET Instance]

AbsentFile == [state |-> "absent", dim |-> 0, entries |-> {}, writers |-> {}]

\* The calls the model enumerates: batches of bounded length.
Batches ==
    LET Input == [document_id : Document,
                  chunks : UNION { [1..n -> Dim] : n \in 0..MaxChunks }]
    IN  UNION { [1..n -> Input] : n \in 0..MaxBatch }

Start == [doc |-> 1, chunk |-> 0]

Init ==
    /\ db = NoTables /\ work = NoTables /\ lock = {}
    /\ sidecar = AbsentFile /\ temp = AbsentFile
    /\ pc = [i \in Instance |-> "closed"]
    /\ up = [i \in Instance |-> FALSE]
    /\ dim = [i \in Instance |-> 0]
    /\ index = [i \in Instance |-> {}]
    /\ loaded = [i \in Instance |-> FALSE]
    /\ garbled = {}
    /\ batch = [i \in Instance |-> <<>>]
    /\ at = [i \in Instance |-> Start]
    /\ pending = [i \in Instance |-> <<>>]
    /\ owed = [i \in Instance |-> {}]

-----------------------------------------------------------------------------
(* How a call ends. *)

\* The documents a call asks to store.
DocumentsOf(b) == { b[n].document_id : n \in DOMAIN b }

ForgetCall(i) ==
    /\ batch' = [batch EXCEPT ![i] = <<>>]
    /\ at' = [at EXCEPT ![i] = Start]
    /\ pending' = [pending EXCEPT ![i] = <<>>]

\* The constructor or add_documents returns.  From here on its caller may
\* expect the rows it stored to be found by this instance.
Return(i) ==
    /\ pc' = [pc EXCEPT ![i] = "idle"]
    /\ up' = [up EXCEPT ![i] = TRUE]
    /\ owed' = [owed EXCEPT ![i] = @ \cup
           { e \in Entries(db.chunks) : e.row.document_id \in DocumentsOf(batch[i]) }]
    /\ ForgetCall(i)
    /\ UNCHANGED <<dim, index, loaded, garbled>>

\* The object is gone: its index with it.
Destroy(i) ==
    /\ pc' = [pc EXCEPT ![i] = "closed"]
    /\ up' = [up EXCEPT ![i] = FALSE]
    /\ dim' = [dim EXCEPT ![i] = 0]
    /\ index' = [index EXCEPT ![i] = {}]
    /\ loaded' = [loaded EXCEPT ![i] = FALSE]
    /\ garbled' = garbled \ {i}
    /\ owed' = [owed EXCEPT ![i] = {}]
    /\ ForgetCall(i)

\* An exception leaves the call: a constructor leaves no object, add_documents
\* leaves the instance as far as it had got.
Throw(i) ==
    \/ /\ up[i]
       /\ pc' = [pc EXCEPT ![i] = "idle"]
       /\ ForgetCall(i)
       /\ UNCHANGED <<objects, owed>>
    \/ ~up[i] /\ Destroy(i)

-----------------------------------------------------------------------------
(* The constructor: load the sidecar, or rebuild the index from SQLite. *)

Open(i, d) ==
    /\ pc[i] = "closed"
    /\ pc' = [pc EXCEPT ![i] = "load"]
    /\ dim' = [dim EXCEPT ![i] = d]
    /\ UNCHANGED <<tables, files, up, index, loaded, garbled, call, owed>>

\* Mutant: the saved graph's dimensionality is not looked at.
LoadableAnyDim(file, d) == file.dim # 0

\* DenseIndex::Load: usearch can read the header and the graph, which was saved
\* for this dimensionality.  No checksum is looked at.
Loadable(file, d) == file.dim = d

LoadSidecar(i) ==
    /\ pc[i] = "load"
    /\ Loadable(sidecar, dim[i])
    /\ index' = [index EXCEPT ![i] = sidecar.entries]
    /\ garbled' = IF sidecar.state = "mixed" THEN garbled \cup {i} ELSE garbled
    /\ pc' = [pc EXCEPT ![i] = "compare"]
    /\ UNCHANGED <<tables, files, up, dim, loaded, call, owed>>

\* Mutant: a graph that lags behind the table is good enough.
CountsAtMost(i) == Cardinality(index[i]) <= Len(db.chunks)

\* The loaded graph is trusted when it holds as many vectors as there are rows.
CountsAgree(i) == Cardinality(index[i]) = Len(db.chunks)

TrustSidecar(i) ==
    /\ pc[i] = "compare"
    /\ CountsAgree(i)
    /\ loaded' = [loaded EXCEPT ![i] = TRUE]
    /\ up' = [up EXCEPT ![i] = TRUE]
    /\ pc' = [pc EXCEPT ![i] = "idle"]
    /\ owed' = [owed EXCEPT ![i] = Entries(db.chunks)]
    /\ UNCHANGED <<tables, files, dim, index, garbled, call>>

\* Mutant: the rebuild starts without Clear().
DiscardWithoutClear(i) ==
    /\ \/ pc[i] = "load"
       \/ pc[i] = "compare"
    /\ pc' = [pc EXCEPT ![i] = "scan"]
    /\ UNCHANGED <<tables, files, objects, call, owed>>

\* No sidecar, one that cannot be loaded or compared (an I/O error may come at
\* any time), or one whose count differs: Clear() and rebuild.
DiscardSidecar(i) ==
    /\ \/ pc[i] = "load"
       \/ pc[i] = "compare"
    /\ index' = [index EXCEPT ![i] = {}]
    /\ garbled' = garbled \ {i}
    /\ pc' = [pc EXCEPT ![i] = "scan"]
    /\ UNCHANGED <<tables, files, up, dim, loaded, call, owed>>

\* Mutant: the scan stops one row early.
SnapshotButLast(rows) ==
    [n \in 1..(Len(rows) - 1) |-> [id |-> n, row |-> rows[n]]]

\* Mutant: rows are numbered from zero.
SnapshotFromZero(rows) == [n \in DOMAIN rows |-> [id |-> n - 1, row |-> rows[n]]]

\* ForEachChunk reads one snapshot of the table, row by row.
Snapshot(rows) == [n \in DOMAIN rows |-> [id |-> n, row |-> rows[n]]]

ScanChunks(i) ==
    /\ pc[i] = "scan"
    /\ pending' = [pending EXCEPT ![i] = Snapshot(db.chunks)]
    /\ owed' = [owed EXCEPT ![i] = Entries(db.chunks)]
    /\ pc' = [pc EXCEPT ![i] = "index"]
    /\ UNCHANGED <<tables, files, objects, batch, at>>

-----------------------------------------------------------------------------
(* add_documents: one SQLite transaction. *)

\* Every embedding is measured before anything is written; a call that fails
\* this test throws at once and changes nothing.
AddDocuments(i, b) ==
    /\ pc[i] = "idle"
    /\ \A n \in DOMAIN b : \A m \in DOMAIN b[n].chunks : b[n].chunks[m] = dim[i]
    /\ batch' = [batch EXCEPT ![i] = b]
    /\ pc' = [pc EXCEPT ![i] = "begin"]
    /\ UNCHANGED <<tables, files, objects, at, pending, owed>>

\* BEGIN is deferred: it takes no lock.  Inside a transaction it is an error.
Begin(i) ==
    /\ pc[i] = "begin"
    /\ i \notin lock
    /\ pc' = [pc EXCEPT ![i] = "document"]
    /\ UNCHANGED <<tables, files, objects, call, owed>>

BeginFails(i) ==
    /\ pc[i] = "begin"
    /\ Throw(i)
    /\ UNCHANGED <<tables, files>>

Current(i) == batch[i][at[i].doc]

\* Mutant: the instances share one connection, and so one transaction.
MayAlwaysWrite(i) == i \in Instance

\* SQLite's write lock is free or already ours; the first INSERT takes it.
MayWrite(i) == lock \subseteq {i}

\* Mutant: document_id is not a key.
InsertAnyDocument(i) ==
    /\ pc[i] = "document"
    /\ at[i].doc <= Len(batch[i])
    /\ MayWrite(i)
    /\ work' = [work EXCEPT !.documents = @ \cup {Current(i).document_id}]
    /\ lock' = {i}
    /\ pc' = [pc EXCEPT ![i] = "chunk"]
    /\ UNCHANGED <<db, files, objects, call, owed>>

InsertDocumentRow(i) ==
    /\ pc[i] = "document"
    /\ at[i].doc <= Len(batch[i])
    /\ MayWrite(i)
    /\ Current(i).document_id \notin work.documents
    /\ work' = [work EXCEPT !.documents = @ \cup {Current(i).document_id}]
    /\ lock' = {i}
    /\ pc' = [pc EXCEPT ![i] = "chunk"]
    /\ UNCHANGED <<db, files, objects, call, owed>>

\* Mutant: the vector goes into the index along with the row, before COMMIT.
IndexBeforeCommit(i) ==
    /\ pc[i] = "chunk"
    /\ at[i].chunk < Len(Current(i).chunks)
    /\ LET row == [document_id |-> Current(i).document_id,
                   chunk_index |-> at[i].chunk,
                   size        |-> Current(i).chunks[at[i].chunk + 1]]
           e   == [id |-> Len(work.chunks) + 1, row |-> row]
       IN  /\ work' = [work EXCEPT !.chunks = Append(@, row)]
           /\ pending' = [pending EXCEPT ![i] = Append(@, e)]
           /\ index' = [index EXCEPT ![i] = @ \cup {e}]
    /\ pc' = [pc EXCEPT ![i] = "fts"]
    /\ UNCHANGED <<db, lock, files, up, dim, loaded, garbled, batch, at, owed>>

InsertChunkRow(i) ==
    /\ pc[i] = "chunk"
    /\ at[i].chunk < Len(Current(i).chunks)
    /\ LET row == [document_id |-> Current(i).document_id,
                   chunk_index |-> at[i].chunk,
                   size        |-> Current(i).chunks[at[i].chunk + 1]]
           id  == Len(work.chunks) + 1
       IN  /\ work' = [work EXCEPT !.chunks = Append(@, row)]
           /\ pending' = [pending EXCEPT ![i] = Append(@, [id |-> id, row |-> row])]
    /\ pc' = [pc EXCEPT ![i] = "fts"]
    /\ UNCHANGED <<db, lock, files, objects, batch, at, owed>>

\* Mutant: chunks_fts gets the id of the batch's first chunk every time.
InsertFirstFtsRow(i) ==
    /\ pc[i] = "fts"
    /\ work' = [work EXCEPT !.fts = @ \cup {pending[i][1]}]
    /\ at' = [at EXCEPT ![i].chunk = @ + 1]
    /\ pc' = [pc EXCEPT ![i] = "chunk"]
    /\ UNCHANGED <<db, lock, files, objects, batch, pending, owed>>

InsertChunkFtsRow(i) ==
    /\ pc[i] = "fts"
    /\ work' = [work EXCEPT !.fts = @ \cup {pending[i][Len(pending[i])]}]
    /\ at' = [at EXCEPT ![i].chunk = @ + 1]
    /\ pc' = [pc EXCEPT ![i] = "chunk"]
    /\ UNCHANGED <<db, lock, files, objects, batch, pending, owed>>

NextDocument(i) ==
    /\ pc[i] = "chunk"
    /\ at[i].chunk = Len(Current(i).chunks)
    /\ at' = [at EXCEPT ![i] = [doc |-> at[i].doc + 1, chunk |-> 0]]
    /\ pc' = [pc EXCEPT ![i] = "document"]
    /\ UNCHANGED <<tables, files, objects, batch, pending, owed>>

\* Give back the write lock, if it is ours, keeping only what was committed.
Rollback(i) ==
    /\ work' = IF i \in lock THEN db ELSE work
    /\ lock' = lock \ {i}
    /\ db' = db

InsertLoop(i) ==
    \/ pc[i] = "document" /\ at[i].doc <= Len(batch[i])
    \/ pc[i] \in {"chunk", "fts"}

\* Mutant: the catch block commits what has been inserted.
InsertFailsCommitting(i) ==
    /\ InsertLoop(i)
    /\ db' = IF i \in lock THEN work ELSE db
    /\ lock' = lock \ {i}
    /\ work' = work
    /\ Throw(i)
    /\ UNCHANGED files

\* Mutant: the catch block only rethrows.
InsertFailsNoRollback(i) ==
    /\ InsertLoop(i)
    /\ Throw(i)
    /\ UNCHANGED <<tables, files>>

\* Mutant: no busy_timeout, an INSERT waits for the lock as long as it takes.
InsertFailsNoTimeout(i) ==
    /\ InsertLoop(i)
    /\ MayWrite(i)
    /\ Rollback(i)
    /\ Throw(i)
    /\ UNCHANGED files

\* A duplicate document_id, a lock that stays busy for kBusyTimeoutMs, or any
\* other SQLite error in the loop: ROLLBACK and rethrow.
InsertFails(i) ==
    /\ InsertLoop(i)
    /\ Rollback(i)
    /\ Throw(i)
    /\ UNCHANGED files

Inserted(i) == pc[i] = "document" /\ at[i].doc > Len(batch[i])

Commit(i) ==
    /\ Inserted(i)
    /\ db' = IF i \in lock THEN work ELSE db
    /\ lock' = lock \ {i}
    /\ pc' = [pc EXCEPT ![i] = "index"]
    /\ UNCHANGED <<work, files, objects, call, owed>>

\* Mutant: the result of COMMIT is not looked at.
CommitUnchecked(i) ==
    /\ Inserted(i)
    /\ Rollback(i)
    /\ pc' = [pc EXCEPT ![i] = "index"]
    /\ UNCHANGED <<files, objects, call, owed>>

\* COMMIT stands outside the try block: nothing rolls back what SQLite has not
\* rolled back by itself.
CommitFails(i) ==
    /\ Inserted(i)
    /\ \/ Rollback(i)
       \/ CommitBusy /\ i \in lock /\ UNCHANGED tables
    /\ Throw(i)
    /\ UNCHANGED files

-----------------------------------------------------------------------------
(* Both paths: add the pending vectors to the index, then save the sidecar. *)

AddVector(i) ==
    /\ pc[i] = "index"
    /\ pending[i] # <<>>
    /\ LET e == Head(pending[i])
       IN  /\ e.row.size = dim[i]
           /\ \A f \in index[i] : f.id # e.id
           /\ index' = [index EXCEPT ![i] = @ \cup {e}]
    /\ pending' = [pending EXCEPT ![i] = Tail(@)]
    /\ UNCHANGED <<tables, files, pc, up, dim, loaded, garbled, batch, at, owed>>

\* The scan fails, a stored embedding has another size, the index holds the id
\* already, or usearch reports an error: what is indexed by then stays.
IndexingFails(i) ==
    /\ \/ pc[i] = "scan"
       \/ pc[i] = "index" /\ pending[i] # <<>>
    /\ Throw(i)
    /\ UNCHANGED <<tables, files>>

\* Mutant: Save writes the sidecar in place.
BeginSaveInPlace(i) ==
    /\ pc[i] = "index"
    /\ pending[i] = <<>>
    /\ sidecar' = [state   |-> IF sidecar.writers = {} THEN "writing" ELSE "mixed",
                   dim     |-> 0, entries |-> {},
                   writers |-> sidecar.writers \cup {i}]
    /\ pc' = [pc EXCEPT ![i] = "write"]
    /\ UNCHANGED <<tables, temp, objects, call, owed>>

\* Save opens (creates or truncates) the temporary file ...
BeginSave(i) ==
    /\ pc[i] = "index"
    /\ pending[i] = <<>>
    /\ temp' = [state   |-> IF temp.writers = {} THEN "writing" ELSE "mixed",
                dim     |-> 0, entries |-> {},
                writers |-> temp.writers \cup {i}]
    /\ pc' = [pc EXCEPT ![i] = "write"]
    /\ UNCHANGED <<tables, sidecar, objects, call, owed>>

\* A graph is saved in the order its vectors were added, which is that of ids.
Slot(entries, e) == Cardinality({ f \in entries : f.id <= e.id })

\* The header and the keys of `graph`, and in each slot the vector that `graph`
\* or another of `graphs` has there.
Mixes(graph, graphs) ==
    { { [id |-> e.id, row |-> slots[e].row] : e \in graph } :
        slots \in { f \in [graph -> UNION graphs] :
            \A e \in graph : \E other \in graphs :
                f[e] \in other /\ Slot(other, f[e]) = Slot(graph, e) } }

\* A file that cannot be read once instance i has closed it.
Unreadable(file, i) == [state |-> "mixed", dim |-> 0, entries |-> {},
                        writers |-> file.writers \ {i}]

\* What instance i may leave in a file it has open when it closes it.  The
\* bytes of two writers interleave in any way: it may be the graph of i after
\* all, its header and keys around vectors of the other one, or nothing that
\* can be read.
Written(file, i) ==
    LET graphs   == { index[w] : w \in file.writers } \cup {file.entries}
        saved(m) == [state   |-> IF m = index[i] /\ i \notin garbled
                                 THEN "whole" ELSE "mixed",
                     dim     |-> dim[i], entries |-> m,
                     writers |-> file.writers \ {i}]
    IN  IF i \notin file.writers THEN {file}
        ELSE IF file.state = "writing" THEN {saved(index[i])}
        ELSE { saved(m) : m \in Mixes(index[i], graphs) } \cup {Unreadable(file, i)}

\* ... and writes the graph to it, under whatever name the file has by then.
WriteSave(i) ==
    /\ pc[i] = "write"
    /\ temp' \in Written(temp, i)
    /\ sidecar' \in Written(sidecar, i)
    /\ pc' = [pc EXCEPT ![i] = "rename"]
    /\ UNCHANGED <<tables, objects, call, owed>>

\* What is left if the write fails or the process dies: a file cut short, or
\* what the other writer makes of it.
Abandoned(file, i) ==
    IF i \notin file.writers THEN {file}
    ELSE {[file EXCEPT !.writers = @ \ {i}]} \cup
         (IF file.state = "writing" THEN {} ELSE {Unreadable(file, i)})

SaveFails(i) ==
    /\ \/ pc[i] = "write"
       \/ pc[i] = "index" /\ pending[i] = <<>>
    /\ temp' \in Abandoned(temp, i)
    /\ sidecar' \in Abandoned(sidecar, i)
    /\ Throw(i)
    /\ UNCHANGED tables

Rename(i) ==
    /\ pc[i] = "rename"
    /\ temp.state # "absent"
    /\ sidecar' = temp
    /\ temp' = AbsentFile
    /\ Return(i)
    /\ UNCHANGED tables

\* Another instance moved the file away, or the system refuses: the temporary
\* file is removed.
RenameFails(i) ==
    /\ pc[i] = "rename"
    /\ temp' = AbsentFile
    /\ Throw(i)
    /\ UNCHANGED <<tables, sidecar>>

\* The destructor, or the process dying at any point: SQLite drops an open
\* transaction, the files stay as they are.
Stop(i) ==
    /\ pc[i] # "closed"
    /\ Rollback(i)
    /\ temp' \in Abandoned(temp, i)
    /\ sidecar' \in Abandoned(sidecar, i)
    /\ Destroy(i)

-----------------------------------------------------------------------------
Constructor(i) ==
    \/ LoadSidecar(i) \/ TrustSidecar(i) \/ DiscardSidecar(i) \/ ScanChunks(i)

Transaction(i) ==
    \/ Begin(i) \/ BeginFails(i)
    \/ InsertDocumentRow(i) \/ InsertChunkRow(i) \/ InsertChunkFtsRow(i)
    \/ NextDocument(i) \/ InsertFails(i) \/ Commit(i) \/ CommitFails(i)

Indexing(i) ==
    \/ AddVector(i) \/ IndexingFails(i)
    \/ BeginSave(i) \/ WriteSave(i) \/ SaveFails(i) \/ Rename(i) \/ RenameFails(i)

Step(i) == Constructor(i) \/ Transaction(i) \/ Indexing(i)

Next ==
    \E i \in Instance :
        \/ \E d \in Dim : Open(i, d)
        \/ \E b \in Batches : AddDocuments(i, b)
        \/ Step(i)
        \/ Stop(i)

Spec == Init /\ [][Next]_vars

\* A call that has begun goes on: its thread is scheduled.
FairSpec == Spec /\ \A i \in Instance : WF_vars(Step(i))

-----------------------------------------------------------------------------
(* Properties. *)

Control == {"closed", "load", "compare", "scan", "idle", "begin", "document",
            "chunk", "fts", "index", "write", "rename"}

TablesType == db \in Tables /\ work \in Tables /\ lock \in SUBSET Instance

FilesType == sidecar \in File /\ temp \in File

InstanceType ==
    /\ pc \in [Instance -> Control]
    /\ up \in [Instance -> BOOLEAN]
    /\ dim \in [Instance -> Dim \cup {0}]
    /\ index \in [Instance -> SUBSET Entry]
    /\ loaded \in [Instance -> BOOLEAN]
    /\ garbled \in SUBSET Instance
    /\ batch \in [Instance -> Seq(DocumentInput)]
    /\ at \in [Instance -> [doc : Nat \ {0}, chunk : Nat]]
    /\ pending \in [Instance -> Seq(Entry)]
    /\ owed \in [Instance -> SUBSET Entry]

\* Every variable has its type: rowids and the document cursor start at one.
TypeOK == TablesType /\ FilesType /\ InstanceType

\* The index is never ahead of SQLite (ADR-2, chunk_store.cpp:85-96): every
\* vector an instance can return as a hit belongs to the committed row of that
\* id, so Resolve never reports that index and store "have desynced", and never
\* resolves a vector to a row that took over the id of a rolled-back one.  Said
\* of every index that does not go back to a file two engines wrote at once.
IndexBackedByRows ==
    \A i \in Instance : i \notin garbled => index[i] \subseteq Entries(db.chunks)

\* The same of what a reader of either file would load, in this process or a
\* later one: a graph saved by one engine holds committed rows only.
SavedBackedByRows ==
    \A file \in {sidecar, temp} :
        file.state # "mixed" => file.entries \subseteq Entries(db.chunks)

\* The sparse index lists exactly the committed chunks, each under its own id
\* (chunk_repository.cpp:16-19: the three stay joinable by the same integer).
FtsInStep == db.fts = Entries(db.chunks)

\* (document_id, chunk_index) names one row: GetCreatedAt and the fusion of
\* dense and sparse hits look chunks up by that pair.
ChunkKeysUnique ==
    \A n, m \in DOMAIN db.chunks :
        /\ db.chunks[n].document_id = db.chunks[m].document_id
        /\ db.chunks[n].chunk_index = db.chunks[m].chunk_index
        => n = m

\* A caller's own writes are found: an open instance has indexed every row that
\* was committed when it was opened (by loading or by rebuilding) and every row
\* that one of its add_documents calls returned from without an exception.
ReadYourWrites ==
    \A i \in Instance : up[i] /\ i \notin garbled => owed[i] \subseteq index[i]

\* usearch refuses a key it holds already; no vector the code is about to add
\* has one, so that refusal never leaves the index short.
NoDuplicateKey ==
    \A i \in Instance :
        pc[i] = "index" /\ pending[i] # <<>> /\ i \notin garbled =>
            \A e \in index[i] : e.id # Head(pending[i]).id

\* A sidecar accepted because its count agrees is complete and right
\* (chunk_store.cpp:36-40): for a file that one engine at a time has written,
\* and every file it was made from, equal counts mean equal contents.
TrustedSidecarIsComplete ==
    [][\A i \in Instance : ~loaded[i] /\ loaded'[i] /\ i \notin garbled =>
            index'[i] = Entries(db.chunks)]_vars

\* The same of every sidecar, as the constructor has it: "the loaded graph is
\* only trusted when its vector count matches the chunk table exactly"
\* (chunk_store.cpp:37-38), and so "A stale sidecar can never cause wrong
\* results" (ADR-10).
EverySidecarTrustedIsComplete ==
    [][\A i \in Instance : ~loaded[i] /\ loaded'[i] =>
            index'[i] = Entries(db.chunks)]_vars

\* Saving to a temporary file and renaming it means that a crash in the middle
\* of a save leaves no torn file under the sidecar's name (dense_index.hpp:50-52).
CrashLeavesNoTornSidecar ==
    sidecar.writers = {} => sidecar.state \in {"absent", "whole"}

\* A call that has ended has no transaction open: SQLite's write lock is held
\* only inside add_documents (chunk_repository.hpp:36-39: "rolled back
\* atomically if anything fails partway through").
NoTransactionLeftOpen == \A i \in lock : pc[i] # "idle"

\* All stored embeddings have one size, though no table records it: an engine
\* of another dimensionality cannot open a database that holds a chunk, by the
\* sidecar or by a rebuild (chunk_store.cpp:50-51: "SQLite can always
\* reconstruct the index").
OneSizeStored ==
    \A n, m \in DOMAIN db.chunks : db.chunks[n].size = db.chunks[m].size

\* And an index holds vectors of its own dimensionality only, so that distances
\* are taken between vectors of one space.
OneSizeOnly ==
    /\ OneSizeStored
    /\ \A i \in Instance : \A e \in index[i] : e.row.size = dim[i]

\* Every constructor and every add_documents call ends, by returning or by
\* throwing, as long as its thread runs.
CallsTerminate ==
    \A i \in Instance :
        pc[i] \notin {"closed", "idle"} ~> pc[i] \in {"closed", "idle"}

-----------------------------------------------------------------------------
(* Why the index, the files and chunks_fts stay in step with `chunks`: the  *)
(* parts of the inductive invariant, all at once in StoreInvariant.          *)

\* The insert loop stands inside its batch and has a vector to look back at.
LoopInv ==
    \A i \in Instance :
        /\ pc[i] \in {"chunk", "fts"} => at[i].doc <= Len(batch[i])
        /\ pc[i] = "fts" => pending[i] # <<>>

\* At most one instance has uncommitted rows, and they extend the table.
LockInv ==
    /\ \A i, j \in lock : i = j
    /\ lock = {} => work = db
    /\ \A i \in Instance : pc[i] \in {"chunk", "fts"} => i \in lock
    /\ Entries(db.chunks) \subseteq Entries(work.chunks)

\* A pending vector belongs to a row: an uncommitted one inside the
\* transaction, a committed one after it.
PendingInv ==
    \A i \in Instance :
        IF pc[i] = "index"
        THEN \A n \in DOMAIN pending[i] : pending[i][n] \in Entries(db.chunks)
        ELSE IF pc[i] \in {"document", "chunk", "fts"} /\ i \in lock
        THEN \A n \in DOMAIN pending[i] : pending[i][n] \in Entries(work.chunks)
        ELSE pending[i] = <<>>

\* chunks_fts trails the uncommitted table by at most the row just inserted.
FtsInv ==
    /\ db.fts = Entries(db.chunks)
    /\ \A i \in lock :
        IF pc[i] = "fts"
        THEN Entries(work.chunks) = work.fts \cup {pending[i][Len(pending[i])]}
        ELSE Entries(work.chunks) = work.fts

\* What is proved inductive.
StoreInvariant ==
    /\ TypeOK /\ LoopInv /\ LockInv /\ PendingInv /\ FtsInv
    /\ IndexBackedByRows /\ SavedBackedByRows
=============================================================================
