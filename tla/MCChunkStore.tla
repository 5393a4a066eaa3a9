---------------------------- MODULE MCChunkStore ----------------------------
(* ChunkStore for TLC, and its refinement of DocumentStore. *)
EXTENDS ChunkStore, TLC

\* Instances and document ids are interchangeable.
Symmetry == Permutations(Instance) \cup Permutations(Document)

\* The chunks of a stored document, in the order of chunk_index.
ChunksOf(d) ==
    LET rows == { n \in DOMAIN db.chunks : db.chunks[n].document_id = d }
    IN  [m \in 1..Cardinality(rows) |->
            db.chunks[CHOOSE n \in rows : db.chunks[n].chunk_index = m - 1].size]

Stage(i) ==
    IF ~up[i] \/ pc[i] = "idle" THEN "none"
    ELSE IF pc[i] \in {"begin", "document", "chunk", "fts"} THEN "called"
    ELSE "stored"

Store == INSTANCE DocumentStore WITH
    Client  <- Instance,
    Chunk   <- Dim,
    store   <- [d \in db.documents |-> ChunksOf(d)],
    stage   <- [i \in Instance |-> Stage(i)],
    request <- batch

\* add_documents stores the documents of one call all at once or not at all,
\* under every interleaving, failure and crash, and never touches a stored one:
\* the write path implements DocumentStore.
ImplementsDocumentStore == Store!Spec
=============================================================================
