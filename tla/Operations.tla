----------------------------- MODULE Operations -----------------------------
(***************************************************************************)
(* The public methods of RetrievalEngine, one name for each way of using   *)
(* the parts of an engine.  search_explained does what search_hybrid does, *)
(* and search_memory_explained what search_memory does.                    *)
(***************************************************************************)

Reads == {"chunk_count", "has_embedding_model", "embed", "search_dense",
          "search_sparse", "search_hybrid", "search_memory", "search_text"}

Writes == {"add_documents", "add_text", "load_embedding_model"}

Operation == Reads \cup Writes

\* What an answer is made of: the rows of the tables, the vectors of the index,
\* the attached model.
Part == {"rows", "vectors", "model"}

Parts == [o \in Operation |->
    CASE o = "chunk_count"         -> {"rows"}
      [] o = "search_sparse"       -> {"rows"}
      [] o = "search_dense"        -> {"vectors"}
      [] o = "search_hybrid"       -> {"rows", "vectors"}
      [] o = "search_memory"       -> {"rows", "vectors"}
      [] o = "search_text"         -> {"rows", "vectors", "model"}
      [] o = "embed"               -> {"model"}
      [] o = "has_embedding_model" -> {"model"}
      [] OTHER                     -> {}]

\* Methods that go through require_embedder().
RawText == {"embed", "search_text", "add_text"}

NoAnswer == [p \in Part |-> {}]
=============================================================================
