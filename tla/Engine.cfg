SPECIFICATION Spec
CONSTANTS
    Thread = {t1, t2, t3}
    Model = {m1, m2, m3}
    Conn = {c1, c2}
    Slot = {s1, s2}
    Called = {"chunk_count", "has_embedding_model", "embed", "search_dense", "search_sparse", "search_hybrid", "search_memory", "search_text", "add_documents", "add_text", "load_embedding_model"}
    MaxCalls = 3
SYMMETRY Symmetry
INVARIANTS
    TypeOK
    ReadersExcludeIngest
    EmbedderOutlivesItsUse
    NothingLeaks
    ConnectionHolderFindsASlot
    HitsHaveRows
PROPERTIES
    ImplementsAtomicEngine
