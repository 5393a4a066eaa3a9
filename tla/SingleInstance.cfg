SPECIFICATION Spec
CONSTANTS
    Instance = {e1}
    Document = {a, b}
    Dim = {1, 2}
    MaxBatch = 2
    MaxChunks = 2
    CommitBusy = FALSE
SYMMETRY Symmetry
INVARIANTS
    TypeOK
    FtsInStep
    ChunkKeysUnique
    NoDuplicateKey
    CrashLeavesNoTornSidecar
    NoTransactionLeftOpen
    OneSizeOnly
PROPERTIES
    ImplementsDocumentStore
