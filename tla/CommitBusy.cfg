SPECIFICATION Spec
CONSTANTS
    Instance = {e1}
    Document = {a}
    Dim = {1}
    MaxBatch = 1
    MaxChunks = 1
    CommitBusy = TRUE
INVARIANTS
    NoTransactionLeftOpen
