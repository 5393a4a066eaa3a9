SPECIFICATION FairSpec
CONSTANTS
    Instance = {e1, e2}
    Document = {a}
    Dim = {1}
    MaxBatch = 1
    MaxChunks = 1
    CommitBusy = TRUE
PROPERTIES
    CallsTerminate
