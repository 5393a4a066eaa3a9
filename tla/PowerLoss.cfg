SPECIFICATION LossSpec
CONSTANTS
    Instance = {e1}
    Document = {a, b}
    Dim = {1}
    MaxBatch = 1
    MaxChunks = 1
    CommitBusy = FALSE
    MaxLosses = 1
SYMMETRY Symmetry
PROPERTIES
    TrustedSidecarIsComplete
