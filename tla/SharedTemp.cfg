SPECIFICATION Spec
CONSTANTS
    Instance = {e1, e2}
    Document = {a, b}
    Dim = {1}
    MaxBatch = 1
    MaxChunks = 1
    CommitBusy = FALSE
SYMMETRY Symmetry
PROPERTIES
    EverySidecarTrustedIsComplete
