SPECIFICATION CommandSpec
CONSTANTS
    Char <- MCChar
    Space = {" "}
    Alone <- MCAlone
    Quote <- MCQuote
    Lower <- MCLower
    Bytes <- MCBytes
    Or <- MCOr
    Nul = "0"
    SizeMod = 32
    Vocab <- MCVocab
    MaxTokens = 5
    MaxCharsPerWord = 5
    Cores = {0, 1, 2}
    FirstCapacity = 4
    Folder <- MCFolder
    FilesIn <- MCFilesIn
    Query <- MCQuery
    Model <- MCModel
    ModelDim = {1, 2}
    WithOnnx = TRUE
    DefaultDim = 1
    ChunkWindow = 3
    ChunkOverlap = 1
    Sizes = {0, 1, 2, 3, 31}
INVARIANTS
    WindowsCover
    EncodingReadsTheText
    UsearchPreconditions
    QueryMeansItsWords
PROPERTIES
    IngestAllOrNothing
    CommandsEnd
