SPECIFICATION Spec
CONSTANTS
    Chunk <- MCChunk
    MaxK = 3
    SparseCap = 2
    Now = 5
    Created <- MCCreated
    Span = 16
    Lambda <- MCLambda
    Infinity = Infinity
    MinusInfinity = MinusInfinity
    NaN = NaN
    Exponent <- MCExponent
    Exp <- MCExp
    MaxFinite = 20000
INVARIANTS
    TypeOK
    StrictlyRanked
    NoBetterLeftOut
    MemoryPermutesHybrid
    ZeroLambdaIsHybrid
    DecayOnlyDiscounts
    DecayKeepsDominance
