SPECIFICATION Spec
CONSTANTS
    COMMAS <- MCCommas
    Fields <- MCFields
    Noise <- MCNoise
    MAX_FRAME = 10
    MaxChunk = 3
    MAX_RATE = 2
    MAX_ERRORS = 2
    MaxPieces = 3
INVARIANTS
    SentIsReceived
    ChunksDoNotMatter
    BufferBounded
CHECK_DEADLOCK FALSE
