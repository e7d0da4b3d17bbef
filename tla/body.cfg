CONSTANTS
    U64Max = 7
    Lengths <- MCLengths
    Sizes = {1, 2}
    MaxChunks = 3
SPECIFICATION FairSpec
CHECK_DEADLOCK FALSE
INVARIANTS LengthTrue
PROPERTIES Implements SenderWoken BodyArrives
