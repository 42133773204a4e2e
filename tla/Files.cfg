CONSTANTS
    Image <- MCImage
    Length <- MCLength
    ImageLength = 48
    Align = 2
    BlockSize = 8
    Chunk = 2
    IntSize = 2
    WordSize = 64
    Proc = {p1, p2}
    MaxFd = 4
    StdFds = 2
    Paths <- MCPaths
    Counts = {0, 1, 2, 63}
    Sizes = {7, 20, 42, 50, 63}
    Unknown = Unknown
    LsSize = 20
    CatSize = 2
    LineSize = 10
    Forever = Forever
    Unset = Unset
SPECIFICATION Spec
INVARIANTS ReadsInOrder ListingComplete PathsResolve ListingIsLoop ProgramsTellTruth
