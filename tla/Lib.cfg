CONSTANTS
    WordSize = 256
    PrintSize = 12
    Diverges = Diverges
    StackSize = 64
    PointerSize = 2
    NullLength = 5
    Cases = 6561
    MaxFill = 200
    MaxText = 4
    MaxWidth = 5
    MaxSize = 9
    Trees = 1920
    ByteSize = 8
    Magic = 3000
    Name <- MCName
    MaxString = 20
    TooSmall = 16
    Fallback = 256
SPECIFICATION Spec
INVARIANTS MemsetExact StringsExact NumbersReadBack DivisionExact DatesExact
           ArgumentsArrive PassesAgree ImageHoldsTree DeviceTreeRead
