CONSTANTS
    ChunkSize = 4
    MaxMemory = 32
    MemoryTotal = 32
    MemoryKernel = 5
    WordSize = 64
    Requests = {4, 5, 8, 9}
    Proc = {1, 2}
    PcbSize = 5
    StackSize = 8
    TextSizes = {4, 9}
    MallocSizes = {4}
    MaxMallocs = 1
SPECIFICATION ExecSpec
INVARIANTS MapExact Accounted
PROPERTIES FailsOnlyWhenFull HeapSpec
