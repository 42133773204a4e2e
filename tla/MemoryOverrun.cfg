CONSTANTS
    ChunkSize = 4
    MaxMemory = 32
    MemoryTotal = 32
    MemoryKernel = 5
    WordSize = 64
    Requests = {1, 4, 5, 12}
SPECIFICATION Spec
INVARIANTS AreasInMemory
