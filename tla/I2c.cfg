CONSTANTS
    Client = {a, b}
    Regs = {0, 6}
    Counts = {2, 3, 5}
    RegSize = 8
    FifoSize = 2
    DlenSize = 4
    Config = 3
    Other = 8
    Nobody = Nobody
SPECIFICATION Spec
INVARIANTS RegistersRead
PROPERTIES TransfersEnd
