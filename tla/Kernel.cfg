CONSTANTS
    Pcb = {idle, p1, p2}
    Idle = idle
    InitProc = p1
    NoPcb = NoPcb
    MaxPid = 4
    BufferSize = 2
    FifoDepth = 1
    Char = {z}
    CtrlZ = z
    Zero = Zero
    Counts = {1}
    WordSize = 100
    Hz = 4
    Timespecs <- MCTimespecs
    MaxTicks = 3
SPECIFICATION Spec
INVARIANTS QueueDiscipline NoLostWakeup
