CONSTANTS
    Pcb = {idle, p1, p2}
    Idle = idle
    InitProc = p1
    BufferSize = 3
    FifoDepth = 2
    Char = {a, z}
    CtrlZ = z
    Zero = Zero
    Counts = {1, 2, 3}
SPECIFICATION ConsoleSpec
PROPERTIES StreamSpec DrainIsLoop InputGetsThrough
