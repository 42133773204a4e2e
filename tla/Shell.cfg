CONSTANTS
    Pcb = {idle, p1, p2, p3}
    Idle = idle
    InitProc = p1
    NoPcb = NoPcb
    MaxPid = 5
SPECIFICATION Spec
CHECK_DEADLOCK FALSE
INVARIANTS ForegroundFirst StackExclusive
PROPERTIES FinishedReported
