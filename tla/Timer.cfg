CONSTANTS
    Pcb = {idle, p1, p2, p3}
    Idle = idle
    InitProc = p1
    WordSize = 100
    Hz = 4
    Timespecs <- MCTimespecs
    MaxTicks = 6
SPECIFICATION TimerSpec
INVARIANTS EnoughTicks
PROPERTIES SleepersReturn
