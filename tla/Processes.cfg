CONSTANTS
    Pcb = {idle, p1, p2, p3}
    Idle = idle
    InitProc = p1
    NoPcb = NoPcb
    MaxPid = 5
SPECIFICATION ProcSpec
INVARIANTS ListByPid CurrentRuns DestroyedOnce ChoiceIsLoop
PROPERTIES ReadyRuns ZombieReaped
