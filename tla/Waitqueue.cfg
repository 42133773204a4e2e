CONSTANTS
    Proc = {p1, p2, p3, p4}
    Queue = {waitpid, console}
    Null = Null
SPECIFICATION Spec
PROPERTIES WaitSetSpec
CHECK_DEADLOCK FALSE
