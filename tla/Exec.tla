-------------------------------- MODULE Exec --------------------------------
(***************************************************************************)
(* The memory of processes: what process_create, execve (exec.c),          *)
(* process_destroy (process.c) and the MALLOC system call do with the      *)
(* allocator of Memory.tla.                                                *)
(*                                                                         *)
(* The calls run with interrupts masked, one after the other.  Those that  *)
(* allocate or free several areas take a step for each, and `call' holds   *)
(* what is still to be done.                                               *)
(***************************************************************************)
EXTENDS Memory, Sequences

CONSTANTS
    Proc,           \* places in the list of processes
    PcbSize,        \* sizeof(struct process_control_block_type)
    StackSize,      \* DEFAULT_USER_STACK_SIZE
    TextSizes,      \* sizes of executables, which are not empty
    MallocSizes,    \* arguments of MALLOC
    MaxMallocs      \* bound: calls of MALLOC

ASSUME ExecAssumption ==
    /\ Requests = {PcbSize, StackSize} \cup TextSizes \cup MallocSizes
    /\ 0 \notin Requests
    /\ MaxMallocs \in Nat

VARIABLES
    pcb,        \* the PCB of each process, if there is one
    text,       \* proc->text, proc->textsize
    stack,      \* proc->stack, proc->stacksize
    call,       \* rest of the call in progress
    lost,       \* areas that the kernel has no pointer to, ghost
    mallocs     \* calls of MALLOC, for the bound

procVars == <<pcb, text, stack, call, lost, mallocs>>
execVars == <<vars, procVars>>

None == [first |-> NULL, size |-> 0]

(* What memory_allocate returns, to the caller. *)
Area(first, size) == IF first = NULL THEN None ELSE [first |-> first, size |-> size]

Nothing == [binary |-> None, free |-> <<>>, proc |-> NULL]

Ready == call = Nothing

Exists(p) == pcb[p] # None

----------------------------------------------------------------------------
(* process_create, for the idle task, init and vfork, which leaves the     *)
(* child without text and stack.  Without memory nothing changes.          *)
process_create(p) ==
    /\ Ready /\ ~ Exists(p)
    /\ memory_allocate(PcbSize)
    /\ pcb' = [pcb EXCEPT ![p] = Area(result', PcbSize)]
    /\ UNCHANGED <<text, stack, call, lost, mallocs>>

(* execve: binary_start ... *)
LoadText(p) ==
    /\ Ready /\ Exists(p)
    /\ \E size \in TextSizes :
        /\ memory_allocate(size)
        /\ call' = [Nothing EXCEPT !.proc = p, !.binary = Area(result', size)]
    /\ UNCHANGED <<pcb, text, stack, lost, mallocs>>

(* ... and stack_page.  If one of them is NULL nobody frees the other; if  *)
(* not, nobody frees what the process had before.                          *)
LoadStack ==
    LET p == call.proc
        stack_page == Area(result', StackSize)
    IN  /\ p \in Proc /\ call.free = <<>>
        /\ memory_allocate(StackSize)
        /\ IF call.binary = None \/ stack_page = None
           THEN /\ lost' = (lost \cup {call.binary, stack_page}) \ {None}
                /\ UNCHANGED <<text, stack>>
           ELSE /\ lost' = (lost \cup {text[p], stack[p]}) \ {None}
                /\ text' = [text EXCEPT ![p] = call.binary]
                /\ stack' = [stack EXCEPT ![p] = stack_page]
        /\ call' = Nothing
        /\ UNCHANGED <<pcb, mallocs>>

(* An area, if the pointer is not NULL. *)
IfAny(a) == IF a = None THEN <<>> ELSE <<a>>

(* Mutation of OfProcess: text is taken for part of the PCB. *)
OfProcessLess(p) == IfAny(stack[p]) \o <<pcb[p]>>

(* What process_destroy frees, in this order: the stack and the text if    *)
(* the process has them, and its PCB.                                      *)
OfProcess(p) == IfAny(stack[p]) \o IfAny(text[p]) \o <<pcb[p]>>

(* process_destroy: the process is off the list, ... *)
process_destroy(p) ==
    /\ Ready /\ Exists(p)
    /\ call' = [Nothing EXCEPT !.proc = p, !.free = OfProcess(p)]
    /\ pcb' = [pcb EXCEPT ![p] = None]
    /\ text' = [text EXCEPT ![p] = None]
    /\ stack' = [stack EXCEPT ![p] = None]
    /\ UNCHANGED <<vars, lost, mallocs>>

(* ... then its areas are freed. *)
FreeNext ==
    /\ call.free # <<>>
    /\ memory_free(Head(call.free))
    /\ call' = IF Len(call.free) = 1 THEN Nothing ELSE [call EXCEPT !.free = Tail(@)]
    /\ UNCHANGED <<pcb, text, stack, lost, mallocs>>

(* SYSCALL_MALLOC: there is no call to give the memory back. *)
Malloc ==
    /\ Ready /\ mallocs < MaxMallocs
    /\ \E size \in MallocSizes :
        /\ memory_allocate(size)
        /\ lost' = (lost \cup {Area(result', size)}) \ {None}
    /\ mallocs' = mallocs + 1
    /\ UNCHANGED <<pcb, text, stack, call>>

----------------------------------------------------------------------------
ExecInit ==
    /\ memory_init
    /\ pcb = [p \in Proc |-> None]
    /\ text = [p \in Proc |-> None]
    /\ stack = [p \in Proc |-> None]
    /\ call = Nothing
    /\ lost = {}
    /\ mallocs = 0

ExecNext ==
    \/ \E p \in Proc : process_create(p) \/ LoadText(p) \/ process_destroy(p)
    \/ LoadStack \/ FreeNext \/ Malloc

ExecSpec == ExecInit /\ [][ExecNext]_execVars

----------------------------------------------------------------------------
(* The pointers of the kernel, each with whom it belongs to. *)
Pointers ==
    {<<"pcb", p, pcb[p]>> : p \in Proc} \cup {<<"text", p, text[p]>> : p \in Proc}
      \cup {<<"stack", p, stack[p]>> : p \in Proc} \cup {<<"call", call.proc, call.binary>>}
      \cup {<<"free", k, call.free[k]>> : k \in DOMAIN call.free}

Held == {x \in Pointers : x[3] # None}

(* All memory is accounted for: what is allocated is what a process has,   *)
(* what the call in progress has in hand, and what was lost in the three   *)
(* places where the code lets go of memory (a failing execve, the program  *)
(* an execve replaces, MALLOC).  No area belongs to two, so that none is   *)
(* freed twice or while in use, and process_destroy leaves nothing behind. *)
Accounted ==
    /\ areas = {x[3] : x \in Held} \cup lost
    /\ \A x, y \in Held : x[3] = y[3] => x = y
    /\ \A x \in Held : x[3] \notin lost
=============================================================================
