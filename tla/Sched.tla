------------------------------- MODULE Sched -------------------------------
(***************************************************************************)
(* The state every part of the kernel shares, and the scheduler that moves *)
(* the CPU between processes (kernel/processes/scheduler.c).               *)
(*                                                                         *)
(* The machine has one CPU, and both exception entries (swi_handler.s,     *)
(* irq_handler.s) keep interrupts masked: a system call or an interrupt    *)
(* handler runs without interruption until it calls schedule().  A process *)
(* that gave up the CPU there continues, when it is chosen again, at the   *)
(* statement after the call; pc says which one that is.                    *)
(*                                                                         *)
(* PCBs are memory: a member of Pcb is a place where a PCB can be, and is  *)
(* used again after process_destroy has freed it, for a PCB or, through    *)
(* the common allocator, for anything else.                                *)
(***************************************************************************)
EXTENDS Integers, SequencesExt

CONSTANTS
    Pcb,        \* places for process control blocks
    Idle,       \* the PCB of the idle task, pid 0
    InitProc    \* the PCB of the first user process

ASSUME SchedAssumption ==
    /\ Idle \in Pcb /\ InitProc \in Pcb /\ Idle # InitProc

VARIABLES
    procs,      \* the list that starts at proc_first, in order
    status,     \* proc->status
    pc,         \* where the process continues
    current,    \* current_process
    scheduling_enabled

schedVars == <<procs, status, pc, current, scheduling_enabled>>

(* PROCESS_STATUS_*.  POISON is the word 'VVVV' memory_free leaves behind; *)
(* TAKEN stands for whatever a new owner of the memory has there: text,    *)
(* stack, data or some other part of a PCB, any word at any time.          *)
SLEEPING == "SLEEPING"
READY    == "READY"
EXITED   == "EXITED"
POISON   == "POISON"
TAKEN    == "TAKEN"

(* Continuations: in user mode; after the schedule() of a blocking loop,   *)
(* of vfork in the parent, or of exit.                                     *)
Continuations == {"user", "waitpid", "console", "timer", "vfork", "exit"}

(* Only user mode and the idle task run with interrupts enabled. *)
UserMode(p) == current = p /\ pc[p] = "user"

(* System calls come from user processes; the idle task makes none. *)
Calling(p) == UserMode(p) /\ p # Idle

----------------------------------------------------------------------------
(* Mutation of NextProcess: the search stops before it is back at the      *)
(* process it started from.                                                *)
NextProcessShort(list, st, cur) ==
    LET n == Len(list) - 1
        k == CHOOSE i \in 1 .. Len(list) : list[i] = cur
        start == IF k = 1 THEN 2 ELSE k
        after(d) == list[2 + ((start - 2 + d) % n)]
        ready == {d \in 1 .. (n - 1) : st[after(d)] = READY}
    IN  IF n = 0 \/ ready = {} THEN list[1] ELSE after(Min(ready))

(* The process schedule() chooses: the first READY one after the current   *)
(* one, round the list without its head and back to the current one; the   *)
(* idle task, the head of the list, if none is.  From the idle task the    *)
(* round starts after the second process of the list.                      *)
NextProcess(list, st, cur) ==
    LET n == Len(list) - 1
        k == CHOOSE i \in 1 .. Len(list) : list[i] = cur
        start == IF k = 1 THEN 2 ELSE k
        after(d) == list[2 + ((start - 2 + d) % n)]
        ready == {d \in 1 .. n : st[after(d)] = READY}
    IN  IF n = 0 \/ ready = {} THEN list[1] ELSE after(Min(ready))

(* The search as the code has it: turn d of while(1) looks at the process  *)
(* at index at[d] of the list, the next one or, off the end, the second;   *)
(* it ends at one that is READY, or back at orig_proc, and then with the   *)
(* idle task.                                                              *)
SearchLoop(list, st, orig) ==
    LET at[d \in 0 .. Len(list)] ==
            IF d = 0 THEN orig
            ELSE IF at[d - 1] + 1 > Len(list) THEN 2 ELSE at[d - 1] + 1
        ends == {d \in 1 .. Len(list) : st[list[at[d]]] = READY \/ at[d] = orig}
        last == at[Min(ends)]
    IN  IF st[list[last]] = READY THEN last ELSE 1

(* The special case for the idle task, then the loop. *)
ScheduleLoop(list, st, cur) ==
    LET k == CHOOSE i \in 1 .. Len(list) : list[i] = cur
    IN  IF Len(list) = 1 THEN cur
        ELSE list[SearchLoop(list, st, IF k = 1 THEN 2 ELSE k)]

(* Mutation of Schedule: it is left out. *)
ScheduleNot == UNCHANGED current

(* schedule(), when the caller has set the list and the statuses. *)
Schedule == current' = NextProcess(procs', status', current)

(* wait_queue_wake: everyone on the queue becomes READY. *)
Woken(queue) == [p \in Pcb |-> IF p \in queue THEN READY ELSE status[p]]

(* wait_queue_add on behalf of current_process p: queued once, asleep, and *)
(* the CPU given up inside the loop that waits.  (Waitqueue.tla has the    *)
(* links; wake-ups take the whole queue, so that its order is not seen.)   *)
Block(p, loop) ==
    /\ status' = [status EXCEPT ![p] = SLEEPING]
    /\ pc' = [pc EXCEPT ![p] = loop]
    /\ UNCHANGED <<procs, scheduling_enabled>>
    /\ Schedule

(* A handled interrupt, in user mode or the idle task, ends in schedule(). *)
InterruptReturn ==
    /\ pc[current] = "user"
    /\ UNCHANGED <<procs, pc>>
    /\ IF scheduling_enabled' THEN Schedule ELSE UNCHANGED current

(* create_idle_task and start_userspace. *)
SchedInit ==
    /\ procs = <<Idle, InitProc>>
    /\ status = [p \in Pcb |-> IF p \in {Idle, InitProc} THEN READY ELSE POISON]
    /\ pc = [p \in Pcb |-> "user"]
    /\ current = InitProc
    /\ scheduling_enabled = TRUE

(* A later moment at which every PCB is in use and in user mode. *)
Populated ==
    /\ procs \in {<<Idle>> \o others : others \in SetToSeqs(Pcb \ {Idle})}
    /\ status = [p \in Pcb |-> READY]
    /\ pc = [p \in Pcb |-> "user"]
    /\ current = procs[2]
    /\ scheduling_enabled = TRUE

----------------------------------------------------------------------------
(* Types of the state the parts of the kernel share. *)
SchedTypeOK ==
    /\ procs \in Seq(Pcb)
    /\ status \in [Pcb -> {SLEEPING, READY, EXITED, POISON, TAKEN}]
    /\ pc \in [Pcb -> Continuations]
    /\ current \in Pcb
    /\ scheduling_enabled \in BOOLEAN

(* The process list: the idle task heads it and no PCB is in it twice.     *)
ListSound ==
    /\ Len(procs) >= 1 /\ procs[1] = Idle
    /\ \A i, j \in DOMAIN procs : procs[i] = procs[j] => i = j

(* The CPU is never given to a process that sleeps, has exited or has been *)
(* destroyed: current_process is on the list and READY (the idle task      *)
(* always is).  Every path that makes the current process not READY must   *)
(* reach a schedule() that finds another, and no one may destroy it.       *)
CurrentRuns == current \in ToSet(procs) /\ status[current] = READY
=============================================================================
