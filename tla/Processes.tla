----------------------------- MODULE Processes -----------------------------
(***************************************************************************)
(* Process life cycle: process_create and process_destroy (process.c),     *)
(* vfork, execve, exit and waitpid.  A user process may make any of these  *)
(* calls in any order; what the kernel does not forbid, happens here.      *)
(***************************************************************************)
EXTENDS Sched

CONSTANTS
    NoPcb,      \* the NULL pointer
    MaxPid      \* bound: pids handed out before the model stops creating

ASSUME ProcessesAssumption == NoPcb \notin Pcb /\ MaxPid \in Nat /\ MaxPid >= 2

VARIABLES
    pid,            \* proc->pid
    parent,         \* proc->parent, a pointer that may outlive its target
    own_image,      \* proc->stack and proc->text are not NULL
    target,         \* `proc' of the waitpid call the process is in
    waitpid_queue,  \* processes on waitpid_wait_queue
    avail_pid,      \* next pid
    double_free,    \* process_destroy was called on a PCB already freed
    contended       \* ghost: a process was reaped while another waited for it

procVars == <<pid, parent, own_image, target, waitpid_queue, avail_pid, double_free, contended>>

Live == ToSet(procs)

(* The word a waiter finds through its pointer.  A NULL pointer reads a    *)
(* word of low memory, which holds no process status.                      *)
StatusAt(t) == IF t = NoPcb THEN POISON ELSE status[t]

(* proc->status==PROCESS_STATUS_EXITED may be true: other data can be the  *)
(* same word.  It may be false unless the word is EXITED.                  *)
MayReadExited(t) == StatusAt(t) \in {EXITED, TAKEN}

(* Places memory_allocate can give a PCB. *)
Free == {c \in Pcb \ Live : status[c] # TAKEN}

(* memory_allocate for another use, or for a PCB across two places: any of *)
(* the free places may be among the chunks it marks as used.               *)
Taken(st, places) ==
    {[q \in Pcb |-> IF q \in taken THEN TAKEN ELSE st[q]] : taken \in SUBSET places}

(* memory_free of an area: any of the places taken may have been in it. *)
GivenBack(st) ==
    {[q \in Pcb |-> IF q \in back THEN POISON ELSE st[q]] :
        back \in SUBSET {q \in Pcb : st[q] = TAKEN}}

----------------------------------------------------------------------------
(* Mutation of process_insert: at the front, after the idle task. *)
InsertFirst(c) == <<Idle, c>> \o Tail(procs)

(* process_insert: at the end of the list. *)
process_insert(c) == Append(procs, c)

(* avail_pid++ in process_create *)
NextPid == avail_pid + 1

(* Mutation of VforkStatus: the parent does not sleep. *)
VforkStatusAwake(p, c) == [status EXCEPT ![c] = READY]

(* put parent to sleep, wake child *)
VforkStatus(p, c) == [status EXCEPT ![p] = SLEEPING, ![c] = READY]

(* vfork: a PCB at any free place, appended to the list; the child's PCB   *)
(* is a copy of the parent's with its own pid and no stack or text; the    *)
(* parent sleeps, on no queue.  With no memory for a PCB, vfork returns -1 *)
(* and nothing changes.                                                    *)
Vfork(p) ==
    /\ Calling(p)
    /\ avail_pid < MaxPid
    /\ \E c \in Free :
        /\ procs' = process_insert(c)
        /\ status' \in Taken(VforkStatus(p, c), Free \ {c})
        /\ pc' = [pc EXCEPT ![p] = "vfork", ![c] = "user"]
        /\ pid' = [pid EXCEPT ![c] = avail_pid]
        /\ parent' = [parent EXCEPT ![c] = p]
        /\ own_image' = [own_image EXCEPT ![c] = FALSE]
    /\ avail_pid' = NextPid
    /\ Schedule
    /\ UNCHANGED <<scheduling_enabled, target, waitpid_queue, double_free, contended>>

(* current_process->parent->status=PROCESS_STATUS_READY; where the parent  *)
(* has been freed and the memory taken, this is one more word of its data. *)
ParentWoken(p) == [status EXCEPT ![parent[p]] = IF @ = TAKEN THEN TAKEN ELSE READY]

(* SYSCALL_EXECVE: memory is taken for the image, which is loaded or not   *)
(* (no such file, no memory for all of it); then, in either case, the      *)
(* parent is made READY and schedule() is called.                          *)
Execve(p) ==
    /\ Calling(p)
    /\ \E loaded \in BOOLEAN :
        own_image' = [own_image EXCEPT ![p] = @ \/ loaded]
    /\ status' \in Taken(ParentWoken(p), Free)
    /\ UNCHANGED <<procs, pc, scheduling_enabled, pid, parent, target,
                   waitpid_queue, avail_pid, double_free, contended>>
    /\ Schedule

(* SYSCALL_MALLOC: memory that is never freed. *)
Malloc(p) ==
    /\ Calling(p)
    /\ status' \in Taken(status, Free)
    /\ UNCHANGED <<procs, pc, current, scheduling_enabled>>
    /\ UNCHANGED procVars

(* Mutation of ExitedAndWoken: waitpid_done is left out. *)
ExitedOnly(p) == [status EXCEPT ![p] = EXITED]

(* exit sets its own status, then waitpid_done wakes the queue. *)
ExitedAndWoken(p) ==
    [q \in Pcb |-> CASE q \in waitpid_queue -> READY
                     [] q = p /\ q \notin waitpid_queue -> EXITED
                     [] OTHER -> status[q]]

(* exit: EXITED, everyone in waitpid woken to look again, schedule(). *)
Exit(p) ==
    /\ Calling(p)
    /\ status' = ExitedAndWoken(p)
    /\ waitpid_queue' = {}
    /\ pc' = [pc EXCEPT ![p] = "exit"]
    /\ UNCHANGED <<procs, scheduling_enabled, pid, parent, own_image, target,
                   avail_pid, double_free, contended>>
    /\ Schedule

----------------------------------------------------------------------------
(* Mutation of Freed: the memory keeps its contents. *)
Unpoisoned(t) == status

(* memory_free fills the PCB with 'V'. *)
Freed(t) == [status EXCEPT ![t] = POISON]

(* process_destroy: off the list, then stack, text and the PCB are freed.  *)
(* A PCB that is not on the list has been freed before: its links and      *)
(* pointers are other data, which process_remove and memory_free follow;   *)
(* anything may happen then, and the model ends.                           *)
process_destroy(t) ==
    /\ \/ /\ t \in Live
          /\ procs' = RemoveFirst(procs, t)
          /\ status' \in GivenBack(Freed(t))
          /\ UNCHANGED double_free
       \/ /\ t \notin Live
          /\ double_free' = TRUE
          /\ UNCHANGED <<procs, status>>
    /\ contended' = (contended \/ \E q \in Live \ {current} :
                                      pc[q] = "waitpid" /\ target[q] = t)

(* One turn of the loop of a blocking waitpid on t: the zombie is reaped,  *)
(* or the caller sleeps until some process exits.                          *)
WaitLoop(p, t) ==
    \/ /\ MayReadExited(t)
       /\ process_destroy(t)
       /\ pc' = [pc EXCEPT ![p] = "user"]
       /\ target' = [target EXCEPT ![p] = NoPcb]
       /\ UNCHANGED <<current, scheduling_enabled, waitpid_queue>>
    \/ /\ StatusAt(t) # EXITED
       /\ target' = [target EXCEPT ![p] = t]
       /\ waitpid_queue' = waitpid_queue \cup {p}
       /\ Block(p, "waitpid")
       /\ UNCHANGED <<double_free, contended>>

(* process_lookup_child: the first process of the list with this parent. *)
ChildrenOf(p) == {i \in DOMAIN procs : procs[i] # p /\ parent[procs[i]] = p}

(* The process a pid argument denotes: the eldest child for -1, and any    *)
(* process, or NULL, for a positive pid.  -1 without children is -ECHILD.  *)
Waitable(p) ==
    Live \cup {NoPcb} \cup (IF ChildrenOf(p) = {} THEN {} ELSE {procs[Min(ChildrenOf(p))]})

(* waitpid that blocks, up to its first schedule(). *)
Waitpid(p) ==
    /\ Calling(p)
    /\ \E t \in Waitable(p) : WaitLoop(p, t)
    /\ UNCHANGED <<pid, parent, own_image, avail_pid>>

(* waitpid(..., WNOHANG): reap the process if it has exited.  Otherwise it *)
(* returns 0, which changes nothing.                                       *)
WaitpidNoHang(p) ==
    /\ Calling(p)
    /\ \E t \in Waitable(p) :
        /\ MayReadExited(t)
        /\ process_destroy(t)
    /\ UNCHANGED <<pc, current, scheduling_enabled, pid, parent, own_image, target,
                   waitpid_queue, avail_pid>>

----------------------------------------------------------------------------
(* Mutation of WaitpidResume: `if' for `while', any wake-up is believed. *)
WaitpidResumeAny(p) ==
    /\ current = p /\ pc[p] = "waitpid"
    /\ pc' = [pc EXCEPT ![p] = "user"]
    /\ UNCHANGED <<procs, status, current, scheduling_enabled>>
    /\ UNCHANGED procVars

(* The CPU comes back to a process inside the kernel. *)
WaitpidResume(p) ==
    /\ current = p /\ pc[p] = "waitpid"
    /\ WaitLoop(p, target[p])
    /\ UNCHANGED <<pid, parent, own_image, avail_pid>>

(* The parent returns from vfork with the child's pid; a process whose     *)
(* exit() comes back returns to user mode.                                 *)
ReturnToUser(p) ==
    /\ current = p /\ pc[p] \in {"vfork", "exit"}
    /\ pc' = [pc EXCEPT ![p] = "user"]
    /\ UNCHANGED <<procs, status, current, scheduling_enabled>>
    /\ UNCHANGED procVars

(* Any interrupt. *)
Interrupt ==
    /\ ~ double_free
    /\ UNCHANGED <<status, scheduling_enabled>>
    /\ InterruptReturn
    /\ UNCHANGED procVars

----------------------------------------------------------------------------
ProcInit ==
    /\ SchedInit
    /\ pid = [p \in Pcb |-> IF p = InitProc THEN 1 ELSE 0]
    /\ parent = [p \in Pcb |-> IF p = InitProc THEN InitProc ELSE NoPcb]
    /\ own_image = [p \in Pcb |-> p \in {Idle, InitProc}]
    /\ target = [p \in Pcb |-> NoPcb]
    /\ waitpid_queue = {}
    /\ avail_pid = 2
    /\ double_free = FALSE
    /\ contended = FALSE

ProcSyscall(p) ==
    /\ ~ double_free
    /\ \/ Vfork(p) \/ Execve(p) \/ Malloc(p) \/ Exit(p) \/ Waitpid(p) \/ WaitpidNoHang(p)

ProcResume(p) == ~ double_free /\ (WaitpidResume(p) \/ ReturnToUser(p))

allProcVars == <<schedVars, procVars>>

(* A PCB was destroyed twice: where the model ends. *)
Ended == double_free /\ UNCHANGED allProcVars

ProcNext == Interrupt \/ Ended \/ \E p \in Pcb : ProcSyscall(p) \/ ProcResume(p)

(* The kernel's own steps do not stop, and the timer keeps interrupting    *)
(* user mode; user processes may compute for ever.                         *)
ProcFairness ==
    /\ WF_allProcVars(Interrupt)
    /\ \A p \in Pcb : WF_allProcVars(ProcResume(p))

ProcSpec == ProcInit /\ [][ProcNext]_allProcVars /\ ProcFairness

----------------------------------------------------------------------------
(* Types of the state; no pid is ever negative. *)
ProcTypeOK ==
    /\ SchedTypeOK
    /\ pid \in [Pcb -> Nat]
    /\ parent \in [Pcb -> Pcb \cup {NoPcb}]
    /\ own_image \in [Pcb -> BOOLEAN]
    /\ target \in [Pcb -> Pcb \cup {NoPcb}]
    /\ waitpid_queue \subseteq Pcb
    /\ avail_pid \in Nat
    /\ double_free \in BOOLEAN
    /\ contended \in BOOLEAN

(* The state has its types, and the list is in the order of creation, so   *)
(* that a pid is found once and "the first child" is the eldest; no pid is *)
(* on it twice, and avail_pid is not either, whichever processes come and  *)
(* go.                                                                     *)
ListByPid ==
    /\ ProcTypeOK
    /\ ListSound
    /\ \A i, j \in DOMAIN procs : i < j => pid[procs[i]] < pid[procs[j]]
    /\ \A i \in DOMAIN procs : pid[procs[i]] < avail_pid

(* No exit is missed: nobody sleeps in waitpid for a process that has      *)
(* already exited.                                                         *)
NoMissedExit ==
    \A p \in Pcb : (pc[p] = "waitpid" /\ status[p] = SLEEPING)
                       => p \in waitpid_queue /\ StatusAt(target[p]) # EXITED

(* Any process may wait for any pid, through a pointer that outlives the   *)
(* PCB.  A process is destroyed a second time only if it was reaped while  *)
(* another process was waiting for it, and its memory has got a new owner  *)
(* since: until then the poison keeps the second one to look from finding  *)
(* it EXITED.  (That the code can do it then is seen in this model; that   *)
(* shells, who wait for their own children, never do, in Shell.)           *)
DestroyedOnce == double_free => contended /\ \E t \in Pcb \ Live : status[t] = TAKEN

(* The rotation of schedule() is computed right: for every process of the  *)
(* list that might be running, READY or not, the loop of the code and      *)
(* NextProcess choose the same process.                                    *)
ChoiceIsLoop ==
    \A p \in Live : NextProcess(procs, status, p) = ScheduleLoop(procs, status, p)

(* Round robin: a READY process gets the CPU, whatever the others do (the  *)
(* idle task only when nobody is READY).                                   *)
ReadyRuns ==
    \A p \in Pcb \ {Idle} :
        (p \in Live /\ status[p] = READY)
            ~> (current = p \/ status[p] # READY \/ double_free)

(* A zombie somebody waits for is reaped (or revived by Execve).           *)
ZombieReaped ==
    \A t \in Pcb \ {Idle} :
        (status[t] = EXITED /\ \E p \in Pcb : pc[p] = "waitpid" /\ target[p] = t)
            ~> (status[t] # EXITED \/ double_free)

(* A vforked child that has no image of its own runs on its parent's       *)
(* stack, so the parent does not run meanwhile.  An execve that fails      *)
(* breaks this, for it wakes the parent all the same and returns to the    *)
(* child: Shell has the property up to there (StackExclusive).             *)
SharedStackExclusive ==
    \A c \in Live : (~ own_image[c] /\ status[c] = READY /\ parent[c] \in Live)
                        => status[parent[c]] # READY
=============================================================================
