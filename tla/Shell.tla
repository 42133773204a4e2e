------------------------------- MODULE Shell -------------------------------
(***************************************************************************)
(* The shell, userspace/shell.c, and the programs it starts, on the        *)
(* process calls of the kernel.  A shell may be started from a shell.      *)
(*                                                                         *)
(* at is where a process is in its program: in the shell at the prompt     *)
(* ("line"), before vfork, in the child before execve, in waitpid for its  *)
(* job, at the waitpid(-1, WNOHANG) after a line, or at the end; "program" *)
(* is any other program, which computes, may take memory, and then exits.  *)
(***************************************************************************)
EXTENDS Processes

VARIABLES
    at,             \* control point
    background,     \* background, while it is in scope
    done,           \* done
    job,            \* the process waitpid(pid) is for, or AnyChild for a pid of -1
    tangled,        \* two shells run on one stack
    started         \* ghost: [shell, child, background] by pid, of each vfork

shellVars == <<at, background, done, job, tangled, started>>
vars == <<allProcVars, shellVars>>

AnyChild == Idle    \* pid -1 given to waitpid: the idle task is nobody's job

At(p, point) == Calling(p) /\ at[p] = point /\ ~ tangled

(* A call of waitpid goes on or ends. *)
InWait(p) ==
    /\ at' = [at EXCEPT ![p] = IF pc'[p] = "user" THEN "reap" ELSE "wait"]
    /\ job' = [job EXCEPT ![p] = IF pc'[p] = "user" THEN NoPcb ELSE @]
    /\ UNCHANGED <<done, background, tangled, started>>

----------------------------------------------------------------------------
(* A line is read and handled up to its vfork: built in or empty or not    *)
(* found, exit or control-D, or a program, with or without &.              *)
Line(p) ==
    /\ At(p, "line")
    /\ \/ /\ at' = [at EXCEPT ![p] = "reap"]
          /\ done' \in {done, [done EXCEPT ![p] = TRUE]}
          /\ UNCHANGED background
       \/ /\ at' = [at EXCEPT ![p] = "vfork"]
          /\ background' \in {[background EXCEPT ![p] = b] : b \in BOOLEAN}
          /\ UNCHANGED done
    /\ UNCHANGED <<allProcVars, job, tangled, started>>

(* After vfork, in the parent. *)
AfterVfork(p) == IF background[p] THEN "reap" ELSE "wait"

(* pid=vfork(): the child is where the parent is, and pid is 0.            *)
Fork(p) ==
    /\ At(p, "vfork")
    /\ Vfork(p)
    /\ LET c == Last(procs')
       IN  /\ at' = [at EXCEPT ![p] = AfterVfork(p), ![c] = "exec"]
           /\ job' = [job EXCEPT ![p] = IF background[p] THEN NoPcb ELSE c]
           /\ done' = [done EXCEPT ![c] = done[p]]
           /\ background' = [background EXCEPT ![p] = FALSE, ![c] = FALSE]
           /\ started' = started \cup
                {[shell |-> pid[p], child |-> pid'[c], background |-> background[p]]}
    /\ UNCHANGED tangled

(* vfork finds no memory: -1 is not 0, so the shell waits for a child -1. *)
ForkFails(p) ==
    /\ At(p, "vfork")
    /\ Free = {}
    /\ at' = [at EXCEPT ![p] = AfterVfork(p)]
    /\ job' = [job EXCEPT ![p] = IF background[p] THEN NoPcb ELSE AnyChild]
    /\ background' = [background EXCEPT ![p] = FALSE]
    /\ UNCHANGED <<allProcVars, done, tangled, started>>

(* execve in the child: a shell or another program starts.  If it fails    *)
(* the child goes on as a second shell, on the stack of the first, which   *)
(* has been woken; what the two make of their variables and return         *)
(* addresses from there on could be anything, and the model ends.          *)
Exec(c) ==
    /\ At(c, "exec")
    /\ Execve(c)
    /\ \/ /\ own_image'[c]
          /\ at' \in {[at EXCEPT ![c] = first] : first \in {"line", "program"}}
          /\ done' = [done EXCEPT ![c] = FALSE]
          /\ UNCHANGED tangled
       \/ /\ ~ own_image'[c]
          /\ at' = [at EXCEPT ![c] = "reap"]
          /\ tangled' = TRUE
          /\ UNCHANGED done
    /\ UNCHANGED <<background, job, started>>

(* Mutation of EldestChild: the youngest. *)
YoungestChild(p) == procs[Max(ChildrenOf(p))]

(* process_lookup_child *)
EldestChild(p) == procs[Min(ChildrenOf(p))]

(* The process waitpid(pid, ...) waits for. *)
JobOf(p) == IF job[p] = AnyChild THEN EldestChild(p) ELSE job[p]

(* waitpid(pid, &status, 0); -ECHILD for a pid of -1 without children. *)
Wait(p) ==
    /\ At(p, "wait")
    /\ IF job[p] = AnyChild /\ ChildrenOf(p) = {}
       THEN UNCHANGED allProcVars
       ELSE /\ WaitLoop(p, JobOf(p))
            /\ UNCHANGED <<pid, parent, own_image, avail_pid>>
    /\ InWait(p)

(* The loop of waitpid goes on, and ends like the call. *)
WaitResumes(p) ==
    /\ WaitpidResume(p)
    /\ InWait(p)

AfterReap(p) == IF done[p] THEN "exit" ELSE "line"

(* waitpid(-1, &status, WNOHANG): the eldest child, if it has exited. *)
Reap(p) ==
    /\ At(p, "reap")
    /\ IF ChildrenOf(p) # {} /\ StatusAt(EldestChild(p)) = EXITED
       THEN /\ process_destroy(EldestChild(p))
            /\ UNCHANGED <<pc, current, scheduling_enabled, pid, parent, own_image,
                           target, waitpid_queue, avail_pid>>
       ELSE UNCHANGED allProcVars
    /\ at' = [at EXCEPT ![p] = AfterReap(p)]
    /\ UNCHANGED <<background, done, job, tangled, started>>

(* main returns, or another program is finished. *)
Leave(p) ==
    /\ At(p, "exit") \/ At(p, "program")
    /\ Exit(p)
    /\ at' = [at EXCEPT ![p] = "program"]
    /\ done' = [done EXCEPT ![p] = FALSE]
    /\ UNCHANGED <<background, job, tangled, started>>

(* Another program takes memory for itself. *)
TakeMemory(p) == At(p, "program") /\ Malloc(p) /\ UNCHANGED shellVars

(* Back in user mode. *)
Return(p) == ReturnToUser(p) /\ UNCHANGED shellVars

Tick == Interrupt /\ UNCHANGED shellVars

----------------------------------------------------------------------------
Init ==
    /\ ProcInit
    /\ at = [p \in Pcb |-> IF p = InitProc THEN "line" ELSE "program"]
    /\ background = [p \in Pcb |-> FALSE]
    /\ done = [p \in Pcb |-> FALSE]
    /\ job = [p \in Pcb |-> NoPcb]
    /\ tangled = FALSE
    /\ started = {}

(* What a shell does without being asked. *)
ShellStep(p) == Fork(p) \/ ForkFails(p) \/ Exec(p) \/ Wait(p) \/ Reap(p)

Next ==
    \/ Tick
    \/ \E p \in Pcb :
        \/ ShellStep(p) \/ Line(p) \/ TakeMemory(p) \/ Leave(p)
        \/ WaitResumes(p) \/ Return(p)

(* The kernel's steps do not stop, the timer keeps interrupting, and a     *)
(* shell that is given the CPU again and again gets on with what it does.  *)
(* Nothing makes the user type, or a program exit.                         *)
Fairness ==
    /\ WF_vars(Tick)
    /\ \A p \in Pcb : WF_vars(WaitResumes(p) \/ Return(p)) /\ SF_vars(ShellStep(p))

Spec == Init /\ [][Next]_vars /\ Fairness

----------------------------------------------------------------------------
StartedBy(p, child) == {s \in started : s.shell = pid[p] /\ s.child = child}

Prompting(p) == p \in Live /\ at[p] = "line" /\ status[p] # EXITED

(* A prompt means that the last command is over: while a shell prompts,    *)
(* nothing it has started in the foreground runs, although its waitpid is  *)
(* woken by every exit there is, waits for a PCB and not for a pid, and    *)
(* PCBs are used again; and while it waits, the PCB is still that of its   *)
(* child.  For that, no process is reaped while another waits for it, and  *)
(* none is destroyed twice, although the memory of PCBs gets new owners.   *)
ForegroundFirst ==
    /\ \A p \in Pcb :
        /\ (Prompting(p) /\ ~ tangled) =>
              \A c \in Live : status[c] # EXITED =>
                  \A s \in StartedBy(p, pid[c]) : s.background
        /\ (p \in Live /\ at[p] = "wait" /\ job[p] # AnyChild) =>
              job[p] \in Live /\ \E s \in StartedBy(p, pid[job[p]]) : ~ s.background
    /\ ~ contended /\ ~ double_free

(* "oh, because separate process now" (syscalls.c:117): as long as every   *)
(* execve has loaded its program, a child that still runs on its parent's  *)
(* stack runs alone, whatever other processes exit or start meanwhile.     *)
StackExclusive == tangled \/ SharedStackExclusive

(* "See if any background childen have finished" (shell.c:297): a zombie   *)
(* whose shell has no elder child is reaped if the user goes on typing     *)
(* lines there.  (A zombie with an elder brother that runs on is not.)     *)
FinishedReported ==
    \A p, c \in Pcb \ {Idle} : p # c =>
        LET eldest == \A i \in ChildrenOf(p) : pid[c] <= pid[procs[i]]
            waiting == c \in Live /\ status[c] = EXITED /\ parent[c] = p /\ eldest
        IN  ([]<><<Line(p)>>_vars) => (waiting ~> ~ waiting)
=============================================================================
