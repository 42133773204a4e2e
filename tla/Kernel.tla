------------------------------- MODULE Kernel -------------------------------
(***************************************************************************)
(* The kernel's concurrent core as one system: process life cycle, console *)
(* input and timer share the CPU, the process list, the statuses and the   *)
(* one wait_queue_next link of each PCB.  Every system call of one part    *)
(* can now come between two steps of another, execve can make a process    *)
(* READY that sleeps on any queue, and one interrupt can carry both input  *)
(* and a tick (interrupt_handler_c).                                       *)
(***************************************************************************)
EXTENDS Processes, Console, Timer

vars == <<schedVars, procVars, consoleVars, timerVars>>

(* interrupt_handler_c: the UART first, then the timer, then schedule(). *)
interrupt_handler_c ==
    /\ \E serial, tick \in BOOLEAN :
        /\ serial \/ tick
        /\ serial => rx_fifo # <<>>
        /\ IF serial THEN SerialDrain ELSE UNCHANGED <<consoleVars, scheduling_enabled>>
        /\ IF tick THEN timer_interrupt_handler ELSE UNCHANGED timerVars
        /\ status' = Woken((IF serial THEN SerialWakes ELSE {})
                             \cup (IF tick THEN TimerWakes ELSE {}))
    /\ InterruptReturn
    /\ UNCHANGED procVars

(* swi_handler_c, the calls that block or change processes. *)
swi_handler_c(p) ==
    \/ ProcSyscall(p) /\ UNCHANGED <<consoleVars, timerVars>>
    \/ console_read(p) /\ UNCHANGED <<procVars, timerVars>>
    \/ (nanosleep(p) \/ Blink(p)) /\ UNCHANGED <<procVars, consoleVars>>

(* schedule() returns in a process that called it inside the kernel. *)
Resume(p) ==
    \/ ProcResume(p) /\ UNCHANGED <<consoleVars, timerVars>>
    \/ ConsoleResume(p) /\ UNCHANGED <<procVars, timerVars>>
    \/ SleepResume(p) /\ UNCHANGED <<procVars, consoleVars>>

Init == ProcInit /\ ConsoleBoot /\ TimerBoot

(* As in Processes, a PCB destroyed twice is where the model ends. *)
Next ==
    /\ ~ double_free
    /\ \/ \E p \in Pcb : swi_handler_c(p) \/ Resume(p)
       \/ interrupt_handler_c
       \/ UartReceive /\ UNCHANGED <<schedVars, procVars, timerVars>>
       \/ UntimedInterrupt /\ UNCHANGED <<procVars, consoleVars>>

Spec == Init /\ [][Next]_vars

----------------------------------------------------------------------------
(* The loop a queue belongs to. *)
Queues == {<<waitpid_queue, "waitpid">>, <<console_queue, "console">>,
           <<timer_queue, "timer">>}

(* A process is linked on a wait queue only while it is on the process     *)
(* list and inside the loop of that very queue; so it is on one queue at   *)
(* most, and its one wait_queue_next link is never shared by two of them.  *)
(* Nothing in wait_queue_add enforces this: it depends on every waker      *)
(* waking the whole queue before the loop's condition is seen to change.   *)
(* (A waiter that takes other data for an exited process leaves its loop   *)
(* still linked; that is the end of DestroyedOnce and of this model.)      *)
QueueDiscipline ==
    double_free \/ \A qc \in Queues : \A p \in qc[1] : p \in Live /\ pc[p] = qc[2]

(* Nobody sleeps with no one left to wake it, unless in vfork: a sleeping  *)
(* process inside a waiting loop is on that loop's queue, and what it      *)
(* waits for has not happened yet.                                         *)
NoLostWakeup == NoMissedExit /\ NoLostInput /\ NoLostSleeper
=============================================================================
