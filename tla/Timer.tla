------------------------------- MODULE Timer -------------------------------
(***************************************************************************)
(* The 64 Hz timer: tick counter, nanosleep with its one shared wake-up    *)
(* time (sp804_timer.c, nanosleep.c), and the heartbeat LED.               *)
(*                                                                         *)
(* `ticks' counts the interrupts since boot without bound; the code's      *)
(* tick_counter is a uint32_t, ticks modulo WordSize.  The first tick is   *)
(* pending when interrupts are first enabled, on entry to user mode, so no *)
(* system call is made at tick 0.                                          *)
(***************************************************************************)
EXTENDS Sched

CONSTANTS
    WordSize,   \* 2^32
    Hz,         \* TIMER_HZ, 64
    Timespecs,  \* arguments of nanosleep: [seconds |-> ..., ns |-> ...]
    MaxTicks    \* bound: ticks counted before the model's clock stops

ASSUME TimerAssumption ==
    /\ WordSize \in Nat \ {0} /\ MaxTicks \in Nat \ {0}
    /\ Hz \in Nat /\ Hz >= 4 /\ Hz % 2 = 0
    /\ \A r \in Timespecs : r.seconds \in Nat /\ r.ns \in Nat

VARIABLES
    ticks,
    timer_next_wakeup,  \* 0: nobody sleeps
    timer_queue,        \* processes on timer_wait_queue
    deadline,           \* ticks + ticks_to_sleep of the call a process is in
    slept_until,        \* deadline of the last nanosleep that returned
    blinking_enabled, lit, led

sleepVars == <<timer_next_wakeup, timer_queue, deadline, slept_until>>
ledVars == <<blinking_enabled, lit, led>>
timerVars == <<ticks, sleepVars, ledVars>>

tick_counter == ticks % WordSize

(* ticks_to_sleep: whole milliseconds and seconds, rounded down to ticks.  *)
(* Only the seconds can overflow the word: ns/1000000*64 is below 2^19.    *)
TicksToSleep(r) ==
    (((r.ns \div 1000000) * Hz) \div 1000 + r.seconds * Hz) % WordSize

(* end_time=current_time+ticks_to_sleep, in a uint32_t *)
EndTime(due) == due % WordSize

----------------------------------------------------------------------------

(* The next wake-up time has passed, at the new tick. *)
Expired == timer_next_wakeup # 0 /\ tick_counter' > timer_next_wakeup

(* The LED goes off in the middle of a second and on at its end. *)
Heartbeat ==
    LET n == lit + 1
    IN  IF blinking_enabled
        THEN /\ led' = CASE n = Hz -> "on" [] n = Hz \div 2 -> "off" [] OTHER -> led
             /\ lit' = IF n = Hz THEN 0 ELSE n
        ELSE UNCHANGED <<lit, led>>

(* timer_interrupt_handler: everyone is woken at the earliest deadline and *)
(* looks for itself (TimerWakes).                                          *)
timer_interrupt_handler ==
    /\ ticks < MaxTicks
    /\ ticks' = ticks + 1
    /\ timer_next_wakeup' = IF Expired THEN 0 ELSE timer_next_wakeup
    /\ timer_queue' = IF Expired THEN {} ELSE timer_queue
    /\ Heartbeat
    /\ UNCHANGED <<deadline, slept_until, blinking_enabled>>

TimerWakes == IF Expired THEN timer_queue ELSE {}

TimerInterrupt ==
    /\ UNCHANGED scheduling_enabled
    /\ timer_interrupt_handler
    /\ status' = Woken(TimerWakes)
    /\ InterruptReturn

(* Interrupts that are not ticks, and the ticks past MaxTicks. *)
UntimedInterrupt ==
    /\ UNCHANGED <<status, scheduling_enabled>>
    /\ UNCHANGED timerVars
    /\ InterruptReturn

----------------------------------------------------------------------------
(* Mutation of EarliestWakeup: the last sleeper's time replaces it. *)
LatestWakeup(time) == time

(* timer_sleep_until keeps the earliest wake-up time. *)
EarliestWakeup(time) ==
    IF timer_next_wakeup = 0 \/ time < timer_next_wakeup THEN time ELSE timer_next_wakeup

(* Mutation of SleepOver: the call returns on any wake-up. *)
SleepOverIfWoken(p, due) == pc[p] = "timer" \/ tick_counter > EndTime(due)

(* The condition of nanosleep's loop is false. *)
SleepOver(p, due) == tick_counter > EndTime(due)

(* One turn of nanosleep's loop: back to sleep until end_time has passed. *)
SleepLoop(p, due) ==
    /\ \/ /\ SleepOver(p, due)
          /\ slept_until' = due
          /\ deadline' = [deadline EXCEPT ![p] = 0]
          /\ pc' = [pc EXCEPT ![p] = "user"]
          /\ UNCHANGED <<procs, status, current, scheduling_enabled>>
          /\ UNCHANGED <<timer_next_wakeup, timer_queue>>
       \/ /\ ~ SleepOver(p, due)
          /\ timer_next_wakeup' = EarliestWakeup(EndTime(due))
          /\ timer_queue' = timer_queue \cup {p}
          /\ deadline' = [deadline EXCEPT ![p] = due]
          /\ Block(p, "timer")
          /\ UNCHANGED slept_until
    /\ UNCHANGED <<ticks, ledVars>>

nanosleep(p) == Calling(p) /\ \E r \in Timespecs : SleepLoop(p, ticks + TicksToSleep(r))

SleepResume(p) == current = p /\ pc[p] = "timer" /\ SleepLoop(p, deadline[p])

(* SYSCALL_BLINK *)
Blink(p) ==
    /\ Calling(p)
    /\ blinking_enabled' \in BOOLEAN
    /\ UNCHANGED <<schedVars, ticks, sleepVars, lit, led>>

----------------------------------------------------------------------------
TimerBoot ==
    /\ ticks = 1
    /\ timer_next_wakeup = 0
    /\ timer_queue = {}
    /\ deadline = [p \in Pcb |-> 0]
    /\ slept_until = 0
    /\ blinking_enabled = TRUE
    /\ lit = 1
    /\ led = "unset"

(* The timer by itself, among processes that only sleep and blink. *)
TimerInit == Populated /\ TimerBoot

TimerNext ==
    \/ TimerInterrupt \/ UntimedInterrupt
    \/ \E p \in Pcb : nanosleep(p) \/ SleepResume(p) \/ Blink(p)

allTimerVars == <<schedVars, timerVars>>

TimerSpec ==
    /\ TimerInit /\ [][TimerNext]_allTimerVars
    /\ WF_allTimerVars(TimerInterrupt)
    /\ WF_allTimerVars(UntimedInterrupt)
    /\ \A p \in Pcb : WF_allTimerVars(SleepResume(p))

----------------------------------------------------------------------------
(* No sleeper is forgotten: a process asleep in nanosleep is on the queue, *)
(* and the one wake-up time the timer keeps is not past the sleeper's own, *)
(* whichever sleepers came and went in between.                            *)
NoLostSleeper ==
    \A p \in Pcb : (pc[p] = "timer" /\ status[p] = SLEEPING) =>
        /\ p \in timer_queue
        /\ timer_next_wakeup # 0 /\ timer_next_wakeup <= EndTime(deadline[p])

(* "Sleep until enough ticks have passed" (nanosleep.c:19): when nanosleep *)
(* returns, more ticks have passed than were asked for.  Every sleeper is  *)
(* woken at the earliest deadline of all, so it must go back to sleep.     *)
(* The bound MaxTicks keeps the tick counter from wrapping: past 2^32      *)
(* ticks end_time is small and the loop ends at once.                      *)
EnoughTicks == slept_until < ticks

(* Sleepers wake up: nanosleep returns, if the clock runs long enough.     *)
SleepersReturn ==
    \A p \in Pcb :
        (pc[p] = "timer" /\ deadline[p] < MaxTicks) ~> (pc[p] # "timer")
=============================================================================
