---------------------------- MODULE KernelProofs ----------------------------
(***************************************************************************)
(* Proofs about the kernel's concurrent core, for any number of processes, *)
(* any ring buffer and any requests: the parts share the CPU, the process  *)
(* list and the statuses, and each one keeps its own queue although the    *)
(* steps of the others come in between.  What console_read and nanosleep   *)
(* promise, a FIFO and enough ticks, is proved for the part by itself and  *)
(* for the whole kernel.                                                   *)
(***************************************************************************)
EXTENDS Kernel, ProcessesProofs, FiniteSetTheorems

(* The console queue links live processes inside the loop, only while the *)
(* ring is empty, and it has everyone who sleeps there.                   *)
ReadersQueued ==
    /\ \A p \in console_queue : p \in Live /\ pc[p] = "console" /\ Buffered = 0
    /\ \A p \in Pcb : (pc[p] = "console" /\ status[p] = SLEEPING) => p \in console_queue

ConsoleInv == ConsoleTypeOK /\ rx_fifo \in Seq(Char) /\ ReadersQueued

(* Types of the timer's state. *)
TimerTypeOK ==
    /\ ticks \in 1 .. MaxTicks
    /\ timer_next_wakeup \in Nat
    /\ timer_queue \subseteq Pcb
    /\ deadline \in [Pcb -> Nat]

(* The timer queue links live processes inside the loop, whose time has   *)
(* not come and is not before the wake-up time; it has everyone who       *)
(* sleeps there.  A wake-up time that is set is not over.                 *)
SleepersQueued ==
    /\ \A p \in timer_queue :
          /\ p \in Live /\ pc[p] = "timer"
          /\ timer_next_wakeup # 0 /\ timer_next_wakeup <= EndTime(deadline[p])
    /\ \A p \in Pcb : (pc[p] = "timer" /\ status[p] = SLEEPING) => p \in timer_queue
    /\ timer_next_wakeup # 0 => tick_counter <= timer_next_wakeup

TimerInv == TimerTypeOK /\ SleepersQueued

(* The inductive invariant of the kernel. *)
KernelInv == ProcInv /\ ConsoleInv /\ TimerInv

(* The tick counter does not wrap around: the theorems are about the first *)
(* 2^32 ticks, two years, after booting.                                   *)
NoWrap == MaxTicks < WordSize

(* No nanosleep ends after the tick counter has wrapped around. *)
NoLateSleep == \A r \in Timespecs : MaxTicks + TicksToSleep(r) < WordSize

----------------------------------------------------------------------------
(* Steps of others leave the console's part alone. *)
LEMMA ConsoleLeft ==
    ASSUME ConsoleInv, NEW loops, "console" \in loops, LeavesAlone(loops), UNCHANGED consoleVars
    PROVE  ConsoleInv'
<1>1. UNCHANGED <<rx_fifo, input_buffer, input_buffer_head, input_buffer_tail, delivered,
                  console_queue, count>>
  BY DEF consoleVars, ringVars
<1>2. /\ \A q \in Pcb : (q \in Live /\ pc[q] = "console") => (q \in Live' /\ pc'[q] = "console")
      /\ \A q \in Pcb : (pc'[q] = "console" /\ status'[q] = SLEEPING)
                            => (pc[q] = "console" /\ status[q] = SLEEPING)
  BY DEF LeavesAlone
<1>3. ConsoleTypeOK' /\ (rx_fifo \in Seq(Char))'
  BY <1>1 DEF ConsoleInv, ConsoleTypeOK
<1>4. ReadersQueued'
  BY <1>1, <1>2 DEF ConsoleInv, ConsoleTypeOK, ReadersQueued, Buffered
<1> QED BY <1>3, <1>4 DEF ConsoleInv

(* Steps of others leave the timer's part alone. *)
LEMMA TimerLeft ==
    ASSUME TimerInv, NEW loops, "timer" \in loops, LeavesAlone(loops),
           UNCHANGED <<ticks, sleepVars>>
    PROVE  TimerInv'
<1>1. UNCHANGED <<ticks, timer_next_wakeup, timer_queue, deadline, slept_until>>
  BY DEF sleepVars
<1>2. /\ \A q \in Pcb : (q \in Live /\ pc[q] = "timer") => (q \in Live' /\ pc'[q] = "timer")
      /\ \A q \in Pcb : (pc'[q] = "timer" /\ status'[q] = SLEEPING)
                            => (pc[q] = "timer" /\ status[q] = SLEEPING)
  BY DEF LeavesAlone
<1>3. TimerTypeOK'
  BY <1>1 DEF TimerInv, TimerTypeOK
<1>4. SleepersQueued'
  BY <1>1, <1>2 DEF TimerInv, TimerTypeOK, SleepersQueued, tick_counter, EndTime
<1> QED BY <1>3, <1>4 DEF TimerInv

----------------------------------------------------------------------------
(* The lesser of two naturals. *)
LEMMA MinOfTwo ==
    ASSUME NEW a \in Nat, NEW b \in Nat
    PROVE  Min({a, b}) \in {a, b} /\ Min({a, b}) <= a /\ Min({a, b}) <= b
BY MinOfNats, {a, b} \subseteq Nat, {a, b} # {}

(* How full the ring is, and what the handler takes from the FIFO. *)
LEMMA RingFacts ==
    ASSUME ConsoleTypeOK, rx_fifo \in Seq(Char)
    PROVE  /\ Buffered \in 0 .. (BufferSize - 1) /\ Room \in Nat
           /\ Len(Accepted) \in Nat /\ Len(Accepted) <= Room
           /\ Accepted = <<>> <=> Len(Accepted) = 0
           /\ Accepted \in Seq(Char) /\ Accepted = SubSeq(rx_fifo, 1, Len(Accepted))
           /\ Len(Accepted) = IF Len(rx_fifo) < Room THEN Len(rx_fifo) ELSE Room
<1>1. Buffered \in 0 .. (BufferSize - 1)
  BY ConsoleAssumption DEF ConsoleTypeOK, Buffered
<1>2. Room \in Nat
  BY <1>1, ConsoleAssumption DEF Room
<1>3. Len(rx_fifo) \in Nat
  OBVIOUS
<1> DEFINE m == Min({Len(rx_fifo), Room})
<1>4. m \in {Len(rx_fifo), Room} /\ m \in Nat /\ m <= Len(rx_fifo) /\ m <= Room
  BY <1>2, <1>3, MinOfTwo
<1>5. Accepted \in Seq(Char) /\ Len(Accepted) = m /\ Accepted = SubSeq(rx_fifo, 1, m)
  <2>1. \A i \in 1 .. m : rx_fifo[i] \in Char
    BY <1>3, <1>4
  <2>0. Accepted = SubSeq(rx_fifo, 1, m)
    BY DEF Accepted
  <2> HIDE DEF m
  <2>2. /\ SubSeq(rx_fifo, 1, m) \in Seq(Char)
        /\ Len(SubSeq(rx_fifo, 1, m)) = IF 1 <= m THEN m - 1 + 1 ELSE 0
    BY <1>4, <2>1, SubSeqProperties
  <2> QED BY <1>4, <2>0, <2>2
<1> HIDE DEF m
<1>6. Len(Accepted) = IF Len(rx_fifo) < Room THEN Len(rx_fifo) ELSE Room
  BY <1>2, <1>3, <1>4, <1>5
<1> QED BY <1>1, <1>2, <1>4, <1>5, <1>6, EmptySeq

(* One turn of console_read. *)
LEMMA ReadLoopStep ==
    ASSUME ProcInv, ~ double_free, ConsoleInv, NEW p \in Pcb, current = p, p # Idle,
           pc[p] \in {"user", "console"}, NEW n \in Counts \cup {0}, ReadLoop(p, n),
           UNCHANGED procVars
    PROVE  ProcInv' /\ ConsoleInv' /\ LeavesAlone({"timer"})
<1>0. n \in Nat /\ Buffered \in 0 .. (BufferSize - 1) /\ p \in Live
  BY RingFacts, CurrentFacts, ConsoleAssumption DEF ConsoleInv
<1>1. CASE /\ Buffered = 0
           /\ console_queue' = console_queue \cup {p}
           /\ count' = [count EXCEPT ![p] = n]
           /\ Block(p, "console")
           /\ UNCHANGED ringVars
  <2>1. /\ ProcInv' /\ LeavesAlone(OtherLoops \ {"console"}) /\ Live' = Live
        /\ \A q \in Pcb \ {p} : status'[q] = status[q] /\ pc'[q] = pc[q]
        /\ status'[p] = SLEEPING /\ pc'[p] = "console"
    BY <1>1, BlockStep DEF OtherLoops
  <2>2. LeavesAlone({"timer"})
    BY <2>1 DEF LeavesAlone, OtherLoops
  <2>3. UNCHANGED <<rx_fifo, input_buffer, input_buffer_head, input_buffer_tail>>
    BY <1>1 DEF ringVars
  <2>4. ConsoleTypeOK' /\ (rx_fifo \in Seq(Char))'
    BY <1>1, <2>3 DEF ConsoleInv, ConsoleTypeOK
  <2>5. ReadersQueued'
    BY <1>0, <1>1, <2>1, <2>3 DEF ConsoleInv, ConsoleTypeOK, ReadersQueued, Buffered
  <2> QED BY <2>1, <2>2, <2>4, <2>5 DEF ConsoleInv
<1>2. CASE /\ Buffered # 0
           /\ Take(p, n)
           /\ count' = [count EXCEPT ![p] = 0]
           /\ UNCHANGED <<procs, status, current, scheduling_enabled, console_queue>>
  <2>1. pc' = [pc EXCEPT ![p] = "user"]
    BY <1>2 DEF Take
  <2>2. /\ ProcInv' /\ LeavesAlone(OtherLoops \ {pc[p]})
        /\ \A q \in Pcb \ {p} : pc'[q] = pc[q]
        /\ pc'[p] = "user"
    BY <1>2, <2>1, ReturnStep
  <2>3. LeavesAlone({"timer"})
    BY <2>2 DEF LeavesAlone, OtherLoops
  <2> DEFINE m == Min({n, Buffered})
  <2>4. /\ m \in Nat
        /\ input_buffer_tail' = (input_buffer_tail + m) % BufferSize
        /\ UNCHANGED <<rx_fifo, input_buffer, input_buffer_head>>
    BY <1>0, <1>2, MinOfTwo DEF Take, RingIndex
  <2>5. input_buffer_tail' \in 0 .. (BufferSize - 1)
    <3> HIDE DEF m
    <3> QED BY <2>4, ConsoleAssumption DEF ConsoleInv, ConsoleTypeOK
  <2>6. ConsoleTypeOK' /\ (rx_fifo \in Seq(Char))'
    BY <1>2, <2>4, <2>5 DEF ConsoleInv, ConsoleTypeOK
  <2>7. ReadersQueued'
    BY <1>2, <2>2 DEF ConsoleInv, ReadersQueued
  <2> QED BY <2>2, <2>3, <2>6, <2>7 DEF ConsoleInv
<1> QED BY <1>1, <1>2 DEF ReadLoop

(* The handler of the UART, and who is awake after it. *)
LEMMA SerialStep ==
    ASSUME ConsoleInv, SerialDrain, Live' = Live, pc' = pc,
           \A q \in Pcb : status'[q] = SLEEPING => status[q] = SLEEPING /\ q \notin SerialWakes
    PROVE  ConsoleInv' /\ scheduling_enabled' \in BOOLEAN
<1> DEFINE n == Len(Accepted)
<1>1. /\ input_buffer_head' = (input_buffer_head + n) % BufferSize
      /\ DOMAIN input_buffer' = DOMAIN input_buffer
      /\ console_queue' = console_queue \ SerialWakes
      /\ rx_fifo' = <<>>
      /\ UNCHANGED <<input_buffer_tail, count>>
  BY DEF SerialDrain, RingIndex, StillQueued
<1>2. scheduling_enabled' \in BOOLEAN
  BY DEF SerialDrain
<1>3. n \in Nat /\ (Accepted = <<>> <=> n = 0)
  BY RingFacts DEF ConsoleInv
<1> HIDE DEF n
<1>4. input_buffer_head' \in 0 .. (BufferSize - 1)
  BY <1>1, <1>3, ConsoleAssumption DEF ConsoleInv, ConsoleTypeOK
<1>5. ConsoleTypeOK' /\ (rx_fifo \in Seq(Char))'
  BY <1>1, <1>4, ConsoleAssumption DEF ConsoleInv, ConsoleTypeOK
<1>6. CASE Accepted = <<>>
  <2>1. SerialWakes = {} /\ input_buffer_head' = input_buffer_head
    BY <1>1, <1>3, <1>6, ConsoleAssumption DEF SerialWakes, ConsoleInv, ConsoleTypeOK
  <2>2. ReadersQueued'
    BY <1>1, <2>1 DEF ConsoleInv, ReadersQueued, Buffered
  <2> QED BY <1>2, <1>5, <2>2 DEF ConsoleInv
<1>7. CASE Accepted # <<>>
  <2>1. SerialWakes = console_queue /\ console_queue' = {}
    BY <1>1, <1>7 DEF SerialWakes
  <2>2. ReadersQueued'
    BY <2>1 DEF ConsoleInv, ReadersQueued
  <2> QED BY <1>2, <1>5, <2>2 DEF ConsoleInv
<1> QED BY <1>6, <1>7

----------------------------------------------------------------------------
(* A number that fits into the word is not changed by it. *)
LEMMA FitsInWord ==
    ASSUME NEW n \in Nat, n < WordSize
    PROVE  n % WordSize = n
BY TimerAssumption

(* Before the counter wraps around, it is the number of ticks. *)
LEMMA TickCount ==
    ASSUME NoWrap, TimerTypeOK
    PROVE  tick_counter = ticks /\ \A due \in Nat : EndTime(due) \in Nat
BY TimerAssumption DEF NoWrap, TimerTypeOK, tick_counter, EndTime

(* One turn of nanosleep's loop. *)
LEMMA SleepLoopStep ==
    ASSUME NoWrap, ProcInv, ~ double_free, TimerInv, NEW p \in Pcb, current = p, p # Idle,
           pc[p] \in {"user", "timer"}, NEW due \in Nat,
           pc[p] = "timer" => due = deadline[p],
           SleepLoop(p, due), UNCHANGED procVars
    PROVE  ProcInv' /\ TimerInv' /\ LeavesAlone({"console"})
<1>0. /\ tick_counter = ticks /\ EndTime(due) \in Nat /\ p \in Live
      /\ UNCHANGED ticks /\ tick_counter' = tick_counter
  BY TickCount, CurrentFacts DEF TimerInv, SleepLoop, tick_counter
<1>1. CASE /\ SleepOver(p, due)
           /\ slept_until' = due
           /\ deadline' = [deadline EXCEPT ![p] = 0]
           /\ pc' = [pc EXCEPT ![p] = "user"]
           /\ UNCHANGED <<procs, status, current, scheduling_enabled>>
           /\ UNCHANGED <<timer_next_wakeup, timer_queue>>
  <2>1. /\ ProcInv' /\ LeavesAlone(OtherLoops \ {pc[p]}) /\ Live' = Live
        /\ \A q \in Pcb \ {p} : pc'[q] = pc[q]
        /\ pc'[p] = "user"
    BY <1>1, ReturnStep
  <2>2. LeavesAlone({"console"})
    BY <2>1 DEF LeavesAlone, OtherLoops
  <2>3. TimerTypeOK' /\ \A q \in Pcb \ {p} : deadline'[q] = deadline[q]
    BY <1>0, <1>1 DEF TimerInv, TimerTypeOK
  <2>4. p \notin timer_queue
    <3>1. tick_counter > EndTime(due)
      BY <1>1 DEF SleepOver
    <3> QED BY <1>0, <3>1 DEF TimerInv, TimerTypeOK, SleepersQueued
  <2>5. SleepersQueued'
    BY <1>0, <1>1, <2>1, <2>3, <2>4 DEF TimerInv, TimerTypeOK, SleepersQueued, EndTime
  <2> QED BY <2>1, <2>2, <2>3, <2>5 DEF TimerInv
<1>2. CASE /\ ~ SleepOver(p, due)
           /\ timer_next_wakeup' = EarliestWakeup(EndTime(due))
           /\ timer_queue' = timer_queue \cup {p}
           /\ deadline' = [deadline EXCEPT ![p] = due]
           /\ Block(p, "timer")
           /\ UNCHANGED slept_until
  <2>1. /\ ProcInv' /\ LeavesAlone(OtherLoops \ {"timer"}) /\ Live' = Live
        /\ \A q \in Pcb \ {p} : status'[q] = status[q] /\ pc'[q] = pc[q]
        /\ status'[p] = SLEEPING /\ pc'[p] = "timer"
    BY <1>2, BlockStep DEF OtherLoops
  <2>2. LeavesAlone({"console"})
    BY <2>1 DEF LeavesAlone, OtherLoops
  <2>3. tick_counter <= EndTime(due) /\ EndTime(due) # 0
    BY <1>0, <1>2 DEF SleepOver, TimerInv, TimerTypeOK
  <2>4. /\ timer_next_wakeup' \in Nat /\ timer_next_wakeup' # 0
        /\ timer_next_wakeup' <= EndTime(due) /\ tick_counter <= timer_next_wakeup'
        /\ timer_next_wakeup # 0 => timer_next_wakeup' <= timer_next_wakeup
    BY <1>0, <1>2, <2>3 DEF EarliestWakeup, TimerInv, TimerTypeOK, SleepersQueued
  <2>5. /\ TimerTypeOK' /\ \A q \in Pcb \ {p} : deadline'[q] = deadline[q]
        /\ deadline'[p] = due
    BY <1>0, <1>2, <2>4 DEF TimerInv, TimerTypeOK
  <2>6. SleepersQueued'
    <3>1. ASSUME NEW q \in timer_queue'
          PROVE  /\ q \in Live' /\ pc'[q] = "timer"
                 /\ timer_next_wakeup' # 0 /\ timer_next_wakeup' <= EndTime(deadline'[q])
      <4>1. CASE q = p
        BY <1>0, <2>1, <2>4, <2>5, <4>1
      <4>2. CASE q # p
        <5>1. /\ q \in Pcb \ {p} /\ q \in timer_queue /\ deadline[q] \in Nat
          BY <1>2, <4>2 DEF TimerInv, TimerTypeOK
        <5>2. /\ q \in Live /\ pc[q] = "timer" /\ timer_next_wakeup # 0
              /\ timer_next_wakeup <= EndTime(deadline[q])
          BY <5>1 DEF TimerInv, SleepersQueued
        <5>3. EndTime(deadline[q]) \in Nat /\ timer_next_wakeup \in Nat
          BY <5>1, TickCount DEF TimerInv, TimerTypeOK
        <5> QED BY <2>1, <2>4, <2>5, <5>1, <5>2, <5>3
      <4> QED BY <4>1, <4>2
    <3>2. \A q \in Pcb : (pc'[q] = "timer" /\ status'[q] = SLEEPING) => q \in timer_queue'
      BY <1>2, <2>1 DEF TimerInv, SleepersQueued
    <3>3. timer_next_wakeup' # 0 => tick_counter' <= timer_next_wakeup'
      BY <1>0, <2>4
    <3> QED BY <3>1, <3>2, <3>3 DEF SleepersQueued, EndTime
  <2> QED BY <2>1, <2>2, <2>5, <2>6 DEF TimerInv
<1> QED BY <1>1, <1>2 DEF SleepLoop

(* The handler of the timer, and who is awake after it. *)
LEMMA TickStep ==
    ASSUME NoWrap, TimerInv, timer_interrupt_handler, Live' = Live, pc' = pc,
           \A q \in Pcb : status'[q] = SLEEPING => status[q] = SLEEPING /\ q \notin TimerWakes
    PROVE  TimerInv'
<1>1. /\ ticks < MaxTicks /\ ticks' = ticks + 1
      /\ timer_next_wakeup' = IF Expired THEN 0 ELSE timer_next_wakeup
      /\ timer_queue' = IF Expired THEN {} ELSE timer_queue
      /\ UNCHANGED deadline
  BY DEF timer_interrupt_handler
<1>2. TimerTypeOK'
  BY <1>1, TimerAssumption DEF TimerInv, TimerTypeOK
<1>3. tick_counter' = ticks'
  <2>1. ticks' \in Nat /\ ticks' < WordSize
    BY <1>2, TimerAssumption DEF NoWrap, TimerTypeOK
  <2> QED BY <2>1, FitsInWord DEF tick_counter
<1>4. CASE Expired
  <2>1. timer_queue' = {} /\ timer_next_wakeup' = 0 /\ TimerWakes = timer_queue
    BY <1>1, <1>4 DEF TimerWakes
  <2>2. SleepersQueued'
    BY <2>1 DEF TimerInv, SleepersQueued
  <2> QED BY <1>2, <2>2 DEF TimerInv
<1>5. CASE ~ Expired
  <2>1. UNCHANGED <<timer_queue, timer_next_wakeup, deadline>>
    BY <1>1, <1>5
  <2>2. timer_next_wakeup # 0 => tick_counter' <= timer_next_wakeup
    BY <1>1, <1>3, <1>5 DEF Expired, TimerInv, TimerTypeOK
  <2>3. SleepersQueued'
    BY <2>1, <2>2 DEF TimerInv, SleepersQueued, EndTime
  <2> QED BY <1>2, <2>3 DEF TimerInv
<1> QED BY <1>4, <1>5

(* One interrupt can carry input and a tick. *)
LEMMA InterruptStep ==
    ASSUME NoWrap, KernelInv, ~ double_free, interrupt_handler_c
    PROVE  KernelInv'
<1>1. PICK serial \in BOOLEAN, tick \in BOOLEAN :
        /\ IF serial THEN SerialDrain ELSE UNCHANGED <<consoleVars, scheduling_enabled>>
        /\ IF tick THEN timer_interrupt_handler ELSE UNCHANGED timerVars
        /\ status' = Woken((IF serial THEN SerialWakes ELSE {})
                             \cup (IF tick THEN TimerWakes ELSE {}))
  BY DEF interrupt_handler_c
<1> DEFINE Q == (IF serial THEN SerialWakes ELSE {}) \cup (IF tick THEN TimerWakes ELSE {})
<1>2. Q \in SUBSET Pcb
  BY DEF KernelInv, ConsoleInv, ConsoleTypeOK, TimerInv, TimerTypeOK, SerialWakes, TimerWakes
<1>3. scheduling_enabled' \in BOOLEAN
  BY <1>1 DEF SerialDrain, KernelInv, ProcInv, ListByPid, ProcTypeOK, SchedTypeOK
<1>4. InterruptReturn /\ UNCHANGED procVars
  BY DEF interrupt_handler_c
<1>5. /\ ProcInv' /\ LeavesAlone(OtherLoops) /\ Live' = Live /\ pc' = pc
      /\ \A q \in Pcb : status'[q] = IF q \in Q THEN READY ELSE status[q]
  <2> HIDE DEF Q
  <2>1. status' = Woken(Q)
    BY <1>1 DEF Q
  <2> QED BY <1>2, <1>3, <1>4, <2>1, WakeStep DEF KernelInv
<1>6. \A q \in Pcb : status'[q] = SLEEPING => status[q] = SLEEPING /\ q \notin Q
  BY <1>5 DEF SLEEPING, READY
<1>7. ConsoleInv'
  <2>1. CASE serial
    BY <1>1, <1>5, <1>6, <2>1, SerialStep DEF KernelInv
  <2>2. CASE ~ serial
    BY <1>1, <1>5, <2>2, ConsoleLeft DEF KernelInv, OtherLoops
  <2> QED BY <2>1, <2>2
<1>8. TimerInv'
  <2>1. CASE tick
    BY <1>1, <1>5, <1>6, <2>1, TickStep DEF KernelInv
  <2>2. CASE ~ tick
    BY <1>1, <1>5, <2>2, TimerLeft DEF KernelInv, OtherLoops, timerVars
  <2> QED BY <2>1, <2>2
<1> QED BY <1>5, <1>7, <1>8 DEF KernelInv

----------------------------------------------------------------------------
(* Booting. *)
LEMMA KernelInitInv == Init => KernelInv
<1> SUFFICES ASSUME Init PROVE KernelInv
  OBVIOUS
<1>1. ProcInv
  BY ProcInitInv DEF Init
<1>2. \A p \in Pcb : pc[p] = "user"
  BY DEF Init, ProcInit, SchedInit
<1>3. ConsoleInv
  <2>1. ConsoleTypeOK
    BY ConsoleAssumption DEF Init, ConsoleBoot, ConsoleTypeOK
  <2>2. rx_fifo \in Seq(Char) /\ ReadersQueued
    BY <1>2 DEF Init, ConsoleBoot, ReadersQueued
  <2> QED BY <2>1, <2>2 DEF ConsoleInv
<1>4. TimerInv
  BY <1>2, TimerAssumption DEF Init, TimerBoot, TimerInv, TimerTypeOK, SleepersQueued
<1> QED BY <1>1, <1>3, <1>4 DEF KernelInv

(* How long a nanosleep takes is a natural number of ticks. *)
LEMMA TicksNat == \A r \in Timespecs : TicksToSleep(r) \in Nat
<1> SUFFICES ASSUME NEW r \in Timespecs PROVE TicksToSleep(r) \in Nat
  OBVIOUS
<1>1. r.ns \in Nat /\ r.seconds \in Nat /\ Hz \in Nat
  BY TimerAssumption
<1>2. r.ns \div 1000000 \in Nat
  BY <1>1
<1>3. (r.ns \div 1000000) * Hz \in Nat /\ r.seconds * Hz \in Nat
  BY <1>1, <1>2
<1>4. ((r.ns \div 1000000) * Hz) \div 1000 \in Nat
  BY <1>3
<1>5. ((r.ns \div 1000000) * Hz) \div 1000 + r.seconds * Hz \in Nat
  BY <1>3, <1>4
<1> QED BY <1>5, TimerAssumption DEF TicksToSleep

(* A system call. *)
LEMMA SyscallStep ==
    ASSUME NoWrap, KernelInv, ~ double_free, NEW p \in Pcb, swi_handler_c(p)
    PROVE  KernelInv'
<1>1. CASE ProcSyscall(p) /\ UNCHANGED <<consoleVars, timerVars>>
  <2>1. ProcInv' /\ LeavesAlone(OtherLoops)
    BY <1>1, ProcSyscallStep DEF KernelInv
  <2> QED BY <1>1, <2>1, ConsoleLeft, TimerLeft DEF KernelInv, OtherLoops, timerVars
<1>2. CASE console_read(p) /\ UNCHANGED <<procVars, timerVars>>
  <2>1. current = p /\ p # Idle /\ pc[p] = "user"
    BY <1>2 DEF console_read, Calling, UserMode
  <2>2. PICK n \in Counts : ReadLoop(p, n)
    BY <1>2 DEF console_read
  <2>3. ProcInv' /\ ConsoleInv' /\ LeavesAlone({"timer"})
    BY <1>2, <2>1, <2>2, ReadLoopStep DEF KernelInv
  <2> QED BY <1>2, <2>3, TimerLeft DEF KernelInv, timerVars
<1>3. CASE nanosleep(p) /\ UNCHANGED <<procVars, consoleVars>>
  <2>1. current = p /\ p # Idle /\ pc[p] = "user"
    BY <1>3 DEF nanosleep, Calling, UserMode
  <2>2. PICK r \in Timespecs : SleepLoop(p, ticks + TicksToSleep(r))
    BY <1>3 DEF nanosleep
  <2>3. ticks + TicksToSleep(r) \in Nat
    BY <2>2, TicksNat DEF KernelInv, TimerInv, TimerTypeOK
  <2>4. ProcInv' /\ TimerInv' /\ LeavesAlone({"console"})
    BY <1>3, <2>1, <2>2, <2>3, SleepLoopStep DEF KernelInv
  <2> QED BY <1>3, <2>4, ConsoleLeft DEF KernelInv
<1>4. CASE Blink(p) /\ UNCHANGED <<procVars, consoleVars>>
  <2>1. UNCHANGED schedVars /\ UNCHANGED <<ticks, sleepVars>>
    BY <1>4 DEF Blink
  <2>2. ProcInv'
    BY <1>4, <2>1, ProcInvInductive DEF allProcVars, KernelInv
  <2>3. LeavesAlone(OtherLoops)
    BY <2>1 DEF LeavesAlone, schedVars, Live
  <2> QED BY <1>4, <2>1, <2>2, <2>3, ConsoleLeft, TimerLeft DEF KernelInv, OtherLoops
<1> QED BY <1>1, <1>2, <1>3, <1>4 DEF swi_handler_c

(* schedule() returns inside the kernel. *)
LEMMA ResumeStep ==
    ASSUME NoWrap, KernelInv, ~ double_free, NEW p \in Pcb, Resume(p)
    PROVE  KernelInv'
<1>1. CASE ProcResume(p) /\ UNCHANGED <<consoleVars, timerVars>>
  <2>1. ProcInv' /\ LeavesAlone(OtherLoops)
    BY <1>1, ProcResumeStep DEF KernelInv
  <2> QED BY <1>1, <2>1, ConsoleLeft, TimerLeft DEF KernelInv, OtherLoops, timerVars
<1>2. CASE ConsoleResume(p) /\ UNCHANGED <<procVars, timerVars>>
  <2>1. current = p /\ pc[p] = "console" /\ ReadLoop(p, count[p])
    BY <1>2 DEF ConsoleResume
  <2>2. p # Idle /\ count[p] \in Counts \cup {0}
    BY <2>1 DEF KernelInv, ProcInv, IdleRuns, ConsoleInv, ConsoleTypeOK
  <2>3. ProcInv' /\ ConsoleInv' /\ LeavesAlone({"timer"})
    BY <1>2, <2>1, <2>2, ReadLoopStep DEF KernelInv
  <2> QED BY <1>2, <2>3, TimerLeft DEF KernelInv, timerVars
<1>3. CASE SleepResume(p) /\ UNCHANGED <<procVars, consoleVars>>
  <2>1. current = p /\ pc[p] = "timer" /\ SleepLoop(p, deadline[p])
    BY <1>3 DEF SleepResume
  <2>2. p # Idle /\ deadline[p] \in Nat
    BY <2>1 DEF KernelInv, ProcInv, IdleRuns, TimerInv, TimerTypeOK
  <2>3. ProcInv' /\ TimerInv' /\ LeavesAlone({"console"})
    BY <1>3, <2>1, <2>2, SleepLoopStep DEF KernelInv
  <2> QED BY <1>3, <2>3, ConsoleLeft DEF KernelInv
<1> QED BY <1>1, <1>2, <1>3 DEF Resume

(* Every step of the kernel preserves its invariant. *)
LEMMA KernelInvInductive ==
    ASSUME NoWrap
    PROVE  KernelInv /\ [Next]_vars => KernelInv'
<1> SUFFICES ASSUME KernelInv, [Next]_vars PROVE KernelInv'
  OBVIOUS
<1>1. CASE ~ double_free /\ \E p \in Pcb : swi_handler_c(p) \/ Resume(p)
  BY <1>1, SyscallStep, ResumeStep
<1>2. CASE ~ double_free /\ interrupt_handler_c
  BY <1>2, InterruptStep
<1>3. CASE UartReceive /\ UNCHANGED <<schedVars, procVars, timerVars>>
  <2>1. ProcInv'
    BY <1>3, ProcInvInductive DEF allProcVars, KernelInv
  <2>2. LeavesAlone(OtherLoops)
    BY <1>3 DEF LeavesAlone, schedVars, Live
  <2>3. TimerInv'
    BY <1>3, <2>2, TimerLeft DEF KernelInv, OtherLoops, timerVars
  <2>4. PICK ch \in Char : rx_fifo' = Append(rx_fifo, ch)
    BY <1>3 DEF UartReceive
  <2>5. rx_fifo' \in Seq(Char) /\ Len(rx_fifo') <= FifoDepth
    BY <1>3, <2>4, ConsoleAssumption DEF UartReceive, KernelInv, ConsoleInv
  <2>6. UNCHANGED <<input_buffer, input_buffer_head, input_buffer_tail, console_queue, count,
                    procs, pc, status>>
    BY <1>3 DEF UartReceive, schedVars
  <2>7. ConsoleInv'
    BY <2>5, <2>6 DEF KernelInv, ConsoleInv, ConsoleTypeOK, ReadersQueued, Buffered, Live
  <2> QED BY <2>1, <2>3, <2>7 DEF KernelInv
<1>4. CASE ~ double_free /\ UntimedInterrupt /\ UNCHANGED <<procVars, consoleVars>>
  <2>1. status' = Woken({}) /\ scheduling_enabled' \in BOOLEAN
    BY <1>4 DEF UntimedInterrupt, Woken, KernelInv, ProcInv, ListByPid, ProcTypeOK, SchedTypeOK
  <2>2. ProcInv' /\ LeavesAlone(OtherLoops)
    BY <1>4, <2>1, WakeStep DEF UntimedInterrupt, KernelInv
  <2> QED BY <1>4, <2>2, ConsoleLeft, TimerLeft
          DEF UntimedInterrupt, KernelInv, OtherLoops, timerVars
<1>5. CASE UNCHANGED vars
  <2>1. UNCHANGED <<schedVars, procVars, consoleVars, timerVars>>
    BY <1>5 DEF vars
  <2>2. ProcInv'
    BY <2>1, ProcInvInductive DEF allProcVars, KernelInv
  <2>3. LeavesAlone(OtherLoops)
    BY <2>1 DEF LeavesAlone, schedVars, Live
  <2> QED BY <2>1, <2>2, <2>3, ConsoleLeft, TimerLeft DEF KernelInv, OtherLoops, timerVars
<1> QED BY <1>1, <1>2, <1>3, <1>4, <1>5 DEF Next

(* Every process on a wait queue is on the process list and inside the     *)
(* loop of that queue, so that no PCB is linked on two queues or freed     *)
(* while it is linked: what the intrusive queues of waitqueue.c need of    *)
(* their callers.                                                          *)
THEOREM QueuesDisciplined ==
    ASSUME NoWrap
    PROVE  Spec => []QueueDiscipline
<1>1. KernelInv => QueueDiscipline
  BY DEF KernelInv, ProcInv, WaitersQueued, ConsoleInv, ReadersQueued, TimerInv,
         SleepersQueued, QueueDiscipline, Queues
<1> QED BY KernelInitInv, KernelInvInductive, <1>1, PTL DEF Spec

(* Nobody sleeps in waitpid, console_read or nanosleep for what has        *)
(* already happened, with no one left to wake it.  The parts of the kernel *)
(* do not break each other's waiting.                                      *)
THEOREM WakeupsKept ==
    ASSUME NoWrap
    PROVE  Spec => []NoLostWakeup
<1>1. KernelInv => NoLostWakeup
  BY DEF KernelInv, ProcInv, WaitersQueued, ConsoleInv, ReadersQueued, TimerInv,
         SleepersQueued, NoLostWakeup, NoMissedExit, NoLostInput, NoLostSleeper
<1> QED BY KernelInitInv, KernelInvInductive, <1>1, PTL DEF Spec

(* What ProcessesProofs shows of the process calls alone holds as well     *)
(* while processes read and sleep and interrupts wake them.                *)
THEOREM KernelProcessesSafe ==
    ASSUME NoWrap
    PROVE  Spec => [](ListByPid /\ CurrentRuns /\ DestroyedOnce)
<1>1. KernelInv => ListByPid /\ CurrentRuns /\ DestroyedOnce
  BY DEF KernelInv, ProcInv
<1> QED BY KernelInitInv, KernelInvInductive, <1>1, PTL DEF Spec

----------------------------------------------------------------------------
(* What makes EnoughTicks inductive: the deadlines fit into a uint32_t. *)
DeadlinesFit ==
    /\ ticks \in 1 .. MaxTicks
    /\ deadline \in [Pcb -> Nat] /\ \A p \in Pcb : deadline[p] < WordSize
    /\ slept_until \in Nat /\ EnoughTicks

(* A tick brings no deadline nearer than the clock. *)
LEMMA TickKeepsDeadlines ==
    ASSUME DeadlinesFit, timer_interrupt_handler
    PROVE  DeadlinesFit'
BY TimerAssumption DEF DeadlinesFit, timer_interrupt_handler, EnoughTicks

(* nanosleep, which returns only when the clock is past its deadline. *)
LEMMA SleepKeepsDeadlines ==
    ASSUME NoWrap, DeadlinesFit, NEW p \in Pcb, NEW due \in Nat, due < WordSize,
           SleepLoop(p, due)
    PROVE  DeadlinesFit'
<1>1. tick_counter = ticks /\ EndTime(due) = due
  <2>1. ticks \in Nat /\ ticks < WordSize
    BY TimerAssumption DEF DeadlinesFit, NoWrap
  <2> QED BY <2>1, FitsInWord DEF tick_counter, EndTime
<1>2. UNCHANGED ticks
  BY DEF SleepLoop
<1>3. CASE SleepOver(p, due) /\ slept_until' = due /\ deadline' = [deadline EXCEPT ![p] = 0]
  <2>1. due < ticks
    BY <1>1, <1>3 DEF SleepOver, DeadlinesFit
  <2> QED BY <1>2, <1>3, <2>1, TimerAssumption DEF DeadlinesFit, EnoughTicks
<1>4. CASE deadline' = [deadline EXCEPT ![p] = due] /\ UNCHANGED slept_until
  BY <1>2, <1>4 DEF DeadlinesFit, EnoughTicks
<1> QED BY <1>3, <1>4 DEF SleepLoop

(* The calls and the loop of nanosleep. *)
LEMMA SleeperKeepsDeadlines ==
    ASSUME NoWrap, NoLateSleep, DeadlinesFit, NEW p \in Pcb, nanosleep(p) \/ SleepResume(p)
    PROVE  DeadlinesFit'
<1>1. CASE nanosleep(p)
  <2>1. PICK r \in Timespecs : SleepLoop(p, ticks + TicksToSleep(r))
    BY <1>1 DEF nanosleep
  <2>2. ticks + TicksToSleep(r) \in Nat /\ ticks + TicksToSleep(r) < WordSize
    BY <2>1, TicksNat, TimerAssumption DEF DeadlinesFit, NoLateSleep
  <2> QED BY <2>1, <2>2, SleepKeepsDeadlines
<1>2. CASE SleepResume(p)
  BY <1>2, SleepKeepsDeadlines DEF SleepResume, DeadlinesFit
<1> QED BY <1>1, <1>2

(* A step without the timer. *)
LEMMA DeadlinesLeft ==
    ASSUME DeadlinesFit, UNCHANGED <<ticks, sleepVars>>
    PROVE  DeadlinesFit'
BY DEF DeadlinesFit, sleepVars, EnoughTicks

(* Booting. *)
LEMMA DeadlinesInit == TimerBoot => DeadlinesFit
BY TimerAssumption DEF TimerBoot, DeadlinesFit, EnoughTicks

(* nanosleep returns only after more ticks than it was asked to wait, with *)
(* one wake-up time for all sleepers, among processes that only sleep, and *)
(* in the whole kernel.                                                    *)
THEOREM SleepsEnough ==
    ASSUME NoWrap, NoLateSleep
    PROVE  (TimerSpec => []EnoughTicks) /\ (Spec => []EnoughTicks)
<1>1. DeadlinesFit => EnoughTicks
  BY DEF DeadlinesFit
<1>2. TimerInit => DeadlinesFit
  BY DeadlinesInit DEF TimerInit
<1>3. Init => DeadlinesFit
  BY DeadlinesInit DEF Init
<1>4. ASSUME DeadlinesFit, [TimerNext]_allTimerVars  PROVE DeadlinesFit'
  <2>1. CASE TimerInterrupt
    BY <1>4, <2>1, TickKeepsDeadlines DEF TimerInterrupt
  <2>2. CASE UntimedInterrupt
    BY <1>4, <2>2, DeadlinesLeft DEF UntimedInterrupt, timerVars
  <2>3. CASE \E p \in Pcb : nanosleep(p) \/ SleepResume(p)
    BY <1>4, <2>3, SleeperKeepsDeadlines
  <2>4. CASE \E p \in Pcb : Blink(p)
    BY <1>4, <2>4, DeadlinesLeft DEF Blink
  <2>5. CASE UNCHANGED allTimerVars
    BY <1>4, <2>5, DeadlinesLeft DEF allTimerVars, timerVars
  <2> QED BY <1>4, <2>1, <2>2, <2>3, <2>4, <2>5 DEF TimerNext
<1>5. ASSUME DeadlinesFit, [Next]_vars  PROVE DeadlinesFit'
  <2>1. CASE interrupt_handler_c
    <3>1. timer_interrupt_handler \/ UNCHANGED timerVars
      BY <2>1 DEF interrupt_handler_c
    <3> QED BY <1>5, <3>1, TickKeepsDeadlines, DeadlinesLeft DEF timerVars
  <2>2. CASE \E p \in Pcb : nanosleep(p) \/ SleepResume(p)
    BY <1>5, <2>2, SleeperKeepsDeadlines
  <2>3. CASE UNCHANGED <<ticks, sleepVars>>
    BY <1>5, <2>3, DeadlinesLeft
  <2>4. \/ interrupt_handler_c
        \/ \E p \in Pcb : nanosleep(p) \/ SleepResume(p)
        \/ UNCHANGED <<ticks, sleepVars>>
    BY <1>5 DEF Next, swi_handler_c, Resume, Blink, UntimedInterrupt, vars, timerVars
  <2> QED BY <2>1, <2>2, <2>3, <2>4
<1>6. TimerSpec => []EnoughTicks
  BY <1>1, <1>2, <1>4, PTL DEF TimerSpec
<1>7. Spec => []EnoughTicks
  BY <1>1, <1>3, <1>5, PTL DEF Spec
<1> QED BY <1>6, <1>7

----------------------------------------------------------------------------
(* What the ring buffer's refinement of InputStream rests on: indices and  *)
(* cells have their types, and whoever is inside console_read has asked    *)
(* for a count.                                                            *)
Cell == Char \cup {Zero}

StreamInv ==
    /\ ConsoleTypeOK /\ rx_fifo \in Seq(Char)
    /\ input_buffer \in [0 .. (BufferSize - 1) -> Cell]
    /\ pc \in [Pcb -> Continuations]
    /\ \A p \in Pcb : pc[p] = "console" => count[p] \in Counts

(* An index that is at most one turn off. *)
LEMMA OneTurn ==
    ASSUME NEW x \in Int, - BufferSize <= x, x < 2 * BufferSize
    PROVE  x % BufferSize = IF x < 0 THEN x + BufferSize
                            ELSE IF x < BufferSize THEN x ELSE x - BufferSize
BY ConsoleAssumption

(* The ring as a sequence. *)
LEMMA RingIsSeq ==
    ASSUME StreamInv
    PROVE  /\ Buffered \in 0 .. (BufferSize - 1)
           /\ Ring \in Seq(Cell) /\ Len(Ring) = Buffered
           /\ \A i \in 1 .. Buffered :
                 Ring[i] = input_buffer[(input_buffer_tail + i - 1) % BufferSize]
<1>1. Buffered \in 0 .. (BufferSize - 1)
  BY RingFacts DEF StreamInv
<1>2. \A i \in 1 .. Buffered : (input_buffer_tail + i - 1) % BufferSize \in 0 .. (BufferSize - 1)
  BY <1>1, ConsoleAssumption DEF StreamInv, ConsoleTypeOK
<1> QED BY <1>1, <1>2 DEF Ring, StreamInv

(* The head moves on by n, without passing the tail. *)
LEMMA HeadMoves ==
    ASSUME NEW h \in 0 .. (BufferSize - 1), NEW t \in 0 .. (BufferSize - 1), NEW n \in Nat,
           n <= BufferSize - 1 - ((h - t) % BufferSize)
    PROVE  /\ (h + n) % BufferSize \in 0 .. (BufferSize - 1)
           /\ (((h + n) % BufferSize) - t) % BufferSize = ((h - t) % BufferSize) + n
<1> DEFINE b == (h - t) % BufferSize
           d == (h + n) % BufferSize
<1>0. BufferSize \in Nat /\ BufferSize >= 2
  BY ConsoleAssumption
<1>1. b = IF h - t < 0 THEN h - t + BufferSize ELSE h - t
  BY <1>0, OneTurn, SMTT(30)
<1>2. d = IF h + n < BufferSize THEN h + n ELSE h + n - BufferSize
  <2>1. h + n \in Int /\ - BufferSize <= h + n /\ h + n < 2 * BufferSize /\ h + n >= 0
    BY <1>0, <1>1
  <2> QED BY <1>0, <2>1, OneTurn, SMTT(30)
<1>3. d \in 0 .. (BufferSize - 1) /\ d - t \in Int /\ - BufferSize <= d - t /\ d - t < 2 * BufferSize
  BY <1>0, <1>1, <1>2
<1> HIDE DEF b, d
<1>4. (d - t) % BufferSize = IF d - t < 0 THEN d - t + BufferSize ELSE d - t
  BY <1>0, <1>3, OneTurn, SMTT(30)
<1>5. (d - t) % BufferSize = b + n
  BY <1>0, <1>1, <1>2, <1>4 DEF b
<1> QED BY <1>3, <1>5 DEF b, d

(* The tail moves on by m, not past the head; what was i + m places from   *)
(* it is i places from it now.                                             *)
LEMMA TailMoves ==
    ASSUME NEW h \in 0 .. (BufferSize - 1), NEW t \in 0 .. (BufferSize - 1), NEW m \in Nat,
           m <= (h - t) % BufferSize
    PROVE  /\ (t + m) % BufferSize \in 0 .. (BufferSize - 1)
           /\ (h - ((t + m) % BufferSize)) % BufferSize = ((h - t) % BufferSize) - m
           /\ \A i \in 1 .. (((h - t) % BufferSize) - m) :
                 (((t + m) % BufferSize) + i - 1) % BufferSize = (t + (i + m) - 1) % BufferSize
<1> DEFINE b == (h - t) % BufferSize
           d == (t + m) % BufferSize
<1>0. BufferSize \in Nat /\ BufferSize >= 2
  BY ConsoleAssumption
<1>1. b = IF h - t < 0 THEN h - t + BufferSize ELSE h - t
  BY <1>0, OneTurn, SMTT(30)
<1>2. d = IF t + m < BufferSize THEN t + m ELSE t + m - BufferSize
  BY <1>0, <1>1, OneTurn, SMTT(30)
<1>3. d \in 0 .. (BufferSize - 1) /\ h - d \in Int /\ - BufferSize <= h - d /\ h - d < 2 * BufferSize
  BY <1>0, <1>1, <1>2
<1>4. b \in Nat /\ m <= b
  BY <1>0, <1>1
<1> HIDE DEF b, d
<1>5. (h - d) % BufferSize = IF h - d < 0 THEN h - d + BufferSize ELSE h - d
  BY <1>0, <1>3, OneTurn, SMTT(30)
<1>6. (h - d) % BufferSize = b - m
  BY <1>0, <1>1, <1>2, <1>4, <1>5
<1>7. ASSUME NEW i \in 1 .. (b - m)
      PROVE  (d + i - 1) % BufferSize = (t + (i + m) - 1) % BufferSize
  <2> DEFINE x == d + i - 1
             y == t + (i + m) - 1
  <2>1. x \in Int /\ - BufferSize <= x /\ x < 2 * BufferSize /\ (x = y \/ x + BufferSize = y)
    BY <1>0, <1>1, <1>2, <1>3, <1>4, <1>7
  <2>2. y \in Int /\ - BufferSize <= y /\ y < 2 * BufferSize /\ x >= 0
    BY <1>0, <1>1, <1>3, <1>4, <1>7
  <2> HIDE DEF x, y
  <2>3. x % BufferSize = y % BufferSize
    BY <1>0, <2>1, <2>2, OneTurn, SMTT(30)
  <2> QED BY <2>3 DEF x, y
<1> QED BY <1>3, <1>6, <1>7 DEF b, d

(* The places the handler fills, seen from the tail: the first b places    *)
(* are further than n from the head, and the next n are the places from    *)
(* the head on.                                                            *)
LEMMA PlacesFilled ==
    ASSUME NEW h \in 0 .. (BufferSize - 1), NEW t \in 0 .. (BufferSize - 1), NEW n \in Nat,
           n <= BufferSize - 1 - ((h - t) % BufferSize),
           NEW i \in 1 .. (((h - t) % BufferSize) + n)
    PROVE  LET b == (h - t) % BufferSize
               k == (((t + i - 1) % BufferSize) - h) % BufferSize
           IN  /\ (t + i - 1) % BufferSize \in 0 .. (BufferSize - 1)
               /\ k \in Nat
               /\ i <= b => ~ (k < n)
               /\ i > b => k < n /\ k + 1 = i - b
<1> DEFINE b == (h - t) % BufferSize
           x == (t + i - 1) % BufferSize
           k == (x - h) % BufferSize
<1>0. BufferSize \in Nat /\ BufferSize >= 2
  BY ConsoleAssumption
<1>1. b = IF h - t < 0 THEN h - t + BufferSize ELSE h - t
  BY <1>0, OneTurn, SMTT(30)
<1>2. b \in Nat /\ n <= BufferSize - 1 - b /\ i \in 1 .. (b + n)
  BY <1>0, <1>1
<1> HIDE DEF b
<1>3. x = IF t + i - 1 < BufferSize THEN t + i - 1 ELSE t + i - 1 - BufferSize
  BY <1>0, <1>2, OneTurn, SMTT(30)
<1>4. x \in 0 .. (BufferSize - 1)
  BY <1>0, <1>2, <1>3
<1> HIDE DEF x
<1>5. k = IF x - h < 0 THEN x - h + BufferSize ELSE x - h
  BY <1>0, <1>4, OneTurn, SMTT(30)
<1> HIDE DEF k
<1>6. k \in Nat /\ (i <= b => ~ (k < n)) /\ (i > b => k < n /\ k + 1 = i - b)
  BY <1>0, <1>1, <1>2, <1>3, <1>4, <1>5
<1> QED BY <1>4, <1>6 DEF b, x, k

(* The handler accepts what InputStream accepts. *)
LEMMA DrainAccepts ==
    ASSUME StreamInv, SerialDrain
    PROVE  Stream!Accept /\ (input_buffer \in [0 .. (BufferSize - 1) -> Cell])'
<1> DEFINE h == input_buffer_head
           t == input_buffer_tail
           b == (h - t) % BufferSize
           n == Len(Accepted)
<1>1. h \in 0 .. (BufferSize - 1) /\ t \in 0 .. (BufferSize - 1)
  BY DEF StreamInv, ConsoleTypeOK
<1>2. b \in Nat /\ Buffered = b /\ Room = BufferSize - 1 - b /\ n \in Nat /\ n <= Room
  BY RingFacts DEF StreamInv, Buffered, Room
<1>3. /\ Len(rx_fifo) \in Nat /\ n = IF Len(rx_fifo) < Room THEN Len(rx_fifo) ELSE Room
      /\ Accepted = SubSeq(rx_fifo, 1, n) /\ Accepted \in Seq(Char)
  BY RingFacts DEF StreamInv
<1>4. /\ input_buffer' = [i \in 0 .. (BufferSize - 1) |->
             LET k == (i - h) % BufferSize
             IN  IF k < n THEN Accepted[k + 1] ELSE input_buffer[i]]
      /\ input_buffer_head' = (h + n) % BufferSize /\ rx_fifo' = <<>>
      /\ UNCHANGED <<input_buffer_tail, delivered>>
  BY DEF SerialDrain, RingIndex, StreamInv, ConsoleTypeOK
<1> HIDE DEF n
<1>5. input_buffer' \in [0 .. (BufferSize - 1) -> Cell]
  <2> SUFFICES ASSUME NEW i \in 0 .. (BufferSize - 1)
               PROVE  LET k == (i - h) % BufferSize
                      IN  (IF k < n THEN Accepted[k + 1] ELSE input_buffer[i]) \in Cell
    BY <1>4
  <2> DEFINE k == (i - h) % BufferSize
  <2>1. k \in Nat
    BY <1>1, ConsoleAssumption
  <2> HIDE DEF k
  <2>2. k < n => Accepted[k + 1] \in Char
    BY <1>2, <1>3, <2>1 DEF n
  <2>3. input_buffer[i] \in Cell
    BY DEF StreamInv
  <2>4. (IF k < n THEN Accepted[k + 1] ELSE input_buffer[i]) \in Cell
    BY <2>2, <2>3 DEF Cell
  <2> QED BY <2>4 DEF k
<1>6. Ring' = [i \in 1 .. (b + n) |-> input_buffer'[(t + i - 1) % BufferSize]]
  <2>1. Buffered' = (((h + n) % BufferSize) - t) % BufferSize
    BY <1>4 DEF Buffered
  <2>2. Buffered' = b + n
    BY <1>1, <1>2, <2>1, HeadMoves
  <2> QED BY <1>4, <2>2 DEF Ring
<1>7. Ring \in Seq(Cell) /\ Len(Ring) = b
      /\ \A i \in 1 .. b : Ring[i] = input_buffer[(t + i - 1) % BufferSize]
  BY <1>2, RingIsSeq
<1>8. ASSUME NEW i \in 1 .. (b + n)
      PROVE  input_buffer'[(t + i - 1) % BufferSize] = IF i <= b THEN Ring[i] ELSE Accepted[i - b]
  <2> DEFINE x == (t + i - 1) % BufferSize
             k == (x - h) % BufferSize
  <2>1. /\ x \in 0 .. (BufferSize - 1) /\ k \in Nat
        /\ i <= b => ~ (k < n)
        /\ i > b => k < n /\ k + 1 = i - b
    BY <1>1, <1>2, PlacesFilled
  <2>2. input_buffer'[x] = IF k < n THEN Accepted[k + 1] ELSE input_buffer[x]
    BY <1>4, <2>1
  <2>3. i <= b => Ring[i] = input_buffer[x]
    BY <1>2, <1>7
  <2> HIDE DEF x, k, b
  <2> QED BY <1>2, <2>1, <2>2, <2>3 DEF x
<1>9. Ring' = Ring \o Accepted
  <2>1. Ring \in Seq(Cell) /\ Accepted \in Seq(Cell)
    BY <1>3, <1>7 DEF Cell
  <2> DEFINE whole == Ring \o Accepted
  <2>2. /\ whole \in Seq(Cell) /\ Len(whole) = Len(Ring) + Len(Accepted)
        /\ \A i \in 1 .. (Len(Ring) + Len(Accepted)) :
              whole[i] = IF i <= Len(Ring) THEN Ring[i] ELSE Accepted[i - Len(Ring)]
    BY <2>1, ConcatProperties
  <2> HIDE DEF whole, b
  <2>3. Len(whole) = b + n /\ \A i \in 1 .. (b + n) : whole[i] = IF i <= b THEN Ring[i] ELSE Accepted[i - b]
    BY <1>7, <2>2 DEF n
  <2>4. whole = [i \in 1 .. (b + n) |-> whole[i]]
    BY <2>2, <2>3
  <2>5. Ring' = whole
    BY <1>6, <1>8, <2>3, <2>4
  <2> QED BY <2>5 DEF whole
<1>10. Stream!Accept
  <2>1. BufferSize - 1 - Len(Ring) = Room
    BY <1>2, <1>7
  <2> QED BY <1>3, <1>4, <1>9, <2>1 DEF Stream!Accept
<1> QED BY <1>5, <1>10

(* console_get_char takes what InputStream delivers. *)
LEMMA TakeReads ==
    ASSUME StreamInv, NEW p \in Pcb, NEW n \in Counts, Buffered # 0, Take(p, n)
    PROVE  Stream!Read /\ input_buffer_tail' \in 0 .. (BufferSize - 1)
<1> DEFINE h == input_buffer_head
           t == input_buffer_tail
           b == (h - t) % BufferSize
           m == Min({n, b})
<1>1. h \in 0 .. (BufferSize - 1) /\ t \in 0 .. (BufferSize - 1) /\ n \in Nat
  BY ConsoleAssumption DEF StreamInv, ConsoleTypeOK
<1>2. b \in Nat /\ Buffered = b /\ b # 0
  BY RingFacts DEF StreamInv, Buffered
<1>3. /\ delivered' = [i \in 1 .. n |-> IF i <= m THEN input_buffer[(t + i - 1) % BufferSize] ELSE Zero]
      /\ input_buffer_tail' = (t + m) % BufferSize
      /\ UNCHANGED <<rx_fifo, input_buffer, input_buffer_head>>
  BY <1>2 DEF Take, RingIndex
<1> HIDE DEF b
<1>4. m \in Nat /\ m <= n /\ m <= b /\ m = IF n < b THEN n ELSE b
  BY <1>1, <1>2, MinOfTwo
<1> HIDE DEF m
<1>5. Ring \in Seq(Cell) /\ Len(Ring) = b
      /\ \A i \in 1 .. b : Ring[i] = input_buffer[(t + i - 1) % BufferSize]
  BY <1>2, RingIsSeq
<1>6. /\ input_buffer_tail' \in 0 .. (BufferSize - 1)
      /\ (h - input_buffer_tail') % BufferSize = b - m
      /\ \A i \in 1 .. (b - m) :
            (input_buffer_tail' + i - 1) % BufferSize = (t + (i + m) - 1) % BufferSize
  BY <1>1, <1>3, <1>4, TailMoves, SMTT(30) DEF b
<1>7. Ring' = [i \in 1 .. (b - m) |-> Ring[m + i]]
  <2>1. Ring' = [i \in 1 .. (b - m) |-> input_buffer[(input_buffer_tail' + i - 1) % BufferSize]]
    BY <1>3, <1>6 DEF Ring, Buffered
  <2>2. ASSUME NEW i \in 1 .. (b - m)
        PROVE  input_buffer[(input_buffer_tail' + i - 1) % BufferSize] = Ring[m + i]
    <3>1. m + i \in 1 .. b /\ t + (m + i) - 1 = t + (i + m) - 1
      BY <1>1, <1>2, <1>4
    <3> QED BY <1>5, <1>6, <3>1
  <2> QED BY <2>1, <2>2
<1>8. Ring' = SubSeq(Ring, m + 1, Len(Ring))
  <2>1. \A i \in (m + 1) .. b : Ring[i] \in Cell
    BY <1>2, <1>4, <1>5
  <2> DEFINE rest == SubSeq(Ring, m + 1, b)
  <2>2. /\ rest \in Seq(Cell) /\ Len(rest) = IF m + 1 <= b THEN b - (m + 1) + 1 ELSE 0
        /\ \A i \in 1 .. (b - (m + 1) + 1) : rest[i] = Ring[m + 1 + i - 1]
    BY <1>2, <1>4, <2>1, SubSeqProperties
  <2> HIDE DEF rest
  <2>3. Len(rest) = b - m /\ \A i \in 1 .. (b - m) : rest[i] = Ring[m + i]
    <3>1. Len(rest) = b - m
      BY <1>2, <1>4, <2>2
    <3>2. ASSUME NEW i \in 1 .. (b - m) PROVE rest[i] = Ring[m + i]
      <4>1. i \in 1 .. (b - (m + 1) + 1) /\ m + 1 + i - 1 = m + i
        BY <1>2, <1>4
      <4> QED BY <2>2, <4>1
    <3> QED BY <3>1, <3>2
  <2>4. rest = [i \in 1 .. (b - m) |-> rest[i]]
    BY <2>2, <2>3
  <2>5. Ring' = rest
    BY <1>7, <2>3, <2>4
  <2> QED BY <1>5, <2>5 DEF rest
<1>9. delivered' = [i \in 1 .. n |-> IF i <= m THEN Ring[i] ELSE Zero]
  <2>1. \A i \in 1 .. n : i <= m => Ring[i] = input_buffer[(t + i - 1) % BufferSize]
    BY <1>1, <1>2, <1>4, <1>5
  <2> QED BY <1>3, <2>1
<1>10. Stream!Read
  <2>1. Ring # <<>> /\ m = IF n < Len(Ring) THEN n ELSE Len(Ring)
    BY <1>2, <1>4, <1>5
  <2> QED BY <1>3, <1>8, <1>9, <2>1 DEF Stream!Read
<1> QED BY <1>6, <1>10

(* A step that leaves the console alone, and lets nobody into its loop. *)
ElsewhereThanConsole ==
    /\ pc' \in [Pcb -> Continuations]
    /\ \A q \in Pcb : pc'[q] = "console" => pc[q] = "console"
    /\ UNCHANGED consoleVars

LEMMA StreamLeft ==
    ASSUME StreamInv, ElsewhereThanConsole
    PROVE  StreamInv' /\ UNCHANGED Stream!vars
<1>1. UNCHANGED <<rx_fifo, input_buffer, input_buffer_head, input_buffer_tail, delivered,
                  console_queue, count>>
  BY DEF ElsewhereThanConsole, consoleVars, ringVars
<1>2. UNCHANGED Stream!vars
  BY <1>1 DEF Stream!vars, Ring, Buffered
<1>3. ConsoleTypeOK'
  BY <1>1 DEF StreamInv, ConsoleTypeOK
<1> QED BY <1>1, <1>2, <1>3 DEF StreamInv, ElsewhereThanConsole

(* One turn of console_read. *)
LEMMA StreamReadLoop ==
    ASSUME StreamInv, NEW p \in Pcb, NEW n \in Counts, ReadLoop(p, n)
    PROVE  StreamInv' /\ [Stream!Next]_(Stream!vars)
<1>1. CASE /\ Buffered = 0
           /\ console_queue' = console_queue \cup {p}
           /\ count' = [count EXCEPT ![p] = n]
           /\ Block(p, "console")
           /\ UNCHANGED ringVars
  <2>1. UNCHANGED <<rx_fifo, input_buffer, input_buffer_head, input_buffer_tail, delivered>>
    BY <1>1 DEF ringVars
  <2>2. UNCHANGED Stream!vars
    BY <2>1 DEF Stream!vars, Ring, Buffered
  <2>3. ConsoleTypeOK'
    BY <1>1, <2>1 DEF StreamInv, ConsoleTypeOK
  <2>4. pc' = [pc EXCEPT ![p] = "console"]
    BY <1>1 DEF Block
  <2>5. /\ pc' \in [Pcb -> Continuations]
        /\ \A q \in Pcb : pc'[q] = "console" => count'[q] \in Counts
    BY <1>1, <2>4 DEF StreamInv, ConsoleTypeOK, Continuations
  <2> QED BY <2>1, <2>2, <2>3, <2>5 DEF StreamInv
<1>2. CASE /\ Buffered # 0
           /\ Take(p, n)
           /\ count' = [count EXCEPT ![p] = 0]
           /\ UNCHANGED <<procs, status, current, scheduling_enabled, console_queue>>
  <2>1. Stream!Read /\ input_buffer_tail' \in 0 .. (BufferSize - 1)
    BY <1>2, TakeReads
  <2>2. pc' = [pc EXCEPT ![p] = "user"] /\ UNCHANGED <<rx_fifo, input_buffer, input_buffer_head>>
    BY <1>2 DEF Take
  <2>3. ConsoleTypeOK'
    BY <1>2, <2>1, <2>2 DEF StreamInv, ConsoleTypeOK
  <2>4. /\ pc' \in [Pcb -> Continuations]
        /\ \A q \in Pcb : pc'[q] = "console" => count'[q] \in Counts
    BY <1>2, <2>2 DEF StreamInv, ConsoleTypeOK, Continuations
  <2>5. StreamInv'
    BY <2>2, <2>3, <2>4 DEF StreamInv
  <2> QED BY <2>1, <2>5 DEF Stream!Next
<1> QED BY <1>1, <1>2 DEF ReadLoop

(* The calls and the loop of console_read, the UART and its handler. *)
LEMMA StreamStep ==
    ASSUME StreamInv,
           \/ \E p \in Pcb : console_read(p) \/ ConsoleResume(p)
           \/ UartReceive /\ pc' = pc
           \/ SerialDrain /\ pc' = pc
    PROVE  StreamInv' /\ [Stream!Next]_(Stream!vars)
<1>1. CASE \E p \in Pcb : console_read(p) \/ ConsoleResume(p)
  BY <1>1, StreamReadLoop DEF console_read, ConsoleResume, StreamInv
<1>2. CASE UartReceive /\ pc' = pc
  <2>1. UNCHANGED <<input_buffer, input_buffer_head, input_buffer_tail, delivered,
                    console_queue, count>>
    BY <1>2 DEF UartReceive
  <2>2. PICK ch \in Char : rx_fifo' = Append(rx_fifo, ch)
    BY <1>2 DEF UartReceive
  <2>3. rx_fifo' \in Seq(Char) /\ Len(rx_fifo') <= FifoDepth
    BY <1>2, <2>2, ConsoleAssumption DEF UartReceive, StreamInv
  <2>4. Stream!Receive
    BY <2>1, <2>2 DEF Stream!Receive, Ring, Buffered
  <2>5. ConsoleTypeOK'
    BY <2>1, <2>3 DEF StreamInv, ConsoleTypeOK
  <2>6. StreamInv'
    BY <1>2, <2>1, <2>3, <2>5 DEF StreamInv
  <2> QED BY <2>4, <2>6 DEF Stream!Next
<1>3. CASE SerialDrain /\ pc' = pc
  <2>1. Stream!Accept /\ (input_buffer \in [0 .. (BufferSize - 1) -> Cell])'
    BY <1>3, DrainAccepts
  <2>2. /\ input_buffer_head' = (input_buffer_head + Len(Accepted)) % BufferSize
        /\ console_queue' \subseteq console_queue /\ rx_fifo' = <<>>
        /\ UNCHANGED <<input_buffer_tail, count>>
    BY <1>3 DEF SerialDrain, RingIndex, StillQueued
  <2>3. input_buffer_head' \in 0 .. (BufferSize - 1)
    BY <2>2, RingFacts, ConsoleAssumption DEF StreamInv, ConsoleTypeOK
  <2>4. ConsoleTypeOK'
    BY <2>1, <2>2, <2>3, ConsoleAssumption DEF StreamInv, ConsoleTypeOK
  <2>5. StreamInv'
    BY <1>3, <2>1, <2>2, <2>4 DEF StreamInv
  <2> QED BY <2>1, <2>5 DEF Stream!Next
<1> QED BY <1>1, <1>2, <1>3

(* The process calls and nanosleep have loops of their own. *)
LEMMA OtherLoopsOnly ==
    ASSUME StreamInv, UNCHANGED consoleVars, NEW p \in Pcb,
           ProcSyscall(p) \/ ProcResume(p) \/ nanosleep(p) \/ SleepResume(p) \/ Blink(p)
    PROVE  ElsewhereThanConsole
<1>1. \/ \E l \in Continuations \ {"console"} : pc' = [pc EXCEPT ![p] = l]
      \/ \E c \in Pcb : pc' = [pc EXCEPT ![p] = "vfork", ![c] = "user"]
      \/ pc' = pc
  <2>1. CASE Vfork(p)
    BY <2>1 DEF Vfork, Free
  <2>2. CASE Execve(p) \/ Malloc(p) \/ WaitpidNoHang(p)
    BY <2>2 DEF Execve, Malloc, WaitpidNoHang
  <2>3. CASE Exit(p) \/ ReturnToUser(p)
    BY <2>3 DEF Exit, ReturnToUser, Continuations
  <2>4. CASE Waitpid(p) \/ WaitpidResume(p)
    BY <2>4 DEF Waitpid, WaitpidResume, WaitLoop, Block, Continuations
  <2>5. CASE nanosleep(p) \/ SleepResume(p)
    BY <2>5 DEF nanosleep, SleepResume, SleepLoop, Block, Continuations
  <2>6. CASE Blink(p)
    BY <2>6 DEF Blink, schedVars
  <2> QED BY <2>1, <2>2, <2>3, <2>4, <2>5, <2>6 DEF ProcSyscall, ProcResume
<1> QED BY <1>1 DEF StreamInv, ElsewhereThanConsole, Continuations

(* Booting; the stream is empty. *)
LEMMA StreamInit ==
    ASSUME ConsoleBoot, pc = [p \in Pcb |-> "user"]
    PROVE  StreamInv /\ Stream!Init
<1>1. Buffered = 0
  BY ConsoleAssumption DEF ConsoleBoot, Buffered
<1>2. Ring = <<>>
  BY <1>1 DEF Ring
<1>3. ConsoleTypeOK
  BY ConsoleAssumption DEF ConsoleBoot, ConsoleTypeOK
<1> QED BY <1>2, <1>3 DEF ConsoleBoot, StreamInv, Cell, Continuations, Stream!Init

(* A step of the console by itself. *)
LEMMA ConsoleStreamStep ==
    ASSUME StreamInv, [ConsoleNext]_allConsoleVars
    PROVE  StreamInv' /\ [Stream!Next]_(Stream!vars)
<1>1. CASE \/ \E p \in Pcb : console_read(p) \/ ConsoleResume(p)
           \/ UartReceive /\ UNCHANGED schedVars
           \/ SerialInterrupt
  BY <1>1, StreamStep DEF schedVars, SerialInterrupt, InterruptReturn
<1>2. CASE OtherInterrupt \/ UNCHANGED allConsoleVars
  <2>1. ElsewhereThanConsole
    BY <1>2 DEF OtherInterrupt, InterruptReturn, allConsoleVars, schedVars,
                ElsewhereThanConsole, StreamInv
  <2> QED BY <2>1, StreamLeft
<1> QED BY <1>1, <1>2 DEF ConsoleNext

(* The ring buffer is a FIFO: with any number of readers and any ring,     *)
(* what console_read returns is what was typed, in order, and input is     *)
(* dropped only when BufferSize - 1 characters wait; for the console by    *)
(* itself, and in the whole kernel, whatever the other calls do.           *)
THEOREM ConsoleIsStream == (ConsoleSpec => StreamSpec) /\ (Spec => StreamSpec)
<1>1. ASSUME StreamInv, [ConsoleNext]_allConsoleVars
      PROVE  StreamInv' /\ [Stream!Next]_(Stream!vars)
  BY <1>1, ConsoleStreamStep
<1>2. ASSUME StreamInv, [Next]_vars
      PROVE  StreamInv' /\ [Stream!Next]_(Stream!vars)
  <2>1. CASE \/ \E p \in Pcb : console_read(p) \/ ConsoleResume(p)
             \/ UartReceive /\ UNCHANGED schedVars
             \/ SerialDrain /\ InterruptReturn
    BY <1>2, <2>1, StreamStep DEF schedVars, InterruptReturn
  <2>2. CASE \E p \in Pcb : /\ \/ ProcSyscall(p) \/ ProcResume(p)
                               \/ nanosleep(p) \/ SleepResume(p) \/ Blink(p)
                           /\ UNCHANGED consoleVars
    BY <1>2, <2>2, OtherLoopsOnly, StreamLeft
  <2>3. CASE (InterruptReturn \/ UNCHANGED schedVars) /\ UNCHANGED consoleVars
    <3>1. ElsewhereThanConsole
      BY <1>2, <2>3 DEF InterruptReturn, schedVars, ElsewhereThanConsole, StreamInv
    <3> QED BY <1>2, <3>1, StreamLeft
  <2>4. CASE interrupt_handler_c
    <3>1. SerialDrain \/ UNCHANGED consoleVars
      BY <2>4 DEF interrupt_handler_c
    <3> QED BY <2>1, <2>3, <2>4, <3>1 DEF interrupt_handler_c
  <2>5. CASE UntimedInterrupt /\ UNCHANGED <<procVars, consoleVars>>
    BY <2>3, <2>5 DEF UntimedInterrupt
  <2>6. CASE UNCHANGED vars
    BY <2>3, <2>6 DEF vars
  <2>7. CASE \E p \in Pcb : swi_handler_c(p) \/ Resume(p)
    BY <2>1, <2>2, <2>7 DEF swi_handler_c, Resume
  <2> QED BY <1>2, <2>1, <2>4, <2>5, <2>6, <2>7 DEF Next
<1>3. ConsoleInit => StreamInv /\ Stream!Init
  BY StreamInit DEF ConsoleInit, Populated
<1>4. Init => StreamInv /\ Stream!Init
  BY StreamInit DEF Init, ProcInit, SchedInit
<1>5. ConsoleSpec => StreamSpec
  BY <1>1, <1>3, PTL DEF ConsoleSpec, StreamSpec, Stream!Spec
<1>6. Spec => StreamSpec
  BY <1>2, <1>4, PTL DEF Spec, StreamSpec, Stream!Spec
<1> QED BY <1>5, <1>6

(* The console after the handler has accepted the first n characters of    *)
(* the FIFO.                                                               *)
BufferAfter(n) ==
    [i \in 0 .. (BufferSize - 1) |->
        IF (i - input_buffer_head) % BufferSize < n
        THEN rx_fifo[((i - input_buffer_head) % BufferSize) + 1] ELSE input_buffer[i]]

Toggles(n) == {k \in 1 .. n : rx_fifo[k] = CtrlZ}

After(n) ==
    [buffer |-> BufferAfter(n), head |-> (input_buffer_head + n) % BufferSize,
     tail |-> input_buffer_tail,
     enabled |-> (scheduling_enabled = (Cardinality(Toggles(n)) % 2 = 0)), wake |-> n > 0]

(* One character more turns the parity if it is ^Z. *)
LEMMA TogglesGrow ==
    ASSUME NEW n \in Nat
    PROVE  /\ Cardinality(Toggles(n)) \in Nat
           /\ rx_fifo[n + 1] # CtrlZ => Toggles(n + 1) = Toggles(n)
           /\ rx_fifo[n + 1] = CtrlZ =>
                (Cardinality(Toggles(n + 1)) % 2 = 0 <=> Cardinality(Toggles(n)) % 2 # 0)
<1>1. IsFiniteSet(Toggles(n))
  <2>1. IsFiniteSet(1 .. n)
    BY FS_Interval
  <2>2. Toggles(n) \subseteq 1 .. n
    BY DEF Toggles
  <2> QED BY <2>1, <2>2, FS_Subset
<1>2. Cardinality(Toggles(n)) \in Nat
  BY <1>1, FS_CardinalityType
<1>3. rx_fifo[n + 1] # CtrlZ => Toggles(n + 1) = Toggles(n)
  BY DEF Toggles
<1>4. ASSUME rx_fifo[n + 1] = CtrlZ
      PROVE  Cardinality(Toggles(n + 1)) = Cardinality(Toggles(n)) + 1
  <2>1. Toggles(n + 1) = Toggles(n) \cup {n + 1} /\ n + 1 \notin Toggles(n)
    BY <1>4 DEF Toggles
  <2> QED BY <1>1, <2>1, FS_AddElement
<1>5. \A x \in Nat : (x + 1) % 2 = 0 <=> x % 2 # 0
  OBVIOUS
<1> QED BY <1>2, <1>3, <1>4, <1>5

(* A sum of two places goes round the ring at most once. *)
LEMMA SumOneTurn ==
    ASSUME NEW a \in Nat, NEW b \in Nat, a + b < 2 * BufferSize
    PROVE  (a + b) % BufferSize = IF a + b < BufferSize THEN a + b ELSE a + b - BufferSize
BY ConsoleAssumption

(* Where the head goes, and which place it fills. *)
LEMMA HeadPlace ==
    ASSUME StreamInv, NEW n \in 0 .. Room
    PROVE  LET head == (input_buffer_head + n) % BufferSize
               next == IF head + 1 >= BufferSize THEN 0 ELSE head + 1
           IN  /\ head \in 0 .. (BufferSize - 1)
               /\ next = input_buffer_tail <=> n = Room
               /\ next = (input_buffer_head + (n + 1)) % BufferSize
               /\ \A i \in 0 .. (BufferSize - 1) :
                     (i - input_buffer_head) % BufferSize \in Nat /\
                     (i = head <=> (i - input_buffer_head) % BufferSize = n)
<1> DEFINE h == input_buffer_head
           t == input_buffer_tail
           head == (h + n) % BufferSize
           next == IF head + 1 >= BufferSize THEN 0 ELSE head + 1
<1>0. BufferSize \in Nat /\ BufferSize >= 2
  BY ConsoleAssumption
<1>1. h \in 0 .. (BufferSize - 1) /\ t \in 0 .. (BufferSize - 1)
  BY DEF StreamInv, ConsoleTypeOK
<1>2. Buffered = IF h - t < 0 THEN h - t + BufferSize ELSE h - t
  <2>1. h - t \in Int /\ - BufferSize <= h - t /\ h - t < 2 * BufferSize
    BY <1>0, <1>1
  <2>2. (h - t) % BufferSize = IF h - t < 0 THEN h - t + BufferSize
                             ELSE IF h - t < BufferSize THEN h - t ELSE h - t - BufferSize
    BY <2>1, OneTurn
  <2> QED BY <1>0, <1>1, <2>2 DEF Buffered
<1>3. n \in Nat /\ n <= BufferSize - 1 - Buffered
  BY <1>0, <1>1, <1>2 DEF Room
<1>4. head = IF h + n < BufferSize THEN h + n ELSE h + n - BufferSize
  <2>1. h \in Nat /\ h + n < 2 * BufferSize
    BY <1>0, <1>1, <1>2, <1>3
  <2> QED BY <1>3, <2>1, SumOneTurn
<1>5. (h + (n + 1)) % BufferSize = IF h + (n + 1) < BufferSize THEN h + (n + 1) ELSE h + (n + 1) - BufferSize
  <2>1. h \in Nat /\ n + 1 \in Nat /\ h + (n + 1) < 2 * BufferSize
    BY <1>0, <1>1, <1>2, <1>3
  <2> QED BY <2>1, SumOneTurn
<1> HIDE DEF head, h, t
<1>6. head \in 0 .. (BufferSize - 1)
  BY <1>0, <1>1, <1>2, <1>3, <1>4
<1>7. next = t <=> n = Room
  BY <1>0, <1>1, <1>2, <1>3, <1>4, <1>6 DEF Room
<1>8. next = (h + (n + 1)) % BufferSize
  BY <1>0, <1>1, <1>2, <1>3, <1>4, <1>5, <1>6
<1>9. ASSUME NEW i \in 0 .. (BufferSize - 1)
      PROVE  (i - h) % BufferSize \in Nat /\ (i = head <=> (i - h) % BufferSize = n)
  <2>1. PICK x : x = i - h
    OBVIOUS
  <2>2. x \in Int /\ - BufferSize <= x /\ x < BufferSize /\ x < 2 * BufferSize
    BY <1>0, <1>1, <2>1
  <2>3. x % BufferSize = IF x < 0 THEN x + BufferSize ELSE x
    BY <2>2, OneTurn
  <2>4. PICK y : y = x % BufferSize
    OBVIOUS
  <2>5. y \in Nat /\ (i = head <=> y = n)
    BY <1>0, <1>1, <1>2, <1>3, <1>4, <2>1, <2>2, <2>3, <2>4
  <2> QED BY <2>1, <2>4, <2>5
<1> QED BY <1>6, <1>7, <1>8, <1>9 DEF head, h, t

(* One character: dropped when the ring is full, else one more accepted. *)
LEMMA InsertOne ==
    ASSUME StreamInv, scheduling_enabled \in BOOLEAN, NEW n \in 0 .. Room, NEW ch
    PROVE  /\ n = Room => console_insert_char(After(n), ch) = After(n)
           /\ n < Room /\ ch = rx_fifo[n + 1] => console_insert_char(After(n), ch) = After(n + 1)
<1> DEFINE c == After(n)
           head == (input_buffer_head + n) % BufferSize
           next == IF head + 1 >= BufferSize THEN 0 ELSE head + 1
<1>1. /\ c.buffer = BufferAfter(n) /\ c.head = head /\ c.tail = input_buffer_tail
      /\ c.enabled = (scheduling_enabled = (Cardinality(Toggles(n)) % 2 = 0)) /\ c.wake = (n > 0)
      /\ c = [buffer |-> c.buffer, head |-> c.head, tail |-> c.tail, enabled |-> c.enabled, wake |-> c.wake]
  BY DEF After
<1>2. /\ head \in 0 .. (BufferSize - 1)
      /\ next = input_buffer_tail <=> n = Room
      /\ next = (input_buffer_head + (n + 1)) % BufferSize
      /\ \A i \in 0 .. (BufferSize - 1) :
            (i - input_buffer_head) % BufferSize \in Nat /\
            (i = head <=> (i - input_buffer_head) % BufferSize = n)
  BY HeadPlace
<1>3. n \in Nat /\ Room \in Nat
  BY RingFacts DEF StreamInv
<1>4. ASSUME n = Room PROVE console_insert_char(c, ch) = c
  BY <1>1, <1>2, <1>4 DEF console_insert_char
<1>5. ASSUME n < Room, ch = rx_fifo[n + 1] PROVE console_insert_char(c, ch) = After(n + 1)
  <2>1. n # Room
    BY <1>3, <1>5
  <2>2. console_insert_char(c, ch) =
            [buffer |-> [c.buffer EXCEPT ![c.head] = ch], head |-> next, tail |-> c.tail,
             enabled |-> IF ch = CtrlZ THEN ~ c.enabled ELSE c.enabled, wake |-> TRUE]
    BY <1>1, <1>2, <2>1, Zenon DEF console_insert_char
  <2>4. [BufferAfter(n) EXCEPT ![head] = ch] = BufferAfter(n + 1)
    <3> SUFFICES ASSUME NEW i \in 0 .. (BufferSize - 1)
                 PROVE  [BufferAfter(n) EXCEPT ![head] = ch][i] = BufferAfter(n + 1)[i]
      BY DEF BufferAfter
    <3>1. PICK d : d = (i - input_buffer_head) % BufferSize
      OBVIOUS
    <3>2. d \in Nat /\ (i = head <=> d = n)
      BY <1>2, <3>1
    <3>3. BufferAfter(n)[i] = IF d < n THEN rx_fifo[d + 1] ELSE input_buffer[i]
      BY <3>1 DEF BufferAfter
    <3>4. BufferAfter(n + 1)[i] = IF d < n + 1 THEN rx_fifo[d + 1] ELSE input_buffer[i]
      BY <3>1 DEF BufferAfter
    <3>5. [BufferAfter(n) EXCEPT ![head] = ch][i] = IF i = head THEN ch ELSE BufferAfter(n)[i]
      BY DEF BufferAfter
    <3> HIDE DEF head
    <3> QED BY <1>3, <1>5, <3>2, <3>3, <3>4, <3>5
  <2>5. (IF ch = CtrlZ THEN ~ c.enabled ELSE c.enabled)
          = (scheduling_enabled = (Cardinality(Toggles(n + 1)) % 2 = 0))
    <3>1. PICK x, y, z : /\ x = (Cardinality(Toggles(n)) % 2 = 0) /\ y = (Cardinality(Toggles(n + 1)) % 2 = 0)
                         /\ z = c.enabled
      OBVIOUS
    <3>2. x \in BOOLEAN /\ y \in BOOLEAN /\ z = (scheduling_enabled = x)
      BY <1>1, <3>1, Zenon
    <3>3. ch # CtrlZ => y = x
      BY <1>3, <1>5, <3>1, TogglesGrow, Zenon
    <3>4. ch = CtrlZ => (y <=> ~ x)
      BY <1>3, <1>5, <3>1, TogglesGrow, Zenon
    <3>5. (IF ch = CtrlZ THEN ~ z ELSE z) = (scheduling_enabled = y)
      BY <3>2, <3>3, <3>4, Zenon
    <3> QED BY <3>1, <3>5, Zenon
  <2>6. (n + 1 > 0) = TRUE
    BY <1>3
  <2> QED BY <1>1, <1>2, <2>2, <2>4, <2>5, <2>6, Zenon DEF After
<1> QED BY <1>4, <1>5

(* So the loop over the FIFO comes to what the model says. *)
LEMMA LoopDrains ==
    ASSUME StreamInv, scheduling_enabled \in BOOLEAN
    PROVE  DrainLoop = After(Len(Accepted))
<1> DEFINE L == Len(rx_fifo)
           before == [buffer |-> input_buffer, head |-> input_buffer_head,
                      tail |-> input_buffer_tail, enabled |-> scheduling_enabled, wake |-> FALSE]
           Turn(f) == [k \in 0 .. L |->
                          IF k = 0 THEN before ELSE console_insert_char(f[k - 1], rx_fifo[k])]
           after == CHOOSE f : f = Turn(f)
           taken(k) == IF k < Room THEN k ELSE Room
           g == [k \in 0 .. L |-> After(taken(k))]
<1>1. L \in Nat /\ Room \in Nat /\ Len(Accepted) = taken(L)
  BY RingFacts DEF StreamInv
<1>2. After(0) = before
  <2>1. BufferAfter(0) = input_buffer
    <3>1. \A i \in 0 .. (BufferSize - 1) : (i - input_buffer_head) % BufferSize \in Nat
      BY ConsoleAssumption DEF StreamInv, ConsoleTypeOK
    <3>2. \A i \in 0 .. (BufferSize - 1) : ~ ((i - input_buffer_head) % BufferSize < 0)
      BY <3>1
    <3> QED BY <3>2 DEF BufferAfter, StreamInv
  <2>2. (input_buffer_head + 0) % BufferSize = input_buffer_head
    BY ConsoleAssumption DEF StreamInv, ConsoleTypeOK
  <2>3. Cardinality(Toggles(0)) % 2 = 0
    <3>1. Toggles(0) = {}
      BY DEF Toggles
    <3>2. Cardinality(Toggles(0)) = 0
      BY <3>1, FS_EmptySet
    <3> QED BY <3>2
  <2>4. (scheduling_enabled = (Cardinality(Toggles(0)) % 2 = 0)) = scheduling_enabled
    BY <2>3, Zenon
  <2>5. (0 > 0) = FALSE
    OBVIOUS
  <2> QED BY <2>1, <2>2, <2>4, <2>5, Zenon DEF After
<1>3. ASSUME NEW k \in 0 .. (L - 1) PROVE console_insert_char(g[k], rx_fifo[k + 1]) = g[k + 1]
  <2>1. k \in 0 .. L /\ k + 1 \in 0 .. L /\ taken(k) \in 0 .. Room
    BY <1>1
  <2>2. g[k] = After(taken(k)) /\ g[k + 1] = After(taken(k + 1))
    BY <2>1
  <2>3. CASE k < Room
    <3>1. taken(k) = k /\ taken(k + 1) = k + 1 /\ k \in 0 .. Room
      BY <1>1, <2>3
    <3>2. console_insert_char(After(k), rx_fifo[k + 1]) = After(k + 1)
      BY <2>3, <3>1, InsertOne
    <3> QED BY <2>2, <3>1, <3>2
  <2>4. CASE ~ (k < Room)
    <3>1. taken(k) = Room /\ taken(k + 1) = Room /\ Room \in 0 .. Room
      BY <1>1, <2>4
    <3>2. console_insert_char(After(Room), rx_fifo[k + 1]) = After(Room)
      BY <3>1, InsertOne
    <3> QED BY <2>2, <3>1, <3>2
  <2> QED BY <2>3, <2>4
<1>4. g[0] = before
  <2>1. taken(0) = 0 /\ 0 \in 0 .. L
    BY <1>1
  <2> QED BY <1>2, <2>1
<1>5. g = Turn(g)
  <2> SUFFICES ASSUME NEW k \in 0 .. L
               PROVE  g[k] = IF k = 0 THEN before ELSE console_insert_char(g[k - 1], rx_fifo[k])
    OBVIOUS
  <2>1. k # 0 => k - 1 \in 0 .. (L - 1) /\ (k - 1) + 1 = k
    BY <1>1
  <2> HIDE DEF g, before
  <2> QED BY <1>3, <1>4, <2>1
<1>6. after = Turn(after)
  BY <1>5, Zenon
<1>7. DrainLoop = after[L]
  BY Zenon DEF DrainLoop
<1> HIDE DEF after, g
<1> DEFINE S == {k \in 0 .. L : after[k] = g[k]}
<1>8. 0 \in S
  <2>1. 0 \in 0 .. L /\ after[0] = before
    BY <1>1, <1>6
  <2> QED BY <1>4, <2>1
<1>9. ASSUME NEW k \in 0 .. (L - 1), k \in S PROVE k + 1 \in S
  <2>1. k + 1 \in 0 .. L /\ k + 1 # 0 /\ (k + 1) - 1 = k
    BY <1>1
  <2>2. after[k + 1] = console_insert_char(after[k], rx_fifo[k + 1])
    BY <1>6, <2>1
  <2> QED BY <1>3, <1>9, <2>1, <2>2
<1>10. \A k \in 0 .. L : k \in S
  <2> HIDE DEF S, L
  <2> QED BY <1>1, <1>8, <1>9, EveryTurn
<1>11. after[L] = g[L]
  BY <1>1, <1>10
<1> QED BY <1>1, <1>7, <1>11 DEF g

(* Draining the FIFO in one step is what console_insert_char does when it  *)
(* is called for one character after the other, for any ring and FIFO.     *)
THEOREM DrainIsTheLoop == ConsoleSpec => DrainIsLoop
<1> DEFINE DrainInv == StreamInv /\ scheduling_enabled \in BOOLEAN
<1>1. ConsoleInit => DrainInv
  BY StreamInit DEF ConsoleInit, Populated
<1>2. DrainInv /\ [ConsoleNext]_allConsoleVars => DrainInv'
  <2> SUFFICES ASSUME DrainInv, [ConsoleNext]_allConsoleVars PROVE DrainInv'
    OBVIOUS
  <2>1. StreamInv'
    BY ConsoleStreamStep
  <2>2. scheduling_enabled' \in BOOLEAN
    <3>1. CASE UNCHANGED scheduling_enabled
      BY <3>1
    <3>2. CASE SerialDrain
      BY <3>2, Zenon DEF SerialDrain
    <3> QED BY <3>1, <3>2 DEF ConsoleNext, SerialInterrupt, OtherInterrupt, console_read, ConsoleResume,
               ReadLoop, Block, allConsoleVars, schedVars
  <2> QED BY <2>1, <2>2
<1>3. ASSUME DrainInv, SerialInterrupt
      PROVE  /\ input_buffer' = DrainLoop.buffer
             /\ input_buffer_head' = DrainLoop.head
             /\ scheduling_enabled' = DrainLoop.enabled
             /\ DrainLoop.wake = (Accepted # <<>>)
  <2> DEFINE n == Len(Accepted)
  <2>1. DrainLoop = After(n)
    BY <1>3, LoopDrains
  <2>2. /\ DrainLoop.buffer = BufferAfter(n)
        /\ DrainLoop.head = (input_buffer_head + n) % BufferSize
        /\ DrainLoop.enabled = (scheduling_enabled = (Cardinality(Toggles(n)) % 2 = 0))
        /\ DrainLoop.wake = (n > 0)
    BY <2>1 DEF After
  <2>3. n \in Nat /\ \A k \in 1 .. n : Accepted[k] = rx_fifo[k]
    <3>1. /\ n \in Nat /\ Accepted = SubSeq(rx_fifo, 1, n) /\ rx_fifo \in Seq(Char) /\ n <= Len(rx_fifo)
      BY <1>3, RingFacts DEF StreamInv
    <3> HIDE DEF n
    <3>2. \A k \in 1 .. n : rx_fifo[k] \in Char
      BY <3>1
    <3>3. \A k \in 1 .. n : SubSeq(rx_fifo, 1, n)[k] = rx_fifo[k]
      BY <3>1, <3>2, SubSeqProperties
    <3> QED BY <3>1, <3>3
  <2>4. input_buffer' = BufferAfter(n)
    <3>1. input_buffer' = [i \in 0 .. (BufferSize - 1) |->
             LET k == (i - input_buffer_head) % BufferSize
             IN  IF k < n THEN Accepted[k + 1] ELSE input_buffer[i]]
      BY <1>3 DEF SerialInterrupt, SerialDrain, StreamInv, ConsoleTypeOK
    <3>2. ASSUME NEW i \in 0 .. (BufferSize - 1)
          PROVE  LET k == (i - input_buffer_head) % BufferSize
                 IN  (IF k < n THEN Accepted[k + 1] ELSE input_buffer[i]) = BufferAfter(n)[i]
      <4>1. PICK k : k = (i - input_buffer_head) % BufferSize
        OBVIOUS
      <4>2. k \in Nat
        BY <1>3, <4>1, ConsoleAssumption DEF StreamInv, ConsoleTypeOK
      <4> HIDE DEF n
      <4>3. k < n => Accepted[k + 1] = rx_fifo[k + 1]
        BY <2>3, <4>2
      <4>4. BufferAfter(n)[i] = IF k < n THEN rx_fifo[k + 1] ELSE input_buffer[i]
        BY <4>1 DEF BufferAfter
      <4> QED BY <4>1, <4>3, <4>4
    <3>3. BufferAfter(n) = [i \in 0 .. (BufferSize - 1) |-> BufferAfter(n)[i]]
      BY DEF BufferAfter
    <3> QED BY <3>1, <3>2, <3>3
  <2>5. input_buffer_head' = (input_buffer_head + n) % BufferSize
    BY <1>3 DEF SerialInterrupt, SerialDrain, RingIndex
  <2>6. scheduling_enabled' = (scheduling_enabled = (Cardinality(Toggles(n)) % 2 = 0))
    <3>1. {k \in 1 .. n : Accepted[k] = CtrlZ} = Toggles(n)
      <4> HIDE DEF n
      <4> QED BY <2>3 DEF Toggles
    <3>2. scheduling_enabled' = (scheduling_enabled = (Cardinality({k \in 1 .. n : Accepted[k] = CtrlZ}) % 2 = 0))
      BY <1>3, Zenon DEF SerialInterrupt, SerialDrain
    <3> QED BY <3>1, <3>2, Zenon
  <2>7. (n > 0) = (Accepted # <<>>)
    BY <1>3, <2>3, RingFacts DEF StreamInv
  <2> QED BY <2>2, <2>4, <2>5, <2>6, <2>7, Zenon
<1>4. DrainInv /\ [ConsoleNext]_allConsoleVars =>
        [SerialInterrupt =>
          /\ input_buffer' = DrainLoop.buffer
          /\ input_buffer_head' = DrainLoop.head
          /\ scheduling_enabled' = DrainLoop.enabled
          /\ DrainLoop.wake = (Accepted # <<>>)]_allConsoleVars
  BY <1>3
<1> QED BY <1>1, <1>2, <1>4, PTL DEF ConsoleSpec, DrainIsLoop
=============================================================================
