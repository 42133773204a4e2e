------------------------------ MODULE Console ------------------------------
(***************************************************************************)
(* Keyboard input: the UART's receive FIFO, the interrupt handler that     *)
(* empties it into the console's ring buffer (pl011_uart.c, console_io.c), *)
(* and console_read, which sleeps while the ring is empty.                 *)
(***************************************************************************)
EXTENDS Sched

CONSTANTS
    BufferSize,     \* INPUT_BUFFER_SIZE, 256
    FifoDepth,      \* depth of the UART's receive FIFO, 16
    Char,           \* characters that may arrive
    CtrlZ,          \* character 26
    Zero,           \* character 0, which pads a short read
    Counts          \* sizes of reads

ASSUME ConsoleAssumption ==
    /\ BufferSize \in Nat /\ BufferSize >= 2
    /\ FifoDepth \in Nat
    /\ Counts \subseteq Nat

VARIABLES
    rx_fifo,            \* characters in the UART, external
    input_buffer, input_buffer_head, input_buffer_tail,
    console_queue,      \* processes on console_wait_queue
    count,              \* the argument of the console_read a process is in
    delivered           \* what the last console_read stored

ringVars == <<rx_fifo, input_buffer, input_buffer_head, input_buffer_tail, delivered>>
consoleVars == <<ringVars, console_queue, count>>

(* Mutation of RingIndex: the index wraps one place too late. *)
RingIndexLate(i) == i % (BufferSize + 1)

(* An index moved forward: back to 0 at BufferSize. *)
RingIndex(i) == i % BufferSize

(* Characters in the ring; one place always stays empty. *)
Buffered == (input_buffer_head - input_buffer_tail) % BufferSize
Room == BufferSize - 1 - Buffered

----------------------------------------------------------------------------
(* A character reaches the UART; with a full FIFO it is lost there. *)
UartReceive ==
    /\ Len(rx_fifo) < FifoDepth
    /\ \E ch \in Char : rx_fifo' = Append(rx_fifo, ch)
    /\ UNCHANGED <<input_buffer, input_buffer_head, input_buffer_tail, delivered,
                   console_queue, count>>

(* The characters of the FIFO that console_insert_char finds room for:     *)
(* nobody reads during an interrupt, so they are the first ones.           *)
Accepted == SubSeq(rx_fifo, 1, Min({Len(rx_fifo), Room}))

(* Mutation of SerialWakes: no wait_queue_wake. *)
SerialWakesNobody == {}

(* The processes wait_queue_wake makes READY. *)
SerialWakes == IF Accepted = <<>> THEN {} ELSE console_queue

(* The queue after the handler. *)
StillQueued == console_queue \ SerialWakes

(* serial_interrupt_handler: console_insert_char for each character of the *)
(* FIFO.  Each one accepted moves the head, toggles scheduling if it is ^Z *)
(* and wakes the readers (SerialWakes); the others are dropped.            *)
SerialDrain ==
    LET n == Len(Accepted)
        toggles == Cardinality({k \in 1 .. n : Accepted[k] = CtrlZ})
    IN  /\ input_buffer' = [i \in DOMAIN input_buffer |->
                LET k == (i - input_buffer_head) % BufferSize
                IN  IF k < n THEN Accepted[k + 1] ELSE input_buffer[i]]
        /\ input_buffer_head' = RingIndex(input_buffer_head + n)
        /\ scheduling_enabled' = (scheduling_enabled = (toggles % 2 = 0))
        /\ console_queue' = StillQueued
        /\ rx_fifo' = <<>>
        /\ UNCHANGED <<input_buffer_tail, count, delivered>>

(* The handler as the code has it: console_insert_char on the console c,   *)
(* for each character of the FIFO.                                         *)
console_insert_char(c, ch) ==
    LET new_head == IF c.head + 1 >= BufferSize THEN 0 ELSE c.head + 1
    IN  IF new_head = c.tail THEN c
        ELSE [buffer |-> [c.buffer EXCEPT ![c.head] = ch], head |-> new_head, tail |-> c.tail,
              enabled |-> IF ch = CtrlZ THEN ~ c.enabled ELSE c.enabled, wake |-> TRUE]

DrainLoop ==
    LET before == [buffer |-> input_buffer, head |-> input_buffer_head,
                   tail |-> input_buffer_tail, enabled |-> scheduling_enabled, wake |-> FALSE]
        after[k \in 0 .. Len(rx_fifo)] ==
            IF k = 0 THEN before ELSE console_insert_char(after[k - 1], rx_fifo[k])
    IN  after[Len(rx_fifo)]

SerialInterrupt ==
    /\ rx_fifo # <<>>
    /\ SerialDrain
    /\ status' = Woken(SerialWakes)
    /\ InterruptReturn

----------------------------------------------------------------------------
(* console_get_char, n times: zeros once the ring is empty. *)
Take(p, n) ==
    LET m == Min({n, Buffered})
    IN  /\ delivered' = [i \in 1 .. n |->
               IF i <= m THEN input_buffer[RingIndex(input_buffer_tail + i - 1)]
                         ELSE Zero]
        /\ input_buffer_tail' = RingIndex(input_buffer_tail + m)
        /\ pc' = [pc EXCEPT ![p] = "user"]
        /\ UNCHANGED <<rx_fifo, input_buffer, input_buffer_head>>

(* Mutation of ReadLoop: `if' for `while', so that a reader that has slept *)
(* does not look at the ring again.                                        *)
ReadLoopIf(p, n) ==
    \/ /\ Buffered = 0 /\ pc[p] = "user"
       /\ console_queue' = console_queue \cup {p}
       /\ count' = [count EXCEPT ![p] = n]
       /\ Block(p, "console")
       /\ UNCHANGED ringVars
    \/ /\ Buffered # 0 \/ pc[p] # "user"
       /\ Take(p, n)
       /\ count' = [count EXCEPT ![p] = 0]
       /\ UNCHANGED <<procs, status, current, scheduling_enabled, console_queue>>

(* One turn of console_read: sleep while the ring is empty, else take n. *)
ReadLoop(p, n) ==
    \/ /\ Buffered = 0
       /\ console_queue' = console_queue \cup {p}
       /\ count' = [count EXCEPT ![p] = n]
       /\ Block(p, "console")
       /\ UNCHANGED ringVars
    \/ /\ Buffered # 0
       /\ Take(p, n)
       /\ count' = [count EXCEPT ![p] = 0]
       /\ UNCHANGED <<procs, status, current, scheduling_enabled, console_queue>>

console_read(p) == Calling(p) /\ \E n \in Counts : ReadLoop(p, n)

ConsoleResume(p) == current = p /\ pc[p] = "console" /\ ReadLoop(p, count[p])

(* The timer's interrupts, seen from here. *)
OtherInterrupt ==
    /\ UNCHANGED <<status, scheduling_enabled>>
    /\ UNCHANGED consoleVars
    /\ InterruptReturn

----------------------------------------------------------------------------
ConsoleBoot ==
    /\ rx_fifo = <<>>
    /\ input_buffer = [i \in 0 .. (BufferSize - 1) |-> Zero]
    /\ input_buffer_head = 0 /\ input_buffer_tail = 0
    /\ console_queue = {}
    /\ count = [p \in Pcb |-> 0]
    /\ delivered = <<>>

(* The console by itself, among processes that only read. *)
ConsoleInit == Populated /\ ConsoleBoot

ConsoleNext ==
    \/ UartReceive /\ UNCHANGED schedVars
    \/ SerialInterrupt
    \/ OtherInterrupt
    \/ \E p \in Pcb : console_read(p) \/ ConsoleResume(p)

allConsoleVars == <<schedVars, consoleVars>>

(* Interrupts are taken, and the kernel's own steps do not stop. *)
ConsoleSpec ==
    /\ ConsoleInit /\ [][ConsoleNext]_allConsoleVars
    /\ WF_allConsoleVars(SerialInterrupt)
    /\ WF_allConsoleVars(OtherInterrupt)
    /\ \A p \in Pcb : WF_allConsoleVars(ConsoleResume(p))

----------------------------------------------------------------------------
(* Types of the state; head and tail stay inside input_buffer. *)
ConsoleTypeOK ==
    /\ input_buffer_head \in 0 .. (BufferSize - 1)
    /\ input_buffer_tail \in 0 .. (BufferSize - 1)
    /\ DOMAIN input_buffer = 0 .. (BufferSize - 1)
    /\ Len(rx_fifo) <= FifoDepth
    /\ console_queue \subseteq Pcb
    /\ count \in [Pcb -> Counts \cup {0}]

(* No wake-up is lost between the interrupt handler and console_read:      *)
(* nobody sleeps for input while the ring has some, not even when the ring *)
(* is full and the handler drops the character without waking anyone.      *)
(* Head and tail stay inside the ring.                                     *)
NoLostInput ==
    /\ ConsoleTypeOK
    /\ \A p \in Pcb : (pc[p] = "console" /\ status[p] = SLEEPING)
                          => p \in console_queue /\ Buffered = 0

(* Draining the FIFO in one step is what inserting its characters one by   *)
(* one does: same ring, same head, same switch, and a wake-up if and only  *)
(* if a character was accepted.                                            *)
DrainIsLoop ==
    [][ SerialInterrupt =>
          /\ input_buffer' = DrainLoop.buffer
          /\ input_buffer_head' = DrainLoop.head
          /\ scheduling_enabled' = DrainLoop.enabled
          /\ DrainLoop.wake = (Accepted # <<>>) ]_allConsoleVars

(* Input gets through: a reader inside console_read returns once there is  *)
(* input, unless another reader takes it first or ^Z has switched the      *)
(* scheduler off, which leaves the CPU to whoever has it.                  *)
InputGetsThrough ==
    \A p \in Pcb :
        (pc[p] = "console" /\ Buffered # 0)
            ~> (pc[p] # "console" \/ Buffered = 0 \/ ~ scheduling_enabled)

(* The ring holds this stream. *)
Ring == [i \in 1 .. Buffered |-> input_buffer[(input_buffer_tail + i - 1) % BufferSize]]

Stream == INSTANCE InputStream WITH
    Capacity <- BufferSize - 1, line <- rx_fifo, waiting <- Ring

(* The ring buffer is a FIFO: what reads return is what was typed, in      *)
(* order, and input is dropped only when BufferSize - 1 characters wait.   *)
StreamSpec == Stream!Spec
=============================================================================
