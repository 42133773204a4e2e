-------------------------------- MODULE I2c --------------------------------
(***************************************************************************)
(* The I2C bus: the driver that polls the controller's registers           *)
(* (kernel/drivers/i2c/bcm2835_i2c.c, behind i2c.c), the programs that     *)
(* read registers of the game controller with a write and a read           *)
(* (userspace/wii_controller.c, bet_amount.c), and, external, the BSC      *)
(* controller and the device as the driver uses them.                      *)
(*                                                                         *)
(* A system call masks interrupts, so that a transfer is not interrupted   *)
(* by other processes; the bus moves bytes between any two accesses to the *)
(* registers.  Between its write and its read a program sleeps, and others *)
(* may use the bus.  A byte is the number of the register it is read from; *)
(* the first byte written to the device chooses the register that follows. *)
(***************************************************************************)
EXTENDS Integers, SequencesExt

CONSTANTS
    Client,     \* processes that use the bus
    Regs,       \* reg_addr arguments of i2c_get_regs
    Counts,     \* their counts
    RegSize,    \* 256: registers of the device
    FifoSize,   \* 16: bytes in the controller's FIFO
    DlenSize,   \* 2^16: DLEN holds 16 bits
    Config,     \* 0xF0, 0xFB: registers init_controller sets
    Other,      \* a value to set, or a byte from behind the buffer
    Nobody      \* no client

ASSUME I2cAssumption ==
    /\ RegSize \in Nat \ {0} /\ Regs \cup {Config} \subseteq 0 .. (RegSize - 1) /\ Counts \subseteq Nat
    /\ DlenSize > 2
    /\ FifoSize \in Nat \ {0} /\ DlenSize \in Nat \ {0}
    /\ Nobody \notin Client /\ Other \in Nat /\ Other >= RegSize

VARIABLES
    at,         \* where the driver is
    user,       \* the client whose call it handles
    op,         \* "read" or "write"
    count,      \* count
    buf,        \* bytes received; for a write, the bytes taken from buf
    done, err,  \* S_DONE and S_ERR
    fifo,       \* FIFO
    left,       \* DLEN, counting down
    active,     \* a transfer has been started and is not over
    pointer,    \* the register the device sends next
    asked,      \* [reg, count] of the i2c_get_regs a client is in
    phase,      \* the transfer a client starts next, or "none"
    fresh       \* ghost: the device is where the client's write put it

driver == <<at, user, op, count, buf>>
registers == <<done, err, fifo, left, active>>
clients == <<asked, phase>>
vars == <<driver, registers, pointer, clients, fresh>>

Taken == Len(buf)

----------------------------------------------------------------------------
(* Mutation of ClearedFifo: I2C_C_CLEAR is not set. *)
KeptFifo == fifo

(* I2C_C_CLEAR *)
ClearedFifo == <<>>

(* i2c1_setup_xfer, then ST with or without READ. *)
Setup(c, o, n) ==
    /\ at = "idle"
    /\ at' = "poll" /\ user' = c /\ op' = o /\ count' = n /\ buf' = <<>>
    /\ done' = FALSE /\ err' = FALSE
    /\ left' = n % DlenSize
    /\ fifo' = ClearedFifo
    /\ active' = TRUE
    /\ UNCHANGED pointer

(* A program is started. *)
Start(c) ==
    /\ phase[c] = "none"
    /\ phase' = [phase EXCEPT ![c] = "set1"]
    /\ UNCHANGED <<driver, registers, pointer, asked, fresh>>

(* init_controller: two calls of i2c_set_reg, of 2 bytes each. *)
SetReg(c) ==
    /\ phase[c] \in {"set1", "set2"}
    /\ Setup(c, "write", 2)
    /\ UNCHANGED <<clients, fresh>>

(* i2c_get_regs: the register is written, and what i2c_write returns is    *)
(* not looked at ...                                                       *)
WriteReg(c) ==
    /\ phase[c] = "write"
    /\ Setup(c, "write", 1)
    /\ \E r \in Regs, n \in Counts : asked' = [asked EXCEPT ![c] = [reg |-> r, count |-> n]]
    /\ UNCHANGED <<phase, fresh>>

(* ... and after usleep the registers are read. *)
ReadRegs(c) ==
    /\ phase[c] = "read"
    /\ Setup(c, "read", asked[c].count)
    /\ UNCHANGED <<clients, fresh>>

(* Mutation of PollDone: DONE is waited for before any byte is moved. *)
PollDoneFirst ==
    /\ at = "poll" /\ done
    /\ at' = IF op = "read" THEN "drain" ELSE "result"
    /\ UNCHANGED <<user, op, count, buf, registers, pointer, clients, fresh>>

(* while (!XFER_DONE(I2C1)) *)
PollDone ==
    /\ at = "poll"
    /\ at' = CASE done /\ op = "read" -> "drain"
               [] done /\ op = "write" -> "result"
               [] OTHER -> "move"
    /\ UNCHANGED <<user, op, count, buf, registers, pointer, clients, fresh>>

(* bytes_received < count && (bcm2835_read(I2C1_S) & I2C_S_RXD) *)
MayReceive == Taken < count /\ fifo # <<>>

(* A byte is taken from the FIFO, or the loop ends. *)
Receive ==
    /\ op = "read" /\ at \in {"move", "drain"}
    /\ IF MayReceive
       THEN buf' = Append(buf, Head(fifo)) /\ fifo' = Tail(fifo) /\ UNCHANGED at
       ELSE at' = (IF at = "move" THEN "poll" ELSE "result") /\ UNCHANGED <<buf, fifo>>
    /\ UNCHANGED <<user, op, count, done, err, left, active, pointer, clients, fresh>>

(* S_TXW: room in the FIFO of a write that goes on.  It must be set when   *)
(* the bus waits for a byte; the manual leaves open whether it is when all *)
(* bytes of the transfer are in the FIFO already.                          *)
TXW ==
    LET room == active /\ Len(fifo) < FifoSize
    IN  {b \in BOOLEAN : (b => room) /\ ((room /\ Len(fifo) < left) => b)}

(* The bytes of i2c_get_regs, &reg_addr, and of i2c_set_reg, and then what *)
(* is behind them.                                                         *)
ByteToSend(k) ==
    CASE k = 1 /\ phase[user] = "write" -> asked[user].reg
      [] k = 1 /\ phase[user] # "write" -> Config
      [] OTHER -> Other

(* The write loop asks for TXW alone, and may pass the end of its buffer. *)
Send ==
    /\ op = "write" /\ at = "move"
    /\ \E txw \in TXW :
        IF txw
        THEN /\ buf' = Append(buf, ByteToSend(Taken + 1))
             /\ fifo' = Append(fifo, ByteToSend(Taken + 1))
             /\ UNCHANGED at
        ELSE at' = "poll" /\ UNCHANGED <<buf, fifo>>
    /\ UNCHANGED <<user, op, count, done, err, left, active, pointer, clients, fresh>>

(* The clock stretch timeout is off, and CLKT is never set. *)
Result == IF err THEN -1 ELSE Taken

(* What a program does after a call: it ends unless i2c_set_reg returned 2 *)
(* and i2c_get_regs the count it asked for.                                *)
AfterCall(p) ==
    CASE p = "set1" /\ Result = 2 -> "set2"
      [] p = "set2" /\ Result = 2 -> "write"
      [] p = "write" -> "read"
      [] p = "read" /\ Result = count -> "write"
      [] OTHER -> "none"

(* DONE and the errors are cleared by writing them back, and the call      *)
(* returns Result.                                                         *)
Finish ==
    /\ at = "result"
    /\ at' = "idle" /\ user' = Nobody /\ count' = 0 /\ buf' = <<>>
    /\ done' = FALSE /\ err' = FALSE
    /\ phase' = [phase EXCEPT ![user] = AfterCall(@)]
    /\ UNCHANGED <<op, fifo, left, active, pointer, asked, fresh>>

----------------------------------------------------------------------------
(* The bus, external: a byte in, a byte out, the end, no acknowledgement. *)

BusIn ==
    /\ active /\ op = "read" /\ left > 0 /\ Len(fifo) < FifoSize
    /\ fifo' = Append(fifo, pointer)
    /\ left' = left - 1
    /\ pointer' = (pointer + 1) % RegSize
    /\ fresh' = [c \in Client |-> fresh[c] /\ c = user]
    /\ UNCHANGED <<driver, done, err, active, clients>>

BusOut ==
    /\ active /\ op = "write" /\ left > 0 /\ fifo # <<>>
    /\ fifo' = Tail(fifo)
    /\ left' = left - 1
    /\ pointer' = IF left = count THEN Head(fifo) ELSE (pointer + 1) % RegSize
    /\ fresh' = [c \in Client |-> c = user /\ phase[c] = "write"]
    /\ UNCHANGED <<driver, done, err, active, clients>>

BusEnd ==
    /\ active /\ left = 0
    /\ active' = FALSE /\ done' = TRUE
    /\ UNCHANGED <<driver, err, fifo, left, pointer, clients, fresh>>

NoAck ==
    /\ active /\ left > 0
    /\ active' = FALSE /\ done' = TRUE /\ err' = TRUE
    /\ fresh' = [fresh EXCEPT ![user] = FALSE]
    /\ UNCHANGED <<driver, fifo, left, pointer, clients>>

----------------------------------------------------------------------------
Init ==
    /\ at = "idle" /\ user = Nobody /\ op = "read" /\ count = 0 /\ buf = <<>>
    /\ done = FALSE /\ err = FALSE /\ fifo = <<>> /\ left = 0 /\ active = FALSE
    /\ pointer = 0
    /\ asked = [c \in Client |-> [reg |-> 0, count |-> 0]]
    /\ phase = [c \in Client |-> "none"]
    /\ fresh = [c \in Client |-> FALSE]

Driver == PollDone \/ Receive \/ Send \/ Finish

Moves == BusIn \/ BusOut \/ BusEnd

Next == Driver \/ Moves \/ NoAck \/ \E c \in Client : Start(c) \/ SetReg(c) \/ WriteReg(c) \/ ReadRegs(c)

(* The driver runs, with interrupts masked, and the device does not hold   *)
(* the clock for ever: nothing else would end the loop, it has no timeout. *)
(* An error may never come to its help.                                    *)
Fairness == WF_vars(Driver) /\ WF_vars(Moves)

Spec == Init /\ [][Next]_vars /\ Fairness

----------------------------------------------------------------------------
(* A read that reports no error has the registers that were asked for, one *)
(* after the other, if the write before it got through and nobody else     *)
(* used the bus while the program slept: no byte of an earlier transfer,   *)
(* of what a write put into the FIFO in excess or of a transfer that was   *)
(* broken off is among them.  It never writes past its buffer, and what it *)
(* returns is the count unless DLEN was too small for it.                  *)
RegistersRead ==
    op = "read" =>
        /\ Taken <= count
        /\ (at = "result" /\ Result >= 0) =>
            /\ Result = count % DlenSize
            /\ fresh[user] => buf = [k \in 1 .. Result |-> (asked[user].reg + k - 1) % RegSize]

(* Every transfer ends: driver and controller never wait for each other,   *)
(* the one for DONE and the other for a FIFO that is full or empty.        *)
TransfersEnd == (at # "idle") ~> (at = "idle")
=============================================================================
