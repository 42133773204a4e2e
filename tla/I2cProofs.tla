----------------------------- MODULE I2cProofs -----------------------------
(***************************************************************************)
(* What a register read returns, for every device, FIFO depth, width of    *)
(* DLEN and number of programs that share the bus.                         *)
(*                                                                         *)
(* RegistersRead speaks of a read that is over.  What makes it true is     *)
(* said of every transfer: where the controller and the driver are with    *)
(* respect to each other (Lockstep), where the bytes of a read are while   *)
(* it goes on (Counted, InOrder), and that the device still stands where   *)
(* the write of i2c_get_regs put it when its read begins (Placed).         *)
(***************************************************************************)
EXTENDS I2c, TLAPS

Busy == at # "idle"

I2cTypeOK ==
    /\ at \in {"idle", "poll", "move", "drain", "result"}
    /\ user \in Client \cup {Nobody} /\ op \in {"read", "write"}
    /\ count \in Nat /\ left \in Nat /\ pointer \in Nat
    /\ buf \in Seq(Nat) /\ fifo \in Seq(Nat)
    /\ done \in BOOLEAN /\ err \in BOOLEAN /\ active \in BOOLEAN
    /\ asked \in [Client -> [reg : 0 .. (RegSize - 1), count : Nat]]
    /\ phase \in [Client -> {"none", "set1", "set2", "write", "read"}]
    /\ fresh \in [Client -> BOOLEAN]

(* Driver and controller: a transfer is under way only while the driver    *)
(* polls; it is over when every byte has moved or the device has not       *)
(* answered; and the driver leaves its loop only after that.               *)
Lockstep ==
    /\ Busy => user \in Client /\ phase[user] # "none" /\ (op = "read" <=> phase[user] = "read")
    /\ active => at \in {"poll", "move"}
    /\ Busy => active = ~ done
    /\ ~ Busy => buf = <<>>
    /\ at \in {"drain", "result"} => done
    /\ Busy /\ done => err \/ left = 0
    /\ Busy /\ err => done /\ ~ fresh[user]

(* A read: every byte of DLEN is still to come, in the FIFO or in buf. *)
Counted ==
    Busy /\ op = "read" =>
        /\ count = asked[user].count /\ Taken <= count
        /\ Taken + Len(fifo) + left = count % DlenSize
        /\ at = "result" => Taken = count \/ fifo = <<>>

(* The register that comes k places after the one asked for. *)
Reg(k) == (asked[user].reg + k) % RegSize

(* A read whose write got through: buf, the FIFO and what the device sends *)
(* next are the registers asked for, in order.                             *)
InOrder ==
    Busy /\ op = "read" /\ fresh[user] =>
        /\ \A k \in 1 .. Taken : buf[k] = Reg(k - 1)
        /\ \A k \in 1 .. Len(fifo) : fifo[k] = Reg(Taken + k - 1)
        /\ pointer = Reg(Taken + Len(fifo))

(* The write of i2c_get_regs: until its byte leaves the FIFO, the FIFO     *)
(* holds what the driver took from its buffer, and no byte of another      *)
(* transfer.                                                               *)
Writing ==
    Busy /\ op = "write" /\ phase[user] = "write" =>
        /\ count = 1 /\ left \in {0, 1}
        /\ left = 1 => fifo = buf /\ (fifo # <<>> => fifo[1] = asked[user].reg)
        /\ left = 0 /\ fresh[user] => pointer = asked[user].reg

(* A client about to read, whose write got through and whom nobody         *)
(* disturbed, finds the device where it left it.                           *)
Placed ==
    \A c \in Client :
        phase[c] = "read" /\ fresh[c] /\ ~ (Busy /\ user = c) => pointer = asked[c].reg

I2cInv == I2cTypeOK /\ Lockstep /\ Counted /\ InOrder /\ Writing /\ Placed

----------------------------------------------------------------------------
(* A quotient that is too small leaves a remainder that is too large. *)
LEMMA ProductGrows ==
    ASSUME NEW n \in Nat, NEW p \in Int, NEW q \in Int, p < q
    PROVE  n * p + n <= n * q
<1>1. n * (q - (p + 1)) >= 0
  OBVIOUS
<1>2. n * (q - (p + 1)) = n * q - (n * p + n)
  OBVIOUS
<1> QED BY <1>1, <1>2

(* Division with remainder is unique. *)
LEMMA RemainderUnique ==
    ASSUME NEW n \in Nat \ {0}, NEW p \in Int, NEW r \in 0 .. (n - 1),
           NEW q \in Int, NEW s \in 0 .. (n - 1), n * p + r = n * q + s
    PROVE  r = s
<1>1. n * p \in Int /\ n * q \in Int
  OBVIOUS
<1>2. ASSUME p < q PROVE FALSE
  BY <1>1, <1>2, ProductGrows
<1>3. ASSUME q < p PROVE FALSE
  BY <1>1, <1>3, ProductGrows
<1> QED BY <1>1, <1>2, <1>3

LEMMA Distributes ==
    ASSUME NEW n \in Int, NEW p \in Int, NEW q \in Int
    PROVE  n * (p + q) = n * p + n * q
OBVIOUS

LEMMA DivMod ==
    ASSUME NEW n \in Nat \ {0}, NEW a \in Nat
    PROVE  a = n * (a \div n) + (a % n) /\ a \div n \in Nat /\ a % n \in 0 .. (n - 1)
OBVIOUS

(* The register after the k-th is the (k+1)-th, also where they wrap. *)
LEMMA NextMod ==
    ASSUME NEW a \in Nat
    PROVE  ((a % RegSize) + 1) % RegSize = (a + 1) % RegSize
<1> DEFINE n == RegSize
           b == (a % n) + 1
           d == a + 1
<1>1. n \in Nat \ {0}
  BY I2cAssumption
<1> HIDE DEF n
<1>2. a = n * (a \div n) + (a % n) /\ a \div n \in Nat /\ a % n \in 0 .. (n - 1)
  BY <1>1, DivMod
<1>b. b \in Nat /\ d \in Nat /\ b = (a % n) + 1 /\ d = a + 1
  BY <1>2
<1> HIDE DEF b, d
<1>3. b = n * (b \div n) + (b % n) /\ b \div n \in Nat /\ b % n \in 0 .. (n - 1)
  BY <1>1, <1>b, DivMod
<1>4. d = n * (d \div n) + (d % n) /\ d \div n \in Nat /\ d % n \in 0 .. (n - 1)
  BY <1>1, <1>b, DivMod
<1> DEFINE p == (a \div n) + (b \div n)
           q == d \div n
           r == b % n
           s == d % n
<1>5. n * p = n * (a \div n) + n * (b \div n)
  <2>1. n \in Int /\ a \div n \in Int /\ b \div n \in Int
    BY <1>1, <1>2, <1>3
  <2> QED BY <2>1, Distributes, Zenon
<1>6. n * p + r = n * q + s
  BY <1>1, <1>2, <1>3, <1>4, <1>5, <1>b
<1>7. p \in Int /\ q \in Int /\ r \in 0 .. (n - 1) /\ s \in 0 .. (n - 1)
  BY <1>2, <1>3, <1>4
<1> HIDE DEF p, q, r, s
<1>8. r = s
  BY <1>1, <1>6, <1>7, RemainderUnique
<1> QED BY <1>8 DEF r, s, n, b, d

(* A register of the device is its own number. *)
LEMMA RegIsReg ==
    ASSUME NEW a \in 0 .. (RegSize - 1)
    PROVE  (a + 0) % RegSize = a
<1>1. RegSize \in Nat \ {0}
  BY I2cAssumption
<1> QED BY <1>1

(* What DLEN holds is at most the count. *)
LEMMA DlenAtMost ==
    ASSUME NEW n \in Nat
    PROVE  n % DlenSize \in Nat /\ n % DlenSize <= n
<1>1. DlenSize \in Nat \ {0}
  BY I2cAssumption
<1> QED BY <1>1

LEMMA I2cInitInv == Init => I2cInv
<1> SUFFICES ASSUME Init PROVE I2cInv
  OBVIOUS
<1>1. I2cTypeOK
  <2>1. asked \in [Client -> [reg : 0 .. (RegSize - 1), count : Nat]]
    BY I2cAssumption DEF Init
  <2>2. done \in BOOLEAN /\ err \in BOOLEAN /\ active \in BOOLEAN /\ fresh \in [Client -> BOOLEAN]
    BY Zenon DEF Init
  <2> QED BY <2>1, <2>2 DEF Init, I2cTypeOK
<1> QED BY <1>1 DEF Init, I2cInv, Lockstep, Counted, InOrder, Writing, Placed, Busy

(* The driver sets up a transfer of n bytes for client c. *)
LEMMA SetupStep ==
    ASSUME I2cInv, NEW c \in Client, NEW o \in {"read", "write"}, NEW n \in Nat,
           Setup(c, o, n), UNCHANGED <<phase, fresh>>, phase[c] # "none",
           asked' \in [Client -> [reg : 0 .. (RegSize - 1), count : Nat]],
           \A d \in Client : phase[d] = "read" => asked'[d] = asked[d],
           o = "read" <=> phase[c] = "read",
           o = "read" => n = asked[c].count,
           phase[c] = "write" => n = 1
    PROVE  I2cInv'
<1> USE DEF I2cInv
<1>1. n % DlenSize \in Nat /\ n % DlenSize <= n /\ (n = 1 => n % DlenSize = 1)
  BY DlenAtMost, I2cAssumption
<1>2. I2cTypeOK'
  <2>1. (done \in BOOLEAN /\ err \in BOOLEAN /\ active \in BOOLEAN /\ fresh \in [Client -> BOOLEAN])'
    BY Zenon DEF I2cTypeOK, Setup
  <2> QED BY <1>1, <2>1 DEF I2cTypeOK, Setup, ClearedFifo
<1>3. Lockstep'
  BY DEF I2cTypeOK, Setup, Lockstep, Busy
<1>4. Counted'
  BY <1>1 DEF I2cTypeOK, Setup, Counted, ClearedFifo, Taken
<1>5. InOrder'
  <2> SUFFICES ASSUME o = "read", fresh[c] PROVE pointer = (asked[c].reg + 0) % RegSize
    BY DEF I2cTypeOK, Setup, InOrder, Busy, ClearedFifo, Taken, Reg
  <2>1. pointer = asked[c].reg /\ asked[c].reg \in 0 .. (RegSize - 1)
    BY DEF Placed, Setup, Busy, I2cTypeOK
  <2> QED BY <2>1, RegIsReg
<1>6. Writing'
  BY <1>1 DEF I2cTypeOK, Setup, Writing, Busy, ClearedFifo
<1>7. Placed'
  BY DEF I2cTypeOK, Setup, Placed, Busy
<1> QED BY <1>2, <1>3, <1>4, <1>5, <1>6, <1>7

(* The calls of the programs. *)
LEMMA ClientStep ==
    ASSUME I2cInv, NEW c \in Client, Start(c) \/ SetReg(c) \/ WriteReg(c) \/ ReadRegs(c)
    PROVE  I2cInv'
<1> USE DEF I2cInv
<1>1. CASE Start(c)
  <2>1. I2cTypeOK'
    BY <1>1 DEF Start, I2cTypeOK, driver, registers
  <2>2. Lockstep'
    BY <1>1 DEF Start, I2cTypeOK, driver, registers, Lockstep, Busy
  <2>3. Counted' /\ InOrder'
    BY <1>1 DEF Start, I2cTypeOK, driver, registers, Counted, InOrder, Busy, Taken, Reg
  <2>4. Writing' /\ Placed'
    BY <1>1 DEF Start, I2cTypeOK, driver, registers, Lockstep, Writing, Placed, Busy
  <2> QED BY <2>1, <2>2, <2>3, <2>4
<1>2. CASE SetReg(c)
  <2>1. asked' \in [Client -> [reg : 0 .. (RegSize - 1), count : Nat]]
    BY <1>2 DEF SetReg, clients, I2cTypeOK
  <2>2. Setup(c, "write", 2) /\ UNCHANGED <<phase, fresh>> /\ phase[c] \in {"set1", "set2"}
        /\ asked' = asked
    BY <1>2 DEF SetReg, clients
  <2> QED BY <2>1, <2>2, SetupStep
<1>3. CASE WriteReg(c)
  <2>1. asked' \in [Client -> [reg : 0 .. (RegSize - 1), count : Nat]]
    BY <1>3, I2cAssumption DEF WriteReg, I2cTypeOK
  <2>2. \A d \in Client : phase[d] = "read" => asked'[d] = asked[d]
    BY <1>3 DEF WriteReg, I2cTypeOK
  <2>3. Setup(c, "write", 1) /\ UNCHANGED <<phase, fresh>> /\ phase[c] = "write"
    BY <1>3 DEF WriteReg
  <2> QED BY <2>1, <2>2, <2>3, SetupStep
<1>4. CASE ReadRegs(c)
  <2>1. asked' \in [Client -> [reg : 0 .. (RegSize - 1), count : Nat]] /\ asked[c].count \in Nat
    BY <1>4 DEF ReadRegs, clients, I2cTypeOK
  <2>2. Setup(c, "read", asked[c].count) /\ UNCHANGED <<phase, fresh>> /\ phase[c] = "read"
        /\ asked' = asked
    BY <1>4 DEF ReadRegs, clients
  <2> QED BY <2>1, <2>2, SetupStep
<1> QED BY <1>1, <1>2, <1>3, <1>4

(* The driver asks whether the transfer is over. *)
LEMMA PollDoneStep == I2cInv /\ PollDone => I2cInv'
<1> SUFFICES ASSUME I2cInv, PollDone PROVE I2cInv'
  OBVIOUS
<1> USE DEF I2cInv
<1>0. UNCHANGED <<user, op, count, buf, done, err, fifo, left, active, pointer, asked, phase, fresh>>
  BY DEF PollDone, registers, clients
<1>1. at = "poll" /\ at' \in {"drain", "result", "move"} /\ (at' # "move" => done)
      /\ (at' = "result" => op = "write")
  BY DEF PollDone, I2cTypeOK
<1>2. I2cTypeOK' /\ Lockstep'
  BY <1>0, <1>1 DEF I2cTypeOK, Lockstep, Busy
<1>3. Counted' /\ InOrder'
  BY <1>0, <1>1 DEF Counted, InOrder, Busy, Taken, Reg
<1>4. Writing' /\ Placed'
  BY <1>0, <1>1 DEF Writing, Placed, Busy
<1> QED BY <1>2, <1>3, <1>4

(* A byte goes from the FIFO to buf, or the loop ends. *)
LEMMA ReceiveStep == I2cInv /\ Receive => I2cInv'
<1> SUFFICES ASSUME I2cInv, Receive PROVE I2cInv'
  OBVIOUS
<1> USE DEF I2cInv
<1>0. UNCHANGED <<user, op, count, done, err, left, active, pointer, asked, phase, fresh>>
      /\ op = "read" /\ at \in {"move", "drain"}
  BY DEF Receive, clients
<1>1. CASE MayReceive
  <2>1. UNCHANGED at /\ Len(buf) < count /\ fifo # <<>>
        /\ buf' = Append(buf, Head(fifo)) /\ fifo' = Tail(fifo)
    BY <1>1 DEF Receive, MayReceive, Taken
  <2>2. /\ buf' \in Seq(Nat) /\ Len(buf') = Len(buf) + 1
        /\ \A k \in 1 .. Len(buf) : buf'[k] = buf[k]
        /\ buf'[Len(buf) + 1] = fifo[1]
    BY <2>1 DEF I2cTypeOK
  <2>3. /\ fifo' \in Seq(Nat) /\ Len(fifo') = Len(fifo) - 1
        /\ \A k \in 1 .. Len(fifo') : fifo'[k] = fifo[k + 1]
    BY <2>1 DEF I2cTypeOK
  <2>4. I2cTypeOK' /\ Lockstep'
    BY <1>0, <2>1, <2>2, <2>3 DEF I2cTypeOK, Lockstep, Busy
  <2>5. Counted'
    BY <1>0, <2>1, <2>2, <2>3 DEF I2cTypeOK, Counted, Busy, Taken
  <2>6. InOrder'
    <3> SUFFICES ASSUME fresh[user]
                 PROVE  /\ \A k \in 1 .. Len(buf') : buf'[k] = Reg(k - 1)
                        /\ \A k \in 1 .. Len(fifo') : fifo'[k] = Reg(Len(buf') + k - 1)
                        /\ pointer = Reg(Len(buf') + Len(fifo'))
      BY <1>0 DEF InOrder, Taken, Reg
    <3>1. /\ \A k \in 1 .. Len(buf) : buf[k] = Reg(k - 1)
          /\ \A k \in 1 .. Len(fifo) : fifo[k] = Reg(Len(buf) + k - 1)
          /\ pointer = Reg(Len(buf) + Len(fifo))
      BY <1>0 DEF InOrder, Taken, Busy
    <3>2. Len(buf) \in Nat /\ Len(fifo) \in Nat /\ Len(fifo) >= 1
      BY <2>1 DEF I2cTypeOK
    <3>3. \A k \in 1 .. Len(buf') : buf'[k] = Reg(k - 1)
      <4> TAKE k \in 1 .. Len(buf')
      <4>1. CASE k \in 1 .. Len(buf)
        BY <4>1, <2>2, <3>1
      <4>2. CASE k = Len(buf) + 1
        BY <4>2, <2>2, <3>1, <3>2
      <4> QED BY <4>1, <4>2, <2>2, <3>2
    <3>4. \A k \in 1 .. Len(fifo') : fifo'[k] = Reg(Len(buf') + k - 1)
      <4> TAKE k \in 1 .. Len(fifo')
      <4>1. k + 1 \in 1 .. Len(fifo) /\ Len(buf) + (k + 1) - 1 = Len(buf') + k - 1
        BY <2>2, <2>3, <3>2
      <4> QED BY <4>1, <3>1, <2>3
    <3>5. Len(buf') + Len(fifo') = Len(buf) + Len(fifo)
      BY <2>2, <2>3, <3>2
    <3> QED BY <3>1, <3>3, <3>4, <3>5
  <2>7. Writing' /\ Placed'
    BY <1>0, <2>1 DEF Writing, Placed, Busy
  <2> QED BY <2>4, <2>5, <2>6, <2>7
<1>2. CASE ~ MayReceive
  <2>1. UNCHANGED <<buf, fifo>> /\ at' = (IF at = "move" THEN "poll" ELSE "result")
        /\ (Len(buf) >= count \/ fifo = <<>>)
    BY <1>2 DEF Receive, MayReceive, Taken, I2cTypeOK
  <2>2. I2cTypeOK' /\ Lockstep'
    BY <1>0, <2>1 DEF I2cTypeOK, Lockstep, Busy
  <2>3. Counted'
    BY <1>0, <2>1 DEF I2cTypeOK, Counted, Busy, Taken
  <2>4. InOrder' /\ Writing' /\ Placed'
    BY <1>0, <2>1 DEF InOrder, Writing, Placed, Busy, Taken, Reg
  <2> QED BY <2>2, <2>3, <2>4
<1> QED BY <1>1, <1>2

(* A byte goes from the buffer to the FIFO, or the loop ends. *)
LEMMA SendStep == I2cInv /\ Send => I2cInv'
<1> SUFFICES ASSUME I2cInv, Send PROVE I2cInv'
  OBVIOUS
<1> USE DEF I2cInv
<1>0. UNCHANGED <<user, op, count, done, err, left, active, pointer, asked, phase, fresh>>
      /\ op = "write" /\ at = "move"
  BY DEF Send, clients
<1> DEFINE byte == ByteToSend(Len(buf) + 1)
<1>1. byte \in Nat
  BY <1>0, I2cAssumption DEF ByteToSend, I2cTypeOK, Lockstep, Busy
<1>2. \/ UNCHANGED at /\ buf' = Append(buf, byte) /\ fifo' = Append(fifo, byte)
      \/ UNCHANGED <<buf, fifo>> /\ at' = "poll"
  BY DEF Send, Taken
<1>3. phase[user] = "write" /\ buf = <<>> => byte = asked[user].reg
  BY DEF ByteToSend
<1> HIDE DEF byte
<1>4. buf' \in Seq(Nat) /\ fifo' \in Seq(Nat)
  <2>1. buf \in Seq(Nat) /\ fifo \in Seq(Nat)
    BY DEF I2cTypeOK
  <2>2. Append(buf, byte) \in Seq(Nat) /\ Append(fifo, byte) \in Seq(Nat)
    BY <1>1, <2>1
  <2> QED BY <1>2, <2>1, <2>2, Zenon
<1>5. I2cTypeOK' /\ Lockstep'
  BY <1>0, <1>2, <1>4 DEF I2cTypeOK, Lockstep, Busy
<1>6. Counted' /\ InOrder'
  BY <1>0 DEF Counted, InOrder
<1>7. Writing'
  <2> SUFFICES ASSUME phase[user] = "write", left = 1
               PROVE  fifo' = buf' /\ (fifo' # <<>> => fifo'[1] = asked[user].reg)
    BY <1>0 DEF Writing, Busy
  <2>1. fifo = buf /\ (fifo # <<>> => fifo[1] = asked[user].reg)
    BY <1>0 DEF Writing, Busy
  <2>2. CASE UNCHANGED <<buf, fifo>>
    BY <2>1, <2>2
  <2>3. CASE buf' = Append(buf, byte) /\ fifo' = Append(fifo, byte)
    <3>1. buf \in Seq(Nat)
      BY DEF I2cTypeOK
    <3>2. CASE buf = <<>>
      BY <1>3, <2>1, <2>3, <3>2
    <3>3. CASE buf # <<>>
      <4>1. Append(buf, byte)[1] = buf[1]
        BY <1>1, <3>1, <3>3
      <4> QED BY <2>1, <2>3, <3>3, <4>1
    <3> QED BY <3>2, <3>3
  <2> QED BY <1>2, <2>2, <2>3
<1>8. Placed'
  BY <1>0, <1>2 DEF Placed, Busy
<1> QED BY <1>5, <1>6, <1>7, <1>8

(* The call returns and its client goes on. *)
LEMMA FinishStep == I2cInv /\ Finish => I2cInv'
<1> SUFFICES ASSUME I2cInv, Finish PROVE I2cInv'
  OBVIOUS
<1> USE DEF I2cInv
<1>0. /\ at = "result" /\ at' = "idle" /\ user' = Nobody /\ count' = 0 /\ buf' = <<>>
      /\ done' = FALSE /\ err' = FALSE
      /\ UNCHANGED <<op, fifo, left, active, pointer, asked, fresh>>
  BY DEF Finish
<1>1. user \in Client /\ ~ active
  BY <1>0 DEF Lockstep, Busy
<1>2. /\ phase' \in [Client -> {"none", "set1", "set2", "write", "read"}]
      /\ \A c \in Client \ {user} : phase'[c] = phase[c]
      /\ phase'[user] = "read" => phase[user] = "write"
  BY <1>1 DEF Finish, AfterCall, I2cTypeOK
<1>3. I2cTypeOK'
  <2>1. (done \in BOOLEAN /\ err \in BOOLEAN /\ active \in BOOLEAN /\ fresh \in [Client -> BOOLEAN])'
    BY <1>0, Zenon DEF I2cTypeOK
  <2> QED BY <1>0, <1>2, <2>1 DEF I2cTypeOK
<1>4. Lockstep' /\ Counted' /\ InOrder' /\ Writing'
  BY <1>0, <1>1 DEF Lockstep, Counted, InOrder, Writing, Busy
<1>5. Placed'
  <2> SUFFICES ASSUME NEW c \in Client, phase'[c] = "read", fresh[c] PROVE pointer = asked[c].reg
    BY <1>0 DEF Placed
  <2>1. CASE c = user
    BY <1>0, <1>1, <1>2, <2>1 DEF I2cTypeOK, Lockstep, Writing, Busy
  <2>2. CASE c # user
    BY <1>2, <2>2 DEF Placed
  <2> QED BY <2>1, <2>2
<1> QED BY <1>3, <1>4, <1>5

(* A register comes in: the next one of a read that is where it should be. *)
LEMMA BusInStep == I2cInv /\ BusIn => I2cInv'
<1> SUFFICES ASSUME I2cInv, BusIn PROVE I2cInv'
  OBVIOUS
<1> USE DEF I2cInv
<1>0. /\ active /\ op = "read" /\ left > 0 /\ fifo' = Append(fifo, pointer) /\ left' = left - 1
      /\ pointer' = (pointer + 1) % RegSize
      /\ UNCHANGED <<at, user, op, count, buf, done, err, active, asked, phase>>
  BY DEF BusIn, driver, clients
<1>1. /\ fresh' \in [Client -> BOOLEAN]
      /\ \A c \in Client : fresh'[c] => fresh[c] /\ c = user
  BY Zenon DEF BusIn
<1>2. at \in {"poll", "move"} /\ user \in Client /\ phase[user] = "read"
  BY <1>0 DEF Lockstep, Busy
<1>3. /\ fifo' \in Seq(Nat) /\ Len(fifo') = Len(fifo) + 1 /\ fifo'[Len(fifo) + 1] = pointer
      /\ \A k \in 1 .. Len(fifo) : fifo'[k] = fifo[k]
  BY <1>0 DEF I2cTypeOK
<1>4. pointer' \in Nat
  BY <1>0, I2cAssumption DEF I2cTypeOK
<1>5. I2cTypeOK'
  BY <1>0, <1>1, <1>3, <1>4 DEF I2cTypeOK
<1>6. Lockstep'
  BY <1>0, <1>1, <1>2 DEF I2cTypeOK, Lockstep, Busy
<1>7. Counted'
  BY <1>0, <1>2, <1>3 DEF I2cTypeOK, Counted, Busy, Taken
<1>8. InOrder'
  <2> SUFFICES ASSUME fresh[user]
               PROVE  /\ \A k \in 1 .. Len(buf) : buf[k] = Reg(k - 1)
                      /\ \A k \in 1 .. Len(fifo') : fifo'[k] = Reg(Len(buf) + k - 1)
                      /\ pointer' = Reg(Len(buf) + Len(fifo'))
    BY <1>0, <1>1, <1>2 DEF InOrder, Taken, Reg
  <2>1. /\ \A k \in 1 .. Len(buf) : buf[k] = Reg(k - 1)
        /\ \A k \in 1 .. Len(fifo) : fifo[k] = Reg(Len(buf) + k - 1)
        /\ pointer = Reg(Len(buf) + Len(fifo))
    BY <1>0, <1>2 DEF InOrder, Taken, Busy
  <2>2. Len(buf) \in Nat /\ Len(fifo) \in Nat /\ asked[user].reg \in Nat
    BY <1>2, I2cAssumption DEF I2cTypeOK
  <2>3. \A k \in 1 .. Len(fifo') : fifo'[k] = Reg(Len(buf) + k - 1)
    <3> TAKE k \in 1 .. Len(fifo')
    <3>1. CASE k \in 1 .. Len(fifo)
      BY <3>1, <1>3, <2>1
    <3>2. CASE k = Len(fifo) + 1
      <4>1. Len(buf) + k - 1 = Len(buf) + Len(fifo)
        BY <3>2, <2>2
      <4> QED BY <3>2, <4>1, <1>3, <2>1
    <3> QED BY <3>1, <3>2, <1>3, <2>2
  <2>4. pointer' = Reg(Len(buf) + Len(fifo'))
    <3> DEFINE a == asked[user].reg + (Len(buf) + Len(fifo))
    <3>1. a \in Nat /\ a + 1 = asked[user].reg + (Len(buf) + Len(fifo'))
      BY <1>3, <2>2
    <3>2. pointer' = ((a % RegSize) + 1) % RegSize
      BY <1>0, <2>1 DEF Reg
    <3> HIDE DEF a
    <3> QED BY <3>1, <3>2, NextMod DEF Reg
  <2> QED BY <2>1, <2>3, <2>4
<1>9. Writing' /\ Placed'
  BY <1>0, <1>1, <1>2 DEF Writing, Placed, Busy
<1> QED BY <1>5, <1>6, <1>7, <1>8, <1>9

(* A byte goes out: the one byte of i2c_get_regs puts the device in place. *)
LEMMA BusOutStep == I2cInv /\ BusOut => I2cInv'
<1> SUFFICES ASSUME I2cInv, BusOut PROVE I2cInv'
  OBVIOUS
<1> USE DEF I2cInv
<1>0. /\ active /\ op = "write" /\ left > 0 /\ fifo # <<>> /\ fifo' = Tail(fifo) /\ left' = left - 1
      /\ pointer' = (IF left = count THEN Head(fifo) ELSE (pointer + 1) % RegSize)
      /\ UNCHANGED <<at, user, op, count, buf, done, err, active, asked, phase>>
  BY DEF BusOut, driver, clients
<1>1. /\ fresh' \in [Client -> BOOLEAN]
      /\ \A c \in Client : fresh'[c] => c = user
  BY Zenon DEF BusOut
<1>2. at \in {"poll", "move"} /\ user \in Client /\ phase[user] # "read"
  BY <1>0 DEF Lockstep, Busy
<1>3. fifo' \in Seq(Nat) /\ Head(fifo) = fifo[1] /\ fifo[1] \in Nat
  BY <1>0 DEF I2cTypeOK
<1>4. pointer' \in Nat
  BY <1>0, <1>3, I2cAssumption DEF I2cTypeOK
<1>5. I2cTypeOK'
  BY <1>0, <1>1, <1>3, <1>4 DEF I2cTypeOK
<1>6. Lockstep'
  BY <1>0, <1>1, <1>2 DEF I2cTypeOK, Lockstep, Busy
<1>7. Counted' /\ InOrder'
  BY <1>0 DEF Counted, InOrder
<1>8. Writing'
  <2> SUFFICES ASSUME phase[user] = "write"
               PROVE  count = 1 /\ left' = 0 /\ pointer' = asked[user].reg
    BY <1>0, <1>2 DEF Writing, Busy
  <2>1. count = 1 /\ left \in {0, 1} /\ (left = 1 => fifo[1] = asked[user].reg)
    BY <1>0, <1>2 DEF Writing, Busy
  <2> QED BY <1>0, <1>3, <2>1
<1>9. Placed'
  BY <1>0, <1>1, <1>2 DEF Placed, Busy
<1> QED BY <1>5, <1>6, <1>7, <1>8, <1>9

(* The transfer ends, all of it done or not acknowledged. *)
LEMMA OverStep == I2cInv /\ (BusEnd \/ NoAck) => I2cInv'
<1> SUFFICES ASSUME I2cInv, BusEnd \/ NoAck PROVE I2cInv'
  OBVIOUS
<1> USE DEF I2cInv
<1>0. /\ active /\ active' = FALSE /\ done' = TRUE
      /\ UNCHANGED <<at, user, op, count, buf, fifo, left, pointer, asked, phase>>
      /\ \/ left = 0 /\ UNCHANGED <<err, fresh>>
         \/ err' = TRUE /\ fresh' = [fresh EXCEPT ![user] = FALSE]
  BY DEF BusEnd, NoAck, driver, clients
<1>1. at \in {"poll", "move"} /\ user \in Client
  BY <1>0 DEF Lockstep, Busy
<1>2. /\ fresh' \in [Client -> BOOLEAN] /\ err' \in BOOLEAN
      /\ active' \in BOOLEAN /\ done' \in BOOLEAN
      /\ \A c \in Client : fresh'[c] => fresh[c]
      /\ err' => err \/ ~ fresh'[user]
      /\ left = 0 \/ err'
  <2>1. fresh \in [Client -> BOOLEAN] /\ err \in BOOLEAN
    BY DEF I2cTypeOK
  <2>2. CASE left = 0 /\ UNCHANGED <<err, fresh>>
    BY <1>0, <2>1, <2>2
  <2>3. CASE err' = TRUE /\ fresh' = [fresh EXCEPT ![user] = FALSE]
    BY <1>0, <1>1, <2>1, <2>3
  <2> QED BY <1>0, <2>2, <2>3
<1>3. I2cTypeOK'
  BY <1>0, <1>2 DEF I2cTypeOK
<1>4. Lockstep'
  BY <1>0, <1>1, <1>2 DEF I2cTypeOK, Lockstep, Busy
<1>5. Counted' /\ Writing'
  BY <1>0, <1>1, <1>2 DEF Counted, Writing, Busy, Taken
<1>6. InOrder' /\ Placed'
  BY <1>0, <1>1, <1>2 DEF InOrder, Placed, Busy, Taken, Reg
<1> QED BY <1>3, <1>4, <1>5, <1>6

LEMMA I2cInvInductive == I2cInv /\ [Next]_vars => I2cInv'
<1> SUFFICES ASSUME I2cInv, [Next]_vars PROVE I2cInv'
  OBVIOUS
<1>1. CASE Driver
  BY <1>1, PollDoneStep, ReceiveStep, SendStep, FinishStep DEF Driver
<1>2. CASE Moves \/ NoAck
  BY <1>2, BusInStep, BusOutStep, OverStep DEF Moves
<1>3. CASE \E c \in Client : Start(c) \/ SetReg(c) \/ WriteReg(c) \/ ReadRegs(c)
  BY <1>3, ClientStep
<1>4. CASE UNCHANGED vars
  BY <1>4 DEF vars, driver, registers, clients, I2cInv, I2cTypeOK, Lockstep, Counted, InOrder,
              Writing, Placed, Busy, Taken, Reg
<1> QED BY <1>1, <1>2, <1>3, <1>4 DEF Next

(* A read that is over has what was asked for. *)
LEMMA ReadOver == I2cInv => RegistersRead
<1> SUFFICES ASSUME I2cInv, op = "read" PROVE RegistersRead
  BY DEF RegistersRead
<1> USE DEF I2cInv
<1>1. Taken <= count
  BY DEF Counted, Lockstep, Busy, Taken, I2cTypeOK
<1>2. ASSUME at = "result", Result >= 0
      PROVE  /\ Result = count % DlenSize
             /\ fresh[user] => buf = [k \in 1 .. Result |-> (asked[user].reg + k - 1) % RegSize]
  <2>1. ~ err /\ Result = Len(buf) /\ left = 0 /\ user \in Client
    BY <1>2 DEF Result, Lockstep, Busy, Taken
  <2>2. count \in Nat /\ Len(buf) \in Nat /\ Len(fifo) \in Nat
        /\ count % DlenSize \in Nat /\ count % DlenSize <= count
    <3>1. count \in Nat /\ buf \in Seq(Nat) /\ fifo \in Seq(Nat)
      BY DEF I2cTypeOK
    <3>2. count % DlenSize \in Nat /\ count % DlenSize <= count
      BY <3>1, DlenAtMost
    <3>3. Len(buf) \in Nat /\ Len(fifo) \in Nat
      BY <3>1
    <3> HIDE DEF I2cInv
    <3> QED BY <3>1, <3>2, <3>3, Zenon
  <2>3. Len(buf) = count % DlenSize
    BY <1>2, <2>1, <2>2 DEF Counted, Busy, Taken
  <2>4. ASSUME fresh[user], NEW k \in 1 .. Len(buf)
        PROVE  buf[k] = (asked[user].reg + k - 1) % RegSize
    <3>1. asked[user].reg \in Nat /\ asked[user].reg + (k - 1) = asked[user].reg + k - 1
      BY <2>1, <2>2, I2cAssumption DEF I2cTypeOK
    <3> QED BY <1>2, <2>4, <3>1 DEF InOrder, Busy, Taken, Reg
  <2>5. buf \in Seq(Nat)
    BY DEF I2cTypeOK
  <2> QED BY <2>1, <2>3, <2>4, <2>5
<1> QED BY <1>1, <1>2 DEF RegistersRead

(* Whatever the device answers and however the polling loop of i2c1_read   *)
(* and the bus alternate, a read never writes past its buffer, and without *)
(* an error it returns the bytes it asked for: the right registers, if the *)
(* write of i2c_get_regs got through and nobody used the bus after it.     *)
THEOREM ReadsRegisters == Spec => []RegistersRead
<1>1. Spec => []I2cInv
  BY I2cInitInv, I2cInvInductive, PTL DEF Spec
<1> QED BY <1>1, ReadOver, PTL
=============================================================================
