-------------------------- MODULE ProcessesProofs --------------------------
(***************************************************************************)
(* Proofs about the process list, the scheduler and the process calls, for *)
(* any number of processes.  The lemmas on steps are stated without the    *)
(* specification they belong to, so that KernelProofs can use them where   *)
(* the other parts of the kernel take steps too.                           *)
(***************************************************************************)
EXTENDS Processes, NaturalsInduction, WellFoundedInduction,
        SequenceTheorems, TLAPS

(* The idle task never sleeps or exits, and is never inside the kernel. *)
IdleRuns == status[Idle] = READY /\ pc[Idle] = "user"

(* An EXITED process is on the list, inside exit, until it is reaped (or  *)
(* revived by the execve of a child): this is what keeps a linked process *)
(* from being destroyed.                                                  *)
ZombiesWait == \A p \in Pcb : status[p] = EXITED => p \in Live /\ pc[p] = "exit"

(* The waitpid queue links live processes inside the loop (up to the end),*)
(* whose targets have not exited, and it has everyone who sleeps there.   *)
WaitersQueued ==
    /\ \A p \in waitpid_queue :
          /\ p \in Live /\ StatusAt(target[p]) # EXITED
          /\ pc[p] = "waitpid" \/ double_free
    /\ \A p \in Pcb : (pc[p] = "waitpid" /\ status[p] = SLEEPING) => p \in waitpid_queue

(* Nobody else has the memory of a PCB on the list. *)
Owned == \A p \in Live : status[p] # TAKEN

(* A waiter's pointer is sound unless somebody else has reaped what it     *)
(* waits for.                                                              *)
PointersSound ==
    ~ contended => \A p \in Live : pc[p] = "waitpid" => target[p] \in Live \cup {NoPcb}

(* The inductive invariant of the process core. *)
ProcInv ==
    /\ ListByPid /\ CurrentRuns /\ DestroyedOnce
    /\ IdleRuns /\ ZombiesWait /\ WaitersQueued /\ Owned /\ PointersSound

(* What a step of one part leaves to another: who is inside one of these  *)
(* loops stays there, on the list, and nobody starts to sleep in them.    *)
LeavesAlone(loops) ==
    \A q \in Pcb, l \in loops :
        /\ (q \in Live /\ pc[q] = l) => (q \in Live' /\ pc'[q] = l)
        /\ (pc'[q] = l /\ status'[q] = SLEEPING) => (pc[q] = l /\ status[q] = SLEEPING)

----------------------------------------------------------------------------
(* A non-empty set of naturals has a least member, and Min is it. *)
LEMMA MinOfNats ==
    ASSUME NEW T, T \subseteq Nat, T # {}
    PROVE  Min(T) \in T /\ \A y \in T : Min(T) <= y
<1>1. PICK x \in T : \A y \in T : ~ (<<y, x>> \in OpToRel(<, Nat))
  BY NatLessThanWellFounded, WFMin
<1>2. \A y \in T : ~ (y < x)
  BY <1>1, Zenon DEF OpToRel
<1>3. \A y \in T : x =< y
  BY <1>2
<1> QED BY <1>3 DEF Min

(* A set of turns that holds turn 0, and with each turn the next, holds    *)
(* them all.                                                               *)
LEMMA EveryTurn ==
    ASSUME NEW n \in Nat, NEW S, 0 \in S,
           \A k \in 0 .. (n - 1) : k \in S => (k + 1) \in S
    PROVE  \A k \in 0 .. n : k \in S
<1> DEFINE T == {k \in 0 .. n : k \notin S}
<1> SUFFICES ASSUME T # {} PROVE FALSE
  OBVIOUS
<1>1. Min(T) \in T /\ \A y \in T : Min(T) <= y
  <2>1. T \subseteq Nat
    OBVIOUS
  <2> HIDE DEF T
  <2> QED BY <2>1, MinOfNats
<1>2. PICK x : x = Min(T)
  OBVIOUS
<1>3. x \in T /\ \A y \in T : x <= y
  BY <1>1, <1>2
<1>4. x - 1 \in 0 .. (n - 1) /\ x - 1 \in S /\ x = (x - 1) + 1
  BY <1>3
<1> QED BY <1>3, <1>4

(* RemoveFirst takes out the element at its one place and closes the gap. *)
LEMMA RemovedFrom ==
    ASSUME NEW S, NEW s \in Seq(S), NEW k \in 1 .. Len(s),
           \A i \in 1 .. Len(s) : s[i] = s[k] => i = k,
           NEW r, r = RemoveFirst(s, s[k])
    PROVE  /\ r \in Seq(S) /\ Len(r) = Len(s) - 1
           /\ \A i \in 1 .. (Len(s) - 1) : r[i] = s[IF i < k THEN i ELSE i + 1]
<1>0. Len(s) \in Nat /\ k \in Nat
  OBVIOUS
<1> DEFINE I == {i \in 1 .. Len(s) : s[i] = s[k]}
<1>1. I = {k}
  OBVIOUS
<1>2. Min(I) = k
  BY <1>0, <1>1 DEF Min
<1>3. SelectInSeq(s, LAMBDA v : v = s[k]) = k
  BY <1>1, <1>2 DEF SelectInSeq
<1> DEFINE a == SubSeq(s, 1, k - 1)
           b == SubSeq(s, k + 1, Len(s))
<1>4. r = a \o b
  BY <1>3 DEF RemoveFirst, RemoveAt
<1>5. /\ a \in Seq(S) /\ Len(a) = k - 1
      /\ \A i \in 1 .. (k - 1) : a[i] = s[i]
  <2>1. \A i \in 1 .. (k - 1) : s[i] \in S
    OBVIOUS
  <2> QED BY <2>1, SubSeqProperties
<1>6. /\ b \in Seq(S) /\ Len(b) = Len(s) - k
      /\ \A i \in 1 .. (Len(s) - k) : b[i] = s[k + i]
  <2>1. \A i \in (k + 1) .. Len(s) : s[i] \in S
    OBVIOUS
  <2> QED BY <2>1, SubSeqProperties
<1> HIDE DEF a, b
<1>7. /\ r \in Seq(S) /\ Len(r) = Len(a) + Len(b)
      /\ \A i \in 1 .. (Len(a) + Len(b)) : r[i] = IF i <= Len(a) THEN a[i] ELSE b[i - Len(a)]
  <2>1. a \in Seq(S) /\ b \in Seq(S)
    BY <1>5, <1>6
  <2>2. /\ a \o b \in Seq(S) /\ Len(a \o b) = Len(a) + Len(b)
        /\ \A i \in 1 .. (Len(a) + Len(b)) :
              (a \o b)[i] = IF i <= Len(a) THEN a[i] ELSE b[i - Len(a)]
    BY <2>1, ConcatProperties
  <2> QED BY <2>2, <1>4, Zenon
<1>8. Len(a) + Len(b) = Len(s) - 1
  BY <1>0, <1>5, <1>6
<1>9. ASSUME NEW i \in 1 .. (Len(s) - 1)  PROVE r[i] = s[IF i < k THEN i ELSE i + 1]
  <2>1. CASE i < k
    BY <1>0, <1>5, <1>7, <1>8, <2>1
  <2>2. CASE ~ (i < k)
    <3>1. i - (k - 1) \in 1 .. (Len(s) - k) /\ k + (i - (k - 1)) = i + 1
      BY <1>0, <2>2
    <3>2. r[i] = b[i - (k - 1)]
      BY <1>0, <1>5, <1>7, <1>8, <2>2
    <3> QED BY <1>6, <2>2, <3>1, <3>2
  <2> QED BY <2>1, <2>2
<1> QED BY <1>7, <1>8, <1>9

(* schedule() chooses a READY process of the list, if the idle task is    *)
(* one and the caller is on the list.                                     *)
LEMMA ChosenRuns ==
    ASSUME NEW list \in Seq(Pcb), NEW st \in [Pcb -> {SLEEPING, READY, EXITED, POISON, TAKEN}],
           NEW cur \in ToSet(list), list[1] = Idle, st[Idle] = READY
    PROVE  /\ NextProcess(list, st, cur) \in ToSet(list)
           /\ st[NextProcess(list, st, cur)] = READY
<1> DEFINE n == Len(list) - 1
           k == CHOOSE i \in 1 .. Len(list) : list[i] = cur
           start == IF k = 1 THEN 2 ELSE k
           after(d) == list[2 + ((start - 2 + d) % n)]
           ready == {d \in 1 .. n : st[after(d)] = READY}
<1>1. k \in 1 .. Len(list)
  BY DEF ToSet
<1>2. n \in Nat /\ 1 \in DOMAIN list
  BY <1>1
<1>3. CASE n = 0 \/ ready = {}
  BY <1>2, <1>3 DEF NextProcess, ToSet
<1>4. CASE ~ (n = 0 \/ ready = {})
  <2>1. Min(ready) \in ready
    <3>1. ready \subseteq 1 .. n /\ ready # {}
      BY <1>4
    <3>2. ready \subseteq Nat
      BY <3>1, <1>2
    <3> HIDE DEF ready
    <3> QED BY <3>1, <3>2, MinOfNats
  <2>2. NextProcess(list, st, cur) = after(Min(ready))
    BY <1>4 DEF NextProcess
  <2>3. start \in Nat /\ start >= 2 /\ Min(ready) \in Nat
    <3> HIDE DEF k
    <3> QED BY <1>1, <2>1
  <2>4. (start - 2 + Min(ready)) % n \in 0 .. (n - 1)
    <3> HIDE DEF start, ready, n
    <3> QED BY <2>3, <1>2, <1>4
  <2>5. 2 + ((start - 2 + Min(ready)) % n) \in DOMAIN list
    <3> DEFINE x == (start - 2 + Min(ready)) % n
    <3>1. x \in 0 .. (n - 1)
      BY <2>4
    <3> HIDE DEF x
    <3>2. 2 + x \in DOMAIN list
      BY <1>2, <3>1
    <3> QED BY <3>2 DEF x
  <2> QED BY <2>1, <2>2, <2>5 DEF ToSet
<1> QED BY <1>3, <1>4

----------------------------------------------------------------------------
(* A step that creates and destroys nobody keeps the list. *)
LEMMA ListKept ==
    ASSUME ListByPid, UNCHANGED <<procs, pid, avail_pid>>, ProcTypeOK'
    PROVE  ListByPid'
BY DEF ListByPid, ListSound

(* A step that ends in schedule() leaves the CPU to a READY process. *)
LEMMA ScheduleStep ==
    ASSUME ProcTypeOK, Schedule, current \in Live',
           procs' \in Seq(Pcb), status' \in [Pcb -> {SLEEPING, READY, EXITED, POISON, TAKEN}],
           procs'[1] = Idle, status'[Idle] = READY
    PROVE  CurrentRuns' /\ current' \in Pcb
<1>1. current' \in ToSet(procs') /\ status'[current'] = READY
  BY ChosenRuns DEF Schedule, Live
<1> QED BY <1>1 DEF CurrentRuns, ToSet

(* The list, with a new process at its end, is still in order. *)
LEMMA Appended ==
    ASSUME ListByPid, NEW c \in Pcb \ Live, procs' = process_insert(c),
           pid' = [pid EXCEPT ![c] = avail_pid], avail_pid' = NextPid, ProcTypeOK'
    PROVE  ListByPid' /\ Live' = Live \cup {c}
<1> DEFINE n == Len(procs)
<1>1. /\ procs \in Seq(Pcb) /\ n \in Nat /\ procs' \in Seq(Pcb) /\ Len(procs') = n + 1
      /\ \A i \in 1 .. n : procs'[i] = procs[i] /\ procs[i] \in Pcb \ {c}
      /\ procs'[n + 1] = c
  BY DEF ListByPid, ProcTypeOK, SchedTypeOK, process_insert, Live, ToSet
<1>2. DOMAIN procs = 1 .. n /\ DOMAIN procs' = 1 .. (n + 1)
  BY <1>1
<1>3. Live' = Live \cup {c}
  BY <1>1, <1>2 DEF Live, ToSet
<1>4. /\ pid \in [Pcb -> Nat] /\ avail_pid \in Nat /\ avail_pid' = avail_pid + 1
      /\ \A q \in Pcb \ {c} : pid'[q] = pid[q]
      /\ pid'[c] = avail_pid
  BY DEF ListByPid, ProcTypeOK, NextPid
<1>5. \A i, j \in 1 .. n : i < j => pid[procs[i]] < pid[procs[j]]
  BY <1>2 DEF ListByPid
<1>6. \A i \in 1 .. n : pid[procs[i]] < avail_pid /\ pid[procs[i]] \in Nat
  BY <1>1, <1>2, <1>4 DEF ListByPid
<1>7. ListSound'
  BY <1>1, <1>2 DEF ListByPid, ListSound
<1>8. ASSUME NEW i \in DOMAIN procs', NEW j \in DOMAIN procs', i < j
      PROVE  pid'[procs'[i]] < pid'[procs'[j]]
  <2>1. i \in 1 .. n
    BY <1>1, <1>2, <1>8
  <2>2. CASE j = n + 1
    BY <1>1, <1>4, <1>6, <2>1, <2>2
  <2>3. CASE j # n + 1
    <3>1. j \in 1 .. n
      BY <1>1, <1>2, <2>3
    <3>2. pid'[procs'[i]] = pid[procs[i]] /\ pid'[procs'[j]] = pid[procs[j]]
      BY <1>1, <1>4, <2>1, <3>1
    <3> QED BY <1>5, <1>8, <2>1, <3>1, <3>2
  <2> QED BY <2>2, <2>3
<1>9. ASSUME NEW i \in DOMAIN procs' PROVE pid'[procs'[i]] < avail_pid'
  <2>1. CASE i = n + 1
    BY <1>1, <1>4, <2>1
  <2>2. CASE i # n + 1
    <3>1. i \in 1 .. n
      BY <1>1, <1>2, <2>2
    <3>2. pid'[procs'[i]] = pid[procs[i]]
      BY <1>1, <1>4, <3>1
    <3> QED BY <1>4, <1>6, <3>1, <3>2
  <2> QED BY <2>1, <2>2
<1> QED BY <1>3, <1>7, <1>8, <1>9 DEF ListByPid

(* The list without one of its processes, other than the first, is still  *)
(* in order.                                                              *)
LEMMA Destroyed ==
    ASSUME ListByPid, NEW t \in Live, t # Idle, procs' = RemoveFirst(procs, t),
           UNCHANGED <<pid, avail_pid>>, procs' \in Seq(Pcb) => ProcTypeOK'
    PROVE  ListByPid' /\ Live' = Live \ {t}
<1> DEFINE n == Len(procs)
<1>1. procs \in Seq(Pcb) /\ n \in Nat /\ DOMAIN procs = 1 .. n /\ procs[1] = Idle
  BY DEF ListByPid, ProcTypeOK, SchedTypeOK, ListSound
<1>2. PICK k \in 1 .. n : procs[k] = t
  BY <1>1 DEF Live, ToSet
<1>3. \A i, j \in 1 .. n : procs[i] = procs[j] => i = j
  BY <1>1 DEF ListByPid, ListSound
<1> DEFINE old(i) == IF i < k THEN i ELSE i + 1
<1>4. /\ procs' \in Seq(Pcb) /\ Len(procs') = n - 1
      /\ \A i \in 1 .. (n - 1) : procs'[i] = procs[old(i)]
  <2>1. procs' = RemoveFirst(procs, procs[k])
    BY <1>2
  <2>2. \A i \in 1 .. Len(procs) : procs[i] = procs[k] => i = k
    BY <1>3
  <2>3. procs \in Seq(Pcb) /\ k \in 1 .. Len(procs)
    BY <1>1
  <2>4. /\ procs' \in Seq(Pcb) /\ Len(procs') = Len(procs) - 1
        /\ \A i \in 1 .. (Len(procs) - 1) : procs'[i] = procs[IF i < k THEN i ELSE i + 1]
    BY <2>1, <2>2, <2>3, RemovedFrom, SMTT(30)
  <2> QED BY <2>4
<1>5. DOMAIN procs' = 1 .. (n - 1) /\ k > 1
  BY <1>1, <1>2, <1>4
<1>6. /\ \A i \in 1 .. (n - 1) : old(i) \in 1 .. n /\ old(i) # k
      /\ \A i, j \in 1 .. (n - 1) : i < j => old(i) < old(j)
      /\ \A i, j \in 1 .. (n - 1) : old(i) = old(j) => i = j
  BY <1>1, <1>2
<1>7. \A m \in 1 .. n : m # k => \E i \in 1 .. (n - 1) : m = old(i)
  <2> SUFFICES ASSUME NEW m \in 1 .. n, m # k PROVE \E i \in 1 .. (n - 1) : m = old(i)
    OBVIOUS
  <2>1. CASE m < k
    BY <1>1, <1>2, <2>1
  <2>2. CASE m > k
    <3>1. m - 1 \in 1 .. (n - 1) /\ m = old(m - 1)
      BY <1>1, <1>2, <2>2
    <3> QED BY <3>1
  <2> QED BY <1>1, <1>2, <2>1, <2>2
<1> HIDE DEF old
<1>8. Live' = Live \ {t}
  <2>1. ASSUME NEW q \in Live'  PROVE q \in Live \ {t}
    <3>1. PICK i \in 1 .. (n - 1) : q = procs[old(i)]
      BY <1>4, <1>5 DEF Live, ToSet
    <3>2. old(i) \in 1 .. n /\ old(i) # k
      BY <1>6
    <3>3. q # t
      BY <1>2, <1>3, <3>1, <3>2
    <3>4. q \in Live
      BY <1>1, <3>1, <3>2 DEF Live, ToSet
    <3> QED BY <3>3, <3>4
  <2>2. ASSUME NEW q \in Live \ {t}  PROVE q \in Live'
    <3>1. PICK m \in 1 .. n : q = procs[m]
      BY <1>1 DEF Live, ToSet
    <3>2. PICK i \in 1 .. (n - 1) : m = old(i)
      BY <1>2, <1>7, <3>1
    <3> QED BY <1>4, <1>5, <3>1, <3>2 DEF Live, ToSet
  <2> QED BY <2>1, <2>2
<1>9. ListSound'
  <2>1. old(1) = 1 /\ n - 1 >= 1
    BY <1>1, <1>2, <1>5 DEF old
  <2>2. procs'[1] = Idle /\ Len(procs') >= 1
    BY <1>1, <1>4, <2>1
  <2>3. \A i, j \in DOMAIN procs' : procs'[i] = procs'[j] => i = j
    BY <1>3, <1>4, <1>5, <1>6
  <2> QED BY <2>2, <2>3 DEF ListSound
<1>10. \A i, j \in DOMAIN procs' : i < j => pid'[procs'[i]] < pid'[procs'[j]]
  <2> SUFFICES ASSUME NEW i \in 1 .. (n - 1), NEW j \in 1 .. (n - 1), i < j
               PROVE  pid[procs[old(i)]] < pid[procs[old(j)]]
    BY <1>4, <1>5
  <2>1. old(i) \in 1 .. n /\ old(j) \in 1 .. n /\ old(i) < old(j)
    BY <1>6
  <2> QED BY <1>1, <2>1 DEF ListByPid
<1>11. \A i \in DOMAIN procs' : pid'[procs'[i]] < avail_pid'
  BY <1>1, <1>4, <1>5, <1>6 DEF ListByPid
<1> QED BY <1>4, <1>8, <1>9, <1>10, <1>11 DEF ListByPid

----------------------------------------------------------------------------
(* What the invariant says of the process that has the CPU. *)
LEMMA CurrentFacts ==
    ASSUME ProcInv
    PROVE  /\ current \in Live /\ status[current] = READY
           /\ procs \in Seq(Pcb) /\ Live \subseteq Pcb
           /\ Idle \in Live /\ procs[1] = Idle
BY DEF ProcInv, ListByPid, ProcTypeOK, SchedTypeOK, ListSound, CurrentRuns, Live, ToSet

(* The loops of the other parts of the kernel. *)
OtherLoops == {"console", "timer"}

(* What memory_allocate may take: nothing of the processes on the list. *)
LEMMA TakenFacts ==
    ASSUME NEW st \in [Pcb -> {SLEEPING, READY, EXITED, POISON, TAKEN}],
           NEW places \in SUBSET (Pcb \ Live), NEW s \in Taken(st, places)
    PROVE  /\ s \in [Pcb -> {SLEEPING, READY, EXITED, POISON, TAKEN}]
           /\ \A q \in Pcb \ places : s[q] = st[q]
           /\ \A q \in Pcb : s[q] \in {st[q], TAKEN}
<1>1. PICK taken \in SUBSET places : s = [q \in Pcb |-> IF q \in taken THEN TAKEN ELSE st[q]]
  BY DEF Taken
<1> QED BY <1>1

(* What memory_free may give back: places that were taken. *)
LEMMA GivenBackFacts ==
    ASSUME NEW st \in [Pcb -> {SLEEPING, READY, EXITED, POISON, TAKEN}],
           NEW s \in GivenBack(st)
    PROVE  /\ s \in [Pcb -> {SLEEPING, READY, EXITED, POISON, TAKEN}]
           /\ \A q \in Pcb : st[q] # TAKEN => s[q] = st[q]
           /\ \A q \in Pcb : s[q] \in {st[q], POISON}
<1>1. PICK back \in SUBSET {q \in Pcb : st[q] = TAKEN} :
        s = [q \in Pcb |-> IF q \in back THEN POISON ELSE st[q]]
  BY DEF GivenBack
<1> QED BY <1>1

(* vfork *)
LEMMA VforkStep ==
    ASSUME ProcInv, ~ double_free, NEW p \in Pcb, Vfork(p)
    PROVE  /\ ProcInv' /\ LeavesAlone(OtherLoops)
           /\ \E c \in Pcb \ Live :
                /\ procs' = process_insert(c)
                /\ status'[p] = SLEEPING /\ status'[c] = READY
                /\ \A q \in Live \ {p} : status'[q] = status[q]
                /\ pc' = [pc EXCEPT ![p] = "vfork", ![c] = "user"]
                /\ pid' = [pid EXCEPT ![c] = avail_pid]
                /\ parent' = [parent EXCEPT ![c] = p]
                /\ own_image' = [own_image EXCEPT ![c] = FALSE]
<1>1. PICK c \in Pcb \ Live :
        /\ procs' = process_insert(c)
        /\ status' \in Taken(VforkStatus(p, c), Free \ {c})
        /\ pc' = [pc EXCEPT ![p] = "vfork", ![c] = "user"]
        /\ pid' = [pid EXCEPT ![c] = avail_pid]
        /\ parent' = [parent EXCEPT ![c] = p]
        /\ own_image' = [own_image EXCEPT ![c] = FALSE]
  BY DEF Vfork, Free
<1>2. /\ avail_pid' = NextPid /\ Schedule
      /\ UNCHANGED <<scheduling_enabled, target, waitpid_queue, double_free, contended>>
      /\ current = p /\ pc[p] = "user" /\ p # Idle
  BY DEF Vfork, Calling, UserMode
<1>3. /\ p \in Live /\ c # p /\ c # Idle /\ procs \in Seq(Pcb) /\ procs # <<>>
      /\ procs[1] = Idle /\ Live \subseteq Pcb
  BY <1>2, CurrentFacts DEF Live, ToSet
<1>4. /\ procs' \in Seq(Pcb) /\ procs'[1] = Idle /\ p \in Live'
  <2>1. PICK i \in DOMAIN procs : procs[i] = p
    BY <1>3 DEF Live, ToSet
  <2>2. procs' = Append(procs, c)
    BY <1>1 DEF process_insert
  <2>3. procs' \in Seq(Pcb) /\ \A j \in DOMAIN procs : j \in DOMAIN procs' /\ procs'[j] = procs[j]
    BY <1>3, <2>2
  <2>4. 1 \in DOMAIN procs
    BY <1>3
  <2>5. p \in Live'
    BY <2>1, <2>3 DEF Live, ToSet
  <2> QED BY <1>3, <2>3, <2>4, <2>5
<1>5. /\ status' \in [Pcb -> {SLEEPING, READY, EXITED, POISON, TAKEN}]
      /\ status'[p] = SLEEPING /\ status'[c] = READY
      /\ \A q \in Live \ {p} : status'[q] = status[q]
      /\ \A q \in Pcb \ {p, c} : status'[q] \in {status[q], TAKEN}
      /\ pc' \in [Pcb -> Continuations]
  <2> DEFINE st == [status EXCEPT ![p] = SLEEPING, ![c] = READY]
  <2>1. /\ st \in [Pcb -> {SLEEPING, READY, EXITED, POISON, TAKEN}]
        /\ st[p] = SLEEPING /\ st[c] = READY /\ \A q \in Pcb \ {p, c} : st[q] = status[q]
    BY <1>3 DEF ProcInv, ListByPid, ProcTypeOK, SchedTypeOK
  <2>2. status' \in Taken(st, Free \ {c}) /\ Free \ {c} \in SUBSET (Pcb \ Live)
    BY <1>1 DEF VforkStatus, Free
  <2> HIDE DEF st
  <2>3. /\ status' \in [Pcb -> {SLEEPING, READY, EXITED, POISON, TAKEN}]
        /\ \A q \in Pcb \ (Free \ {c}) : status'[q] = st[q]
        /\ \A q \in Pcb : status'[q] \in {st[q], TAKEN}
    BY <2>1, <2>2, TakenFacts
  <2>4. pc' \in [Pcb -> Continuations]
    BY <1>1 DEF ProcInv, ListByPid, ProcTypeOK, SchedTypeOK, Continuations
  <2> QED BY <1>3, <2>1, <2>3, <2>4 DEF Free
<1>6. IdleRuns'
  BY <1>1, <1>2, <1>3, <1>5, SchedAssumption, CurrentFacts
     DEF ProcInv, IdleRuns, ListByPid, ProcTypeOK, SchedTypeOK
<1>7. CurrentRuns' /\ current' \in Pcb
  BY <1>2, <1>4, <1>5, <1>6, ScheduleStep DEF ProcInv, ListByPid, IdleRuns
<1>8. ProcTypeOK'
  <2>1. ProcTypeOK
    BY DEF ProcInv, ListByPid
  <2>2. /\ pid' \in [Pcb -> Nat] /\ avail_pid' \in Nat
        /\ parent' \in [Pcb -> Pcb \cup {NoPcb}]
        /\ own_image' \in [Pcb -> BOOLEAN]
    BY <1>1, <1>2, <2>1 DEF ProcTypeOK, NextPid
  <2> QED BY <1>2, <1>4, <1>5, <1>7, <2>1, <2>2 DEF ProcTypeOK, SchedTypeOK
<1>9. ListByPid' /\ Live' = Live \cup {c}
  BY <1>1, <1>2, <1>8, Appended DEF ProcInv
<1>10. /\ \A q \in Pcb \ {p, c} : status'[q] \in {status[q], TAKEN} /\ pc'[q] = pc[q]
       /\ status'[p] = SLEEPING /\ pc'[p] = "vfork"
       /\ status'[c] = READY /\ pc'[c] = "user"
  BY <1>1, <1>3, <1>5 DEF ProcInv, ListByPid, ProcTypeOK, SchedTypeOK
<1>11. ZombiesWait' /\ Owned' /\ PointersSound'
  <2>1. ZombiesWait'
    BY <1>9, <1>10 DEF ProcInv, ZombiesWait, EXITED, READY, SLEEPING, TAKEN
  <2>2. Owned'
    BY <1>5, <1>9 DEF ProcInv, Owned, READY, SLEEPING, TAKEN
  <2>3. PointersSound'
    BY <1>2, <1>3, <1>9, <1>10 DEF ProcInv, PointersSound
  <2> QED BY <2>1, <2>2, <2>3
<1>12. WaitersQueued'
  <2>1. \A q \in waitpid_queue : q \notin {p, c}
    BY <1>2 DEF ProcInv, WaitersQueued
  <2>2. \A t \in Pcb \cup {NoPcb} : StatusAt(t) # EXITED => (StatusAt(t) # EXITED)'
    BY <1>10, ProcessesAssumption DEF StatusAt, EXITED, READY, SLEEPING, TAKEN
  <2> QED BY <1>2, <1>9, <1>10, <2>1, <2>2
          DEF ProcInv, WaitersQueued, ListByPid, ProcTypeOK, SLEEPING, TAKEN
<1>13. LeavesAlone(OtherLoops)
  BY <1>2, <1>3, <1>9, <1>10 DEF LeavesAlone, OtherLoops, SLEEPING, TAKEN
<1>14. ProcInv'
  BY <1>2, <1>6, <1>7, <1>9, <1>11, <1>12 DEF ProcInv, DestroyedOnce
<1> QED BY <1>1, <1>5, <1>13, <1>14

(* execve *)
LEMMA ExecveStep ==
    ASSUME ProcInv, ~ double_free, NEW p \in Pcb, Execve(p)
    PROVE  /\ ProcInv' /\ LeavesAlone(OtherLoops)
           /\ \A q \in Live : status'[q] = IF q = parent[p] THEN READY ELSE status[q]
<1>1. /\ UNCHANGED <<procs, pc, scheduling_enabled, pid, parent, target,
                     waitpid_queue, avail_pid, double_free, contended>>
      /\ status' \in Taken(ParentWoken(p), Free)
      /\ Schedule
  BY DEF Execve
<1>2. /\ status' \in [Pcb -> {SLEEPING, READY, EXITED, POISON, TAKEN}]
      /\ \A q \in Live : status'[q] = IF q = parent[p] THEN READY ELSE status[q]
      /\ \A q \in Pcb : status'[q] \in {status[q], READY, TAKEN}
  <2> DEFINE st == ParentWoken(p)
  <2>1. /\ st \in [Pcb -> {SLEEPING, READY, EXITED, POISON, TAKEN}]
        /\ \A q \in Pcb : st[q] = IF q = parent[p] /\ status[q] # TAKEN THEN READY ELSE status[q]
    BY DEF ParentWoken, ProcInv, ListByPid, ProcTypeOK, SchedTypeOK
  <2>2. status' \in Taken(st, Free) /\ Free \in SUBSET (Pcb \ Live)
    BY <1>1 DEF Free
  <2> HIDE DEF st
  <2>3. /\ status' \in [Pcb -> {SLEEPING, READY, EXITED, POISON, TAKEN}]
        /\ \A q \in Pcb \ Free : status'[q] = st[q]
        /\ \A q \in Pcb : status'[q] \in {st[q], TAKEN}
    BY <2>1, <2>2, TakenFacts
  <2>4. \A q \in Live : q \in Pcb \ Free /\ status[q] # TAKEN
    BY CurrentFacts DEF Free, ProcInv, Owned
  <2> QED BY <2>1, <2>3, <2>4
<1>3. IdleRuns' /\ Live' = Live
  BY <1>1, <1>2, SchedAssumption, CurrentFacts DEF ProcInv, IdleRuns, Live
<1>4. CurrentRuns' /\ current' \in Pcb
  BY <1>1, <1>2, <1>3, CurrentFacts, ScheduleStep DEF ProcInv, ListByPid, IdleRuns
<1>5. ProcTypeOK'
  BY <1>1, <1>2, <1>4 DEF Execve, ProcInv, ListByPid, ProcTypeOK, SchedTypeOK
<1>6. ListByPid'
  BY <1>1, <1>5, ListKept DEF ProcInv
<1>7. ZombiesWait' /\ Owned' /\ PointersSound'
  BY <1>1, <1>2, <1>3
     DEF ProcInv, ZombiesWait, Owned, PointersSound, EXITED, READY, TAKEN
<1>8. WaitersQueued'
  <2>1. \A t \in Pcb \cup {NoPcb} : StatusAt(t) # EXITED => (StatusAt(t) # EXITED)'
    BY <1>2, ProcessesAssumption DEF StatusAt, EXITED, READY, TAKEN
  <2> QED BY <1>1, <1>2, <1>3, <2>1
       DEF ProcInv, WaitersQueued, ListByPid, ProcTypeOK, SLEEPING, READY, TAKEN
<1>9. LeavesAlone(OtherLoops)
  BY <1>1, <1>2, <1>3 DEF LeavesAlone, SLEEPING, READY, TAKEN
<1> QED BY <1>1, <1>2, <1>3, <1>4, <1>6, <1>7, <1>8, <1>9 DEF ProcInv, DestroyedOnce

(* The MALLOC call *)
LEMMA MallocStep ==
    ASSUME ProcInv, ~ double_free, NEW p \in Pcb, Malloc(p)
    PROVE  /\ ProcInv' /\ LeavesAlone(OtherLoops)
           /\ \A q \in Live : status'[q] = status[q]
<1>1. /\ UNCHANGED <<procs, pc, current, scheduling_enabled>>
      /\ UNCHANGED <<pid, parent, own_image, target, waitpid_queue, avail_pid,
                     double_free, contended>>
      /\ status' \in Taken(status, Free)
  BY DEF Malloc, procVars
<1>2. /\ status' \in [Pcb -> {SLEEPING, READY, EXITED, POISON, TAKEN}]
      /\ \A q \in Live : status'[q] = status[q]
      /\ \A q \in Pcb : status'[q] \in {status[q], TAKEN}
  <2>1. status \in [Pcb -> {SLEEPING, READY, EXITED, POISON, TAKEN}]
        /\ Free \in SUBSET (Pcb \ Live) /\ \A q \in Live : q \in Pcb \ Free
    BY CurrentFacts DEF Free, ProcInv, ListByPid, ProcTypeOK, SchedTypeOK
  <2> QED BY <1>1, <2>1, TakenFacts
<1>3. Live' = Live
  BY <1>1 DEF Live
<1>4. ListByPid'
  <2>1. ProcTypeOK'
    BY <1>1, <1>2 DEF ProcInv, ListByPid, ProcTypeOK, SchedTypeOK
  <2> QED BY <1>1, <2>1, ListKept DEF ProcInv
<1>5. CurrentRuns' /\ IdleRuns' /\ DestroyedOnce'
  BY <1>1, <1>2, <1>3, CurrentFacts DEF ProcInv, CurrentRuns, IdleRuns, DestroyedOnce, Live
<1>6. ZombiesWait' /\ Owned' /\ PointersSound'
  BY <1>1, <1>2, <1>3 DEF ProcInv, ZombiesWait, Owned, PointersSound, EXITED, TAKEN
<1>7. WaitersQueued'
  <2>1. \A t \in Pcb \cup {NoPcb} : StatusAt(t) # EXITED => (StatusAt(t) # EXITED)'
    BY <1>2, ProcessesAssumption DEF StatusAt, EXITED, TAKEN
  <2> QED BY <1>1, <1>2, <1>3, <2>1
       DEF ProcInv, WaitersQueued, ListByPid, ProcTypeOK, SLEEPING, TAKEN
<1>8. LeavesAlone(OtherLoops)
  BY <1>1, <1>2, <1>3 DEF LeavesAlone, SLEEPING, TAKEN
<1> QED BY <1>2, <1>4, <1>5, <1>6, <1>7, <1>8 DEF ProcInv

(* exit *)
LEMMA ExitStep ==
    ASSUME ProcInv, ~ double_free, NEW p \in Pcb, Exit(p)
    PROVE  ProcInv' /\ LeavesAlone(OtherLoops)
<1>1. /\ UNCHANGED <<procs, scheduling_enabled, pid, parent, own_image, target,
                     avail_pid, double_free, contended>>
      /\ waitpid_queue' = {}
      /\ pc' = [pc EXCEPT ![p] = "exit"]
      /\ Schedule
      /\ current = p /\ pc[p] = "user" /\ p # Idle
  BY DEF Exit, Calling, UserMode
<1>2. p \notin waitpid_queue /\ Idle \notin waitpid_queue
  BY <1>1 DEF ProcInv, WaitersQueued, IdleRuns
<1>3. /\ status' \in [Pcb -> {SLEEPING, READY, EXITED, POISON, TAKEN}]
      /\ \A q \in waitpid_queue : status'[q] = READY
      /\ status'[p] = EXITED
      /\ \A q \in Pcb \ waitpid_queue : q # p => status'[q] = status[q]
  BY <1>2 DEF Exit, ExitedAndWoken, ProcInv, ListByPid, ProcTypeOK, SchedTypeOK
<1>4. /\ pc' \in [Pcb -> Continuations]
      /\ \A q \in Pcb \ {p} : pc'[q] = pc[q]
      /\ pc'[p] = "exit"
  BY <1>1 DEF ProcInv, ListByPid, ProcTypeOK, SchedTypeOK, Continuations
<1>5. IdleRuns' /\ Live' = Live
  BY <1>1, <1>2, <1>3, <1>4, SchedAssumption DEF ProcInv, IdleRuns, Live
<1>6. CurrentRuns' /\ current' \in Pcb
  BY <1>1, <1>3, <1>5, CurrentFacts, ScheduleStep DEF ProcInv, ListByPid, IdleRuns
<1>7. ProcTypeOK'
  BY <1>1, <1>3, <1>4, <1>6 DEF ProcInv, ListByPid, ProcTypeOK, SchedTypeOK
<1>8. ListByPid'
  BY <1>1, <1>7, ListKept DEF ProcInv
<1>9. ZombiesWait' /\ Owned' /\ PointersSound'
  BY <1>1, <1>3, <1>4, <1>5, CurrentFacts
     DEF ProcInv, ZombiesWait, Owned, PointersSound, EXITED, READY, TAKEN
<1>10. WaitersQueued'
  BY <1>1, <1>3, <1>4 DEF ProcInv, WaitersQueued, SLEEPING, READY
<1>11. LeavesAlone(OtherLoops)
  BY <1>1, <1>3, <1>4, <1>5 DEF LeavesAlone, OtherLoops, SLEEPING, READY
<1> QED BY <1>1, <1>5, <1>6, <1>8, <1>9, <1>10, <1>11 DEF ProcInv, DestroyedOnce

----------------------------------------------------------------------------
(* Going to sleep in a loop of the kernel, but for the queue. *)
LEMMA BlockCore ==
    ASSUME ProcInv, ~ double_free, NEW p \in Pcb, current = p,
           NEW loop \in {"waitpid", "console", "timer"},
           p # Idle, pc[p] \in {"user", loop}, Block(p, loop),
           UNCHANGED <<pid, parent, own_image, avail_pid, double_free, contended>>,
           target' \in [Pcb -> Pcb \cup {NoPcb}], waitpid_queue' \in SUBSET Pcb
    PROVE  /\ ListByPid' /\ CurrentRuns' /\ DestroyedOnce' /\ IdleRuns' /\ ZombiesWait' /\ Owned'
           /\ LeavesAlone(OtherLoops \ {loop})
           /\ Live' = Live
           /\ \A q \in Pcb \ {p} : status'[q] = status[q] /\ pc'[q] = pc[q]
           /\ status'[p] = SLEEPING /\ pc'[p] = loop
<1>1. /\ status' = [status EXCEPT ![p] = SLEEPING]
      /\ pc' = [pc EXCEPT ![p] = loop]
      /\ UNCHANGED <<procs, scheduling_enabled>>
      /\ Schedule
  BY DEF Block
<1>2. /\ status' \in [Pcb -> {SLEEPING, READY, EXITED, POISON, TAKEN}]
      /\ pc' \in [Pcb -> Continuations]
      /\ \A q \in Pcb \ {p} : status'[q] = status[q] /\ pc'[q] = pc[q]
      /\ status'[p] = SLEEPING /\ pc'[p] = loop
  BY <1>1 DEF ProcInv, ListByPid, ProcTypeOK, SchedTypeOK, Continuations
<1>3. IdleRuns' /\ Live' = Live
  BY <1>1, <1>2, SchedAssumption DEF ProcInv, IdleRuns, Live
<1>4. CurrentRuns' /\ current' \in Pcb
  BY <1>1, <1>2, <1>3, CurrentFacts, ScheduleStep DEF ProcInv, ListByPid, IdleRuns
<1>5. ProcTypeOK'
  BY <1>1, <1>2, <1>4 DEF ProcInv, ListByPid, ProcTypeOK, SchedTypeOK
<1>6. ListByPid'
  BY <1>1, <1>5, ListKept DEF ProcInv
<1>7. ZombiesWait' /\ Owned'
  BY <1>2, <1>3, CurrentFacts DEF ProcInv, ZombiesWait, Owned, EXITED, SLEEPING, TAKEN
<1>8. LeavesAlone(OtherLoops \ {loop})
  BY <1>2, <1>3 DEF LeavesAlone, OtherLoops
<1>9. DestroyedOnce'
  BY DEF ProcInv, DestroyedOnce
<1> QED BY <1>2, <1>3, <1>4, <1>6, <1>7, <1>8, <1>9

(* Going to sleep in a loop of another part of the kernel. *)
LEMMA BlockStep ==
    ASSUME ProcInv, ~ double_free, NEW p \in Pcb, current = p, NEW loop \in OtherLoops,
           p # Idle, pc[p] \in {"user", loop}, Block(p, loop), UNCHANGED procVars
    PROVE  /\ ProcInv' /\ LeavesAlone(OtherLoops \ {loop}) /\ Live' = Live
           /\ \A q \in Pcb \ {p} : status'[q] = status[q] /\ pc'[q] = pc[q]
           /\ status'[p] = SLEEPING /\ pc'[p] = loop
<1>1. UNCHANGED <<pid, parent, own_image, avail_pid, double_free, contended, target, waitpid_queue>>
  BY DEF procVars
<1>2. target' \in [Pcb -> Pcb \cup {NoPcb}] /\ waitpid_queue' \in SUBSET Pcb
  BY <1>1 DEF ProcInv, ListByPid, ProcTypeOK
<1>3. loop \in {"waitpid", "console", "timer"} /\ loop # "waitpid" /\ loop # "user"
  BY DEF OtherLoops
<1>4. /\ ListByPid' /\ CurrentRuns' /\ DestroyedOnce' /\ IdleRuns' /\ ZombiesWait' /\ Owned'
      /\ LeavesAlone(OtherLoops \ {loop}) /\ Live' = Live
      /\ \A q \in Pcb \ {p} : status'[q] = status[q] /\ pc'[q] = pc[q]
      /\ status'[p] = SLEEPING /\ pc'[p] = loop
  BY <1>1, <1>2, <1>3, BlockCore
<1>5. WaitersQueued'
  <2>1. p \notin waitpid_queue
    BY <1>3 DEF ProcInv, WaitersQueued
  <2>2. \A t \in Pcb \cup {NoPcb} : StatusAt(t) # EXITED => (StatusAt(t) # EXITED)'
    BY <1>4, ProcessesAssumption DEF StatusAt, EXITED, SLEEPING
  <2> QED BY <1>1, <1>2, <1>3, <1>4, <2>1, <2>2
          DEF ProcInv, WaitersQueued, ListByPid, ProcTypeOK
<1>6. PointersSound'
  BY <1>1, <1>3, <1>4, CurrentFacts DEF ProcInv, PointersSound
<1> QED BY <1>4, <1>5, <1>6 DEF ProcInv

(* Reaping a zombie of the list, but for what else the caller does. *)
LEMMA DestroyStep ==
    ASSUME ProcInv, ~ double_free, NEW t \in Live, MayReadExited(t), process_destroy(t),
           UNCHANGED <<current, scheduling_enabled, waitpid_queue, pid, parent,
                       own_image, avail_pid>>,
           pc' \in [Pcb -> Continuations], target' \in [Pcb -> Pcb \cup {NoPcb}]
    PROVE  /\ ListByPid' /\ CurrentRuns' /\ DestroyedOnce' /\ Live' = Live \ {t} /\ Owned'
           /\ t \in Pcb \ {Idle} /\ status[t] = EXITED /\ pc[t] = "exit" /\ t # current
           /\ status'[t] = POISON /\ \A q \in Live \ {t} : status'[q] = status[q]
           /\ \A q \in Pcb : status'[q] \in {status[q], POISON}
           /\ double_free' = FALSE
           /\ contended' = (contended \/ \E q \in Live \ {current} :
                                             pc[q] = "waitpid" /\ target[q] = t)
<1>1. t \in Pcb /\ status[t] = EXITED /\ pc[t] = "exit"
  BY CurrentFacts, ProcessesAssumption
     DEF MayReadExited, StatusAt, ProcInv, Owned, ZombiesWait, EXITED, POISON, TAKEN
<1>2. t # Idle /\ t # current
  BY <1>1, SchedAssumption DEF ProcInv, IdleRuns, CurrentRuns, EXITED, READY
<1>3. /\ procs' = RemoveFirst(procs, t)
      /\ status' \in GivenBack(Freed(t))
      /\ double_free' = double_free
      /\ contended' = (contended \/ \E q \in Live \ {current} :
                                       pc[q] = "waitpid" /\ target[q] = t)
  BY DEF process_destroy
<1>4. /\ status' \in [Pcb -> {SLEEPING, READY, EXITED, POISON, TAKEN}]
      /\ status'[t] = POISON /\ \A q \in Live \ {t} : status'[q] = status[q]
      /\ \A q \in Pcb : status'[q] \in {status[q], POISON}
  <2> DEFINE st == [status EXCEPT ![t] = POISON]
  <2>1. /\ st \in [Pcb -> {SLEEPING, READY, EXITED, POISON, TAKEN}]
        /\ st[t] = POISON /\ \A q \in Pcb \ {t} : st[q] = status[q]
    BY <1>1 DEF ProcInv, ListByPid, ProcTypeOK, SchedTypeOK
  <2>2. status' \in GivenBack(st)
    BY <1>3 DEF Freed
  <2> HIDE DEF st
  <2>3. /\ status' \in [Pcb -> {SLEEPING, READY, EXITED, POISON, TAKEN}]
        /\ \A q \in Pcb : st[q] # TAKEN => status'[q] = st[q]
        /\ \A q \in Pcb : status'[q] \in {st[q], POISON}
    BY <2>1, <2>2, GivenBackFacts
  <2>4. \A q \in Live : q \in Pcb /\ status[q] # TAKEN
    BY CurrentFacts DEF ProcInv, Owned
  <2> QED BY <1>1, <2>1, <2>3, <2>4 DEF POISON, TAKEN
<1>5. DestroyedOnce' /\ double_free' \in BOOLEAN /\ contended' \in BOOLEAN
  BY <1>3 DEF ProcInv, DestroyedOnce, ListByPid, ProcTypeOK
<1>6. procs' \in Seq(Pcb) => ProcTypeOK'
  BY <1>4, <1>5 DEF ProcInv, ListByPid, ProcTypeOK, SchedTypeOK
<1>7. ListByPid' /\ Live' = Live \ {t}
  BY <1>1, <1>2, <1>3, <1>6, Destroyed DEF ProcInv
<1>8. CurrentRuns' /\ Owned'
  BY <1>2, <1>4, <1>7, CurrentFacts DEF CurrentRuns, Live, ProcInv, Owned
<1> QED BY <1>1, <1>2, <1>3, <1>4, <1>5, <1>7, <1>8

(* What process p may look at: what its argument denotes, or the target of *)
(* the call it is in.                                                      *)
Pointer(p, t) == t \in Live \cup {NoPcb} \/ (pc[p] = "waitpid" /\ t = target[p])

(* What the caller of process_destroy does besides. *)
Reaps(p) ==
    /\ UNCHANGED <<current, scheduling_enabled, waitpid_queue, pid, parent, own_image, avail_pid>>
    /\ pc' \in [Pcb -> Continuations] /\ target' \in [Pcb -> Pcb \cup {NoPcb}]
    /\ \A q \in Pcb \ {p} : pc'[q] = pc[q] /\ target'[q] = target[q]
    /\ pc'[p] = "user" /\ target'[p] \in {target[p], NoPcb}

(* A zombie of the list is reaped. *)
LEMMA ZombieStep ==
    ASSUME ProcInv, ~ double_free, NEW p \in Pcb, current = p, p # Idle,
           pc[p] \in {"user", "waitpid"}, Reaps(p),
           NEW t \in Live, pc[p] = "waitpid" => t = target[p],
           MayReadExited(t), process_destroy(t)
    PROVE  ProcInv' /\ LeavesAlone(OtherLoops)
<1>1. /\ UNCHANGED <<current, scheduling_enabled, waitpid_queue, pid, parent, own_image, avail_pid>>
      /\ pc' \in [Pcb -> Continuations] /\ target' \in [Pcb -> Pcb \cup {NoPcb}]
      /\ \A q \in Pcb \ {p} : pc'[q] = pc[q] /\ target'[q] = target[q]
      /\ pc'[p] = "user"
  BY DEF Reaps
<1>2. /\ ListByPid' /\ CurrentRuns' /\ DestroyedOnce' /\ Live' = Live \ {t} /\ Owned'
      /\ t \in Pcb \ {Idle} /\ status[t] = EXITED /\ pc[t] = "exit" /\ t # current
      /\ status'[t] = POISON /\ \A q \in Live \ {t} : status'[q] = status[q]
      /\ \A q \in Pcb : status'[q] \in {status[q], POISON}
      /\ double_free' = FALSE
      /\ contended' = (contended \/ \E q \in Live \ {current} :
                                        pc[q] = "waitpid" /\ target[q] = t)
  BY <1>1, DestroyStep
<1>3. p \notin waitpid_queue /\ t \notin waitpid_queue
  <2>1. t \notin waitpid_queue
    BY <1>2 DEF ProcInv, WaitersQueued
  <2>2. ASSUME p \in waitpid_queue PROVE FALSE
    <3>1. pc[p] = "waitpid" /\ StatusAt(target[p]) # EXITED
      BY <2>2 DEF ProcInv, WaitersQueued
    <3> QED BY <3>1, <1>2, ProcessesAssumption DEF StatusAt
  <2> QED BY <2>1, <2>2
<1>4. IdleRuns'
  BY <1>1, <1>2, SchedAssumption, CurrentFacts DEF ProcInv, IdleRuns
<1>5. ZombiesWait'
  <2>1. ASSUME NEW q \in Pcb, status'[q] = EXITED PROVE q \in Live' /\ pc'[q] = "exit"
    <3>1. status[q] = EXITED /\ q # t
      BY <1>2, <2>1 DEF EXITED, POISON
    <3>2. q \in Live /\ pc[q] = "exit" /\ q # p
      BY <3>1 DEF ProcInv, ZombiesWait
    <3> QED BY <1>1, <1>2, <3>1, <3>2
  <2> QED BY <2>1 DEF ZombiesWait
<1>6. WaitersQueued'
  <2>1. \A x \in Pcb \cup {NoPcb} : StatusAt(x) # EXITED => (StatusAt(x) # EXITED)'
    BY <1>2, ProcessesAssumption DEF StatusAt, EXITED, POISON
  <2>2. ASSUME NEW q \in waitpid_queue
        PROVE  q \in Live' /\ pc'[q] = "waitpid" /\ (StatusAt(target[q]) # EXITED)'
    <3>1. q \in Live /\ pc[q] = "waitpid" /\ StatusAt(target[q]) # EXITED /\ q \in Pcb \ {p, t}
      BY <1>3 DEF ProcInv, WaitersQueued, ListByPid, ProcTypeOK
    <3>2. target[q] \in Pcb \cup {NoPcb} /\ target'[q] = target[q] /\ pc'[q] = pc[q]
      BY <3>1, <1>1 DEF ProcInv, ListByPid, ProcTypeOK
    <3> QED BY <1>2, <2>1, <3>1, <3>2
  <2>3. ASSUME NEW q \in Pcb, pc'[q] = "waitpid", status'[q] = SLEEPING
        PROVE  q \in waitpid_queue
    <3>1. q # p /\ pc[q] = "waitpid" /\ status[q] = SLEEPING
      BY <1>1, <1>2, <2>3 DEF SLEEPING, POISON
    <3> QED BY <3>1 DEF ProcInv, WaitersQueued
  <2> QED BY <1>1, <2>2, <2>3 DEF WaitersQueued
<1>7. PointersSound'
  <2>1. ASSUME ~ contended', NEW q \in Live', pc'[q] = "waitpid"
        PROVE  target'[q] \in Live' \cup {NoPcb}
    <3>1. q \in Live /\ q \in Pcb \ {p} /\ pc[q] = "waitpid" /\ target'[q] = target[q]
      BY <1>1, <1>2, <2>1, CurrentFacts
    <3>2. ~ contended /\ target[q] # t
      BY <1>2, <2>1, <3>1
    <3>3. target[q] \in Live \cup {NoPcb}
      BY <3>1, <3>2 DEF ProcInv, PointersSound
    <3> QED BY <1>2, <3>1, <3>2, <3>3
  <2> QED BY <2>1 DEF PointersSound
<1>8. LeavesAlone(OtherLoops)
  BY <1>1, <1>2 DEF LeavesAlone, OtherLoops, SLEEPING, POISON
<1> QED BY <1>2, <1>4, <1>5, <1>6, <1>7, <1>8 DEF ProcInv

(* A PCB that is not on the list is destroyed once more: somebody else has *)
(* reaped it while p waited, and its memory has a new owner.               *)
LEMMA StaleStep ==
    ASSUME ProcInv, ~ double_free, NEW p \in Pcb, current = p, p # Idle,
           pc[p] \in {"user", "waitpid"}, Reaps(p),
           NEW t \in Pcb \cup {NoPcb}, Pointer(p, t), t \notin Live,
           MayReadExited(t), process_destroy(t)
    PROVE  ProcInv' /\ LeavesAlone(OtherLoops)
<1>1. /\ UNCHANGED <<current, scheduling_enabled, waitpid_queue, pid, parent, own_image, avail_pid>>
      /\ pc' \in [Pcb -> Continuations] /\ target' \in [Pcb -> Pcb \cup {NoPcb}]
      /\ \A q \in Pcb \ {p} : pc'[q] = pc[q] /\ target'[q] = target[q]
      /\ pc'[p] = "user" /\ target'[p] \in {target[p], NoPcb}
  BY DEF Reaps
<1>2. /\ double_free' = TRUE /\ UNCHANGED <<procs, status>>
      /\ contended' \in BOOLEAN /\ (contended => contended')
  BY DEF process_destroy, ProcInv, ListByPid, ProcTypeOK
<1>3. t \in Pcb /\ status[t] = TAKEN
  BY DEF MayReadExited, StatusAt, ProcInv, ZombiesWait, EXITED, POISON, TAKEN
<1>4. p \in Live /\ status[p] = READY /\ Live' = Live
  BY <1>2, CurrentFacts DEF Live
<1>5. contended
  <2>1. t # NoPcb /\ pc[p] = "waitpid" /\ t = target[p]
    BY <1>3, ProcessesAssumption DEF Pointer
  <2> QED BY <2>1, <1>4 DEF ProcInv, PointersSound
<1>6. DestroyedOnce' /\ PointersSound'
  BY <1>2, <1>3, <1>4, <1>5 DEF DestroyedOnce, PointersSound
<1>7. ListByPid'
  <2>1. ProcTypeOK'
    BY <1>1, <1>2 DEF ProcInv, ListByPid, ProcTypeOK, SchedTypeOK
  <2> QED BY <1>1, <1>2, <2>1, ListKept DEF ProcInv
<1>8. CurrentRuns' /\ IdleRuns' /\ ZombiesWait' /\ Owned'
  <2>1. CurrentRuns' /\ Owned'
    BY <1>1, <1>2, <1>4 DEF ProcInv, CurrentRuns, Owned
  <2>2. IdleRuns' /\ ZombiesWait'
    BY <1>1, <1>2, <1>4, SchedAssumption DEF ProcInv, IdleRuns, ZombiesWait, EXITED, READY
  <2> QED BY <2>1, <2>2
<1>9. WaitersQueued'
  <2>1. \A x \in Pcb \cup {NoPcb} : (StatusAt(x))' = StatusAt(x)
    BY <1>2 DEF StatusAt
  <2>2. ASSUME NEW q \in waitpid_queue
        PROVE  q \in Live' /\ (StatusAt(target[q]) # EXITED)'
    <3>1. q \in Live /\ StatusAt(target[q]) # EXITED /\ q \in Pcb
      BY DEF ProcInv, WaitersQueued, ListByPid, ProcTypeOK
    <3>2. target[q] \in Pcb \cup {NoPcb} /\ target'[q] \in {target[q], NoPcb}
      BY <3>1, <1>1 DEF ProcInv, ListByPid, ProcTypeOK
    <3>3. StatusAt(target'[q]) # EXITED
      BY <3>1, <3>2 DEF StatusAt, EXITED, POISON
    <3>4. (StatusAt(target[q]))' = StatusAt(target'[q])
      BY <1>2 DEF StatusAt
    <3> QED BY <1>4, <3>1, <3>3, <3>4
  <2>3. ASSUME NEW q \in Pcb, pc'[q] = "waitpid", status'[q] = SLEEPING
        PROVE  q \in waitpid_queue
    <3>1. pc[q] = "waitpid" /\ status[q] = SLEEPING
      BY <1>1, <1>2, <2>3
    <3> QED BY <3>1 DEF ProcInv, WaitersQueued
  <2> QED BY <1>1, <1>2, <2>2, <2>3 DEF WaitersQueued
<1>10. LeavesAlone(OtherLoops)
  BY <1>1, <1>2, <1>4 DEF LeavesAlone, OtherLoops
<1> QED BY <1>6, <1>7, <1>8, <1>9, <1>10 DEF ProcInv

(* process_destroy, whatever the caller's pointer leads to. *)
LEMMA PointerStep ==
    ASSUME ProcInv, ~ double_free, NEW p \in Pcb, current = p, p # Idle,
           pc[p] \in {"user", "waitpid"}, Reaps(p),
           NEW t \in Pcb \cup {NoPcb}, Pointer(p, t), pc[p] = "waitpid" => t = target[p],
           MayReadExited(t), process_destroy(t)
    PROVE  ProcInv' /\ LeavesAlone(OtherLoops)
BY ZombieStep, StaleStep

(* One turn of the loop of waitpid. *)
LEMMA WaitLoopStep ==
    ASSUME ProcInv, ~ double_free, NEW p \in Pcb, current = p, p # Idle,
           pc[p] \in {"user", "waitpid"},
           NEW t \in Pcb \cup {NoPcb}, Pointer(p, t), pc[p] = "waitpid" => t = target[p],
           WaitLoop(p, t), UNCHANGED <<pid, parent, own_image, avail_pid>>
    PROVE  ProcInv' /\ LeavesAlone(OtherLoops)
<1>1. CASE /\ MayReadExited(t)
           /\ process_destroy(t)
           /\ pc' = [pc EXCEPT ![p] = "user"]
           /\ target' = [target EXCEPT ![p] = NoPcb]
           /\ UNCHANGED <<current, scheduling_enabled, waitpid_queue>>
  <2>1. Reaps(p)
    BY <1>1 DEF Reaps, ProcInv, ListByPid, ProcTypeOK, SchedTypeOK, Continuations
  <2> QED BY <1>1, <2>1, PointerStep
<1>2. CASE /\ StatusAt(t) # EXITED
           /\ target' = [target EXCEPT ![p] = t]
           /\ waitpid_queue' = waitpid_queue \cup {p}
           /\ Block(p, "waitpid")
           /\ UNCHANGED <<double_free, contended>>
  <2>1. /\ target' \in [Pcb -> Pcb \cup {NoPcb}] /\ waitpid_queue' \in SUBSET Pcb
        /\ waitpid_queue \subseteq Pcb
        /\ \A q \in Pcb \ {p} : target'[q] = target[q]
        /\ target'[p] = t
    BY <1>2 DEF ProcInv, ListByPid, ProcTypeOK
  <2>2. /\ ListByPid' /\ CurrentRuns' /\ DestroyedOnce' /\ IdleRuns' /\ ZombiesWait' /\ Owned'
        /\ LeavesAlone(OtherLoops \ {"waitpid"}) /\ Live' = Live
        /\ \A q \in Pcb \ {p} : status'[q] = status[q] /\ pc'[q] = pc[q]
        /\ status'[p] = SLEEPING /\ pc'[p] = "waitpid"
    BY <1>2, <2>1, BlockCore
  <2>3. WaitersQueued'
    <3>1. \A x \in Pcb \cup {NoPcb} : StatusAt(x) # EXITED => (StatusAt(x) # EXITED)'
      BY <2>2, ProcessesAssumption DEF StatusAt, EXITED, SLEEPING
    <3>2. p \in Live /\ target \in [Pcb -> Pcb \cup {NoPcb}] /\ t \in Pcb \cup {NoPcb}
      BY CurrentFacts DEF ProcInv, ListByPid, ProcTypeOK
    <3>3. ASSUME NEW q \in waitpid_queue'
          PROVE  q \in Live' /\ pc'[q] = "waitpid" /\ (StatusAt(target[q]) # EXITED)'
      <4>1. CASE q = p
        BY <1>2, <2>1, <2>2, <3>1, <3>2, <4>1
      <4>2. CASE q # p
        <5>1. q \in waitpid_queue /\ q \in Pcb \ {p}
          BY <1>2, <2>1, <3>3, <4>2
        <5>2. q \in Live /\ pc[q] = "waitpid" /\ StatusAt(target[q]) # EXITED
          BY <5>1 DEF ProcInv, WaitersQueued
        <5> QED BY <2>1, <2>2, <3>1, <3>2, <5>1, <5>2
      <4> QED BY <4>1, <4>2
    <3>4. ASSUME NEW q \in Pcb, pc'[q] = "waitpid", status'[q] = SLEEPING
          PROVE  q \in waitpid_queue'
      BY <1>2, <2>2, <3>4 DEF ProcInv, WaitersQueued
    <3> QED BY <3>3, <3>4 DEF WaitersQueued
  <2>4. LeavesAlone(OtherLoops)
    BY <2>2 DEF LeavesAlone, OtherLoops
  <2>5. PointersSound'
    <3>1. ASSUME ~ contended, NEW q \in Live, pc'[q] = "waitpid"
          PROVE  target'[q] \in Live \cup {NoPcb}
      <4>1. CASE q = p
        BY <2>1, <3>1, <4>1, CurrentFacts DEF Pointer, ProcInv, PointersSound
      <4>2. CASE q # p
        BY <2>1, <2>2, <3>1, <4>2, CurrentFacts DEF ProcInv, PointersSound
      <4> QED BY <4>1, <4>2
    <3> QED BY <1>2, <2>2, <3>1 DEF PointersSound
  <2> QED BY <2>2, <2>3, <2>4, <2>5 DEF ProcInv
<1> QED BY <1>1, <1>2 DEF WaitLoop

(* Whatever waitpid is asked for is a process of the list, or NULL. *)
LEMMA WaitableIsLive ==
    ASSUME ProcInv, NEW p \in Pcb
    PROVE  Waitable(p) \subseteq Live \cup {NoPcb}
<1>1. procs \in Seq(Pcb)
  BY CurrentFacts
<1>2. ASSUME ChildrenOf(p) # {}  PROVE procs[Min(ChildrenOf(p))] \in Live
  <2>1. ChildrenOf(p) \subseteq DOMAIN procs /\ ChildrenOf(p) \subseteq Nat
    BY <1>1 DEF ChildrenOf
  <2>2. Min(ChildrenOf(p)) \in ChildrenOf(p)
    BY <1>2, <2>1, MinOfNats
  <2> QED BY <2>1, <2>2 DEF Live, ToSet
<1> QED BY <1>2 DEF Waitable

(* waitpid with WNOHANG *)
LEMMA NoHangStep ==
    ASSUME ProcInv, ~ double_free, NEW p \in Pcb, WaitpidNoHang(p)
    PROVE  ProcInv' /\ LeavesAlone(OtherLoops)
<1>1. PICK t \in Waitable(p) : MayReadExited(t) /\ process_destroy(t)
  BY DEF WaitpidNoHang
<1>2. t \in Live \cup {NoPcb} /\ t \in Pcb \cup {NoPcb}
  BY <1>1, WaitableIsLive, CurrentFacts
<1>3. /\ UNCHANGED <<pc, current, scheduling_enabled, pid, parent, own_image, target,
                     waitpid_queue, avail_pid>>
      /\ current = p /\ p # Idle /\ pc[p] = "user"
  BY DEF WaitpidNoHang, Calling, UserMode
<1>4. Reaps(p)
  BY <1>3 DEF Reaps, ProcInv, ListByPid, ProcTypeOK, SchedTypeOK
<1> QED BY <1>1, <1>2, <1>3, <1>4, PointerStep DEF Pointer

(* Back to user mode from a loop other than that of waitpid. *)
LEMMA ReturnStep ==
    ASSUME ProcInv, ~ double_free, NEW p \in Pcb, current = p, pc[p] # "waitpid",
           pc' = [pc EXCEPT ![p] = "user"],
           UNCHANGED <<procs, status, current, scheduling_enabled>>, UNCHANGED procVars
    PROVE  /\ ProcInv' /\ LeavesAlone(OtherLoops \ {pc[p]}) /\ Live' = Live
           /\ \A q \in Pcb \ {p} : pc'[q] = pc[q]
           /\ pc'[p] = "user"
<1>1. UNCHANGED <<pid, parent, own_image, target, waitpid_queue, avail_pid, double_free, contended>>
  BY DEF procVars
<1>2. /\ pc' \in [Pcb -> Continuations]
      /\ \A q \in Pcb \ {p} : pc'[q] = pc[q]
      /\ pc'[p] = "user"
  BY DEF ProcInv, ListByPid, ProcTypeOK, SchedTypeOK, Continuations
<1>3. Live' = Live
  BY DEF Live
<1>4. ListByPid'
  <2>1. ProcTypeOK'
    BY <1>1, <1>2 DEF ProcInv, ListByPid, ProcTypeOK, SchedTypeOK
  <2> QED BY <1>1, <2>1, ListKept DEF ProcInv
<1>5. CurrentRuns' /\ DestroyedOnce' /\ IdleRuns'
  BY <1>1, <1>2, SchedAssumption DEF ProcInv, CurrentRuns, DestroyedOnce, IdleRuns
<1>6. ZombiesWait' /\ Owned' /\ PointersSound'
  BY <1>1, <1>2, <1>3, CurrentFacts
     DEF ProcInv, ZombiesWait, Owned, PointersSound, EXITED, READY
<1>7. WaitersQueued'
  BY <1>1, <1>2, <1>3 DEF ProcInv, WaitersQueued, StatusAt
<1>8. LeavesAlone(OtherLoops \ {pc[p]})
  BY <1>2, <1>3 DEF LeavesAlone, OtherLoops
<1> QED BY <1>2, <1>3, <1>4, <1>5, <1>6, <1>7, <1>8 DEF ProcInv

(* An interrupt that wakes some processes. *)
LEMMA WakeStep ==
    ASSUME ProcInv, ~ double_free, NEW Q \in SUBSET Pcb, status' = Woken(Q), scheduling_enabled' \in BOOLEAN,
           InterruptReturn, UNCHANGED procVars
    PROVE  /\ ProcInv' /\ LeavesAlone(OtherLoops) /\ Live' = Live /\ pc' = pc
           /\ \A q \in Pcb : status'[q] = IF q \in Q THEN READY ELSE status[q]
<1>1. /\ UNCHANGED <<pid, parent, own_image, target, waitpid_queue, avail_pid, double_free, contended>>
      /\ UNCHANGED <<procs, pc>>
      /\ Schedule \/ UNCHANGED current
  BY DEF procVars, InterruptReturn
<1>2. /\ status' \in [Pcb -> {SLEEPING, READY, EXITED, POISON, TAKEN}]
      /\ \A q \in Pcb : status'[q] = IF q \in Q THEN READY ELSE status[q]
  BY DEF Woken, ProcInv, ListByPid, ProcTypeOK, SchedTypeOK
<1>3. IdleRuns' /\ Live' = Live /\ DestroyedOnce'
  BY <1>1, <1>2, SchedAssumption DEF ProcInv, IdleRuns, Live, DestroyedOnce
<1>4. CurrentRuns' /\ current' \in Pcb
  <2>1. CASE Schedule
    BY <1>1, <1>2, <1>3, <2>1, CurrentFacts, ScheduleStep DEF ProcInv, ListByPid, IdleRuns
  <2>2. CASE UNCHANGED current
    BY <1>1, <1>2, <2>2, CurrentFacts DEF CurrentRuns, Live
  <2> QED BY <1>1, <2>1, <2>2
<1>5. ListByPid'
  <2>1. ProcTypeOK'
    BY <1>1, <1>2, <1>4 DEF ProcInv, ListByPid, ProcTypeOK, SchedTypeOK
  <2> QED BY <1>1, <2>1, ListKept DEF ProcInv
<1>6. ZombiesWait' /\ Owned' /\ PointersSound'
  BY <1>1, <1>2, <1>3, CurrentFacts
     DEF ProcInv, ZombiesWait, Owned, PointersSound, EXITED, READY, TAKEN
<1>7. WaitersQueued'
  <2>1. \A x \in Pcb \cup {NoPcb} : StatusAt(x) # EXITED => (StatusAt(x) # EXITED)'
    BY <1>2, ProcessesAssumption DEF StatusAt, EXITED, READY
  <2> QED BY <1>1, <1>2, <1>3, <2>1
          DEF ProcInv, WaitersQueued, ListByPid, ProcTypeOK, SLEEPING, READY
<1>8. LeavesAlone(OtherLoops)
  BY <1>1, <1>2, <1>3 DEF LeavesAlone, SLEEPING, READY
<1> QED BY <1>1, <1>2, <1>3, <1>4, <1>5, <1>6, <1>7, <1>8 DEF ProcInv

----------------------------------------------------------------------------
(* Booting leaves the idle task and init on the list. *)
LEMMA ProcInitInv == ProcInit => ProcInv
<1> SUFFICES ASSUME ProcInit PROVE ProcInv
  OBVIOUS
<1>1. /\ procs = <<Idle, InitProc>> /\ Live = {Idle, InitProc} /\ current = InitProc
      /\ Len(procs) = 2 /\ DOMAIN procs = 1 .. 2
      /\ procs[1] = Idle /\ procs[2] = InitProc /\ procs \in Seq(Pcb)
  BY SchedAssumption DEF ProcInit, SchedInit, Live, ToSet
<1>2. ProcTypeOK
  <2>1. SchedTypeOK
    BY <1>1, SchedAssumption DEF ProcInit, SchedInit, SchedTypeOK, Continuations
  <2>2. own_image \in [Pcb -> BOOLEAN] /\ double_free \in BOOLEAN /\ contended \in BOOLEAN
    <3>1. \A q \in Pcb : (q \in {Idle, InitProc}) \in BOOLEAN
      OBVIOUS
    <3>2. [q \in Pcb |-> q \in {Idle, InitProc}] \in [Pcb -> BOOLEAN]
      BY <3>1
    <3> QED BY <3>2 DEF ProcInit
  <2>3. /\ pid \in [Pcb -> Nat] /\ target \in [Pcb -> Pcb \cup {NoPcb}]
        /\ parent \in [Pcb -> Pcb \cup {NoPcb}]
        /\ waitpid_queue \subseteq Pcb /\ avail_pid \in Nat
    BY SchedAssumption DEF ProcInit
  <2> QED BY <2>1, <2>2, <2>3 DEF ProcTypeOK
<1>3. pid[Idle] = 0 /\ pid[InitProc] = 1 /\ avail_pid = 2
  BY SchedAssumption DEF ProcInit
<1>4. ListByPid
  BY <1>1, <1>2, <1>3, SchedAssumption DEF ListByPid, ListSound
<1>5. CurrentRuns /\ DestroyedOnce /\ IdleRuns
  BY <1>1, SchedAssumption DEF ProcInit, SchedInit, CurrentRuns, DestroyedOnce, IdleRuns, Live
<1>6. ZombiesWait /\ WaitersQueued /\ Owned /\ PointersSound
  BY <1>1, SchedAssumption
     DEF ProcInit, SchedInit, ZombiesWait, WaitersQueued, Owned, PointersSound,
         EXITED, READY, POISON, TAKEN
<1> QED BY <1>4, <1>5, <1>6 DEF ProcInv

(* The calls of a process about processes. *)
LEMMA ProcSyscallStep ==
    ASSUME ProcInv, NEW p \in Pcb, ProcSyscall(p)
    PROVE  ProcInv' /\ LeavesAlone(OtherLoops)
<1>1. CASE Waitpid(p)
  <2>1. /\ current = p /\ p # Idle /\ pc[p] = "user"
        /\ UNCHANGED <<pid, parent, own_image, avail_pid>>
    BY <1>1 DEF Waitpid, Calling, UserMode
  <2>2. PICK t \in Waitable(p) : WaitLoop(p, t)
    BY <1>1 DEF Waitpid
  <2>3. t \in Pcb \cup {NoPcb} /\ Pointer(p, t)
    BY <2>2, WaitableIsLive, CurrentFacts DEF Pointer
  <2>4. ~ double_free
    BY DEF ProcSyscall
  <2> QED BY <2>1, <2>2, <2>3, <2>4, WaitLoopStep
<1> QED BY <1>1, VforkStep, ExecveStep, MallocStep, ExitStep, NoHangStep DEF ProcSyscall

(* A process goes on inside the kernel. *)
LEMMA ProcResumeStep ==
    ASSUME ProcInv, NEW p \in Pcb, ProcResume(p)
    PROVE  ProcInv' /\ LeavesAlone(OtherLoops)
<1>1. CASE WaitpidResume(p)
  <2>1. /\ current = p /\ pc[p] = "waitpid" /\ WaitLoop(p, target[p])
        /\ UNCHANGED <<pid, parent, own_image, avail_pid>>
    BY <1>1 DEF WaitpidResume
  <2>2. p # Idle /\ target[p] \in Pcb \cup {NoPcb}
    BY <2>1 DEF ProcInv, IdleRuns, ListByPid, ProcTypeOK
  <2>3. Pointer(p, target[p]) /\ ~ double_free
    BY <2>1 DEF Pointer, ProcResume
  <2> QED BY <2>1, <2>2, <2>3, WaitLoopStep
<1>2. CASE ReturnToUser(p)
  <2>1. /\ current = p /\ pc[p] \in {"vfork", "exit"} /\ pc' = [pc EXCEPT ![p] = "user"]
        /\ UNCHANGED <<procs, status, current, scheduling_enabled>> /\ UNCHANGED procVars
    BY <1>2 DEF ReturnToUser
  <2>4. ~ double_free
    BY DEF ProcResume
  <2>2. ProcInv' /\ LeavesAlone(OtherLoops \ {pc[p]})
    BY <2>1, <2>4, ReturnStep
  <2>3. OtherLoops \ {pc[p]} = OtherLoops
    BY <2>1 DEF OtherLoops
  <2> QED BY <2>2, <2>3
<1> QED BY <1>1, <1>2 DEF ProcResume

(* Every step of the process core preserves its invariant. *)
LEMMA ProcInvInductive == ProcInv /\ [ProcNext]_allProcVars => ProcInv'
<1> SUFFICES ASSUME ProcInv, [ProcNext]_allProcVars PROVE ProcInv'
  OBVIOUS
<1>1. CASE Interrupt
  <2>1. status' = Woken({}) /\ scheduling_enabled' \in BOOLEAN
    BY <1>1 DEF Interrupt, Woken, ProcInv, ListByPid, ProcTypeOK, SchedTypeOK
  <2> QED BY <1>1, <2>1, WakeStep DEF Interrupt
<1>2. CASE \E p \in Pcb : ProcSyscall(p) \/ ProcResume(p)
  BY <1>2, ProcSyscallStep, ProcResumeStep
<1>3. CASE UNCHANGED allProcVars
  BY <1>3 DEF allProcVars, schedVars, procVars, ProcInv, ListByPid, ProcTypeOK, SchedTypeOK,
     ListSound, CurrentRuns, DestroyedOnce, IdleRuns, ZombiesWait, WaitersQueued,
     Owned, PointersSound, Live, StatusAt
<1> QED BY <1>1, <1>2, <1>3 DEF ProcNext, Ended

(* Whatever processes call, in whatever order: the list stays in the order *)
(* of creation without a pid twice, the CPU is with a READY process of the *)
(* list, no process is destroyed twice, and nobody sleeps in waitpid for a *)
(* process that has exited.                                                *)
THEOREM ProcessesSafe ==
    ProcSpec => [](ListByPid /\ CurrentRuns /\ DestroyedOnce /\ NoMissedExit)
<1>1. ProcInv => ListByPid /\ CurrentRuns /\ DestroyedOnce /\ NoMissedExit
  BY DEF ProcInv, NoMissedExit, WaitersQueued
<1> QED BY ProcInitInv, ProcInvInductive, <1>1, PTL DEF ProcSpec

----------------------------------------------------------------------------
(* The search of schedule(). *)

(* A place at most one turn off, round n places. *)
LEMMA RoundOnce ==
    ASSUME NEW n \in Nat \ {0}, NEW x \in 0 .. (2 * n - 1)
    PROVE  x % n = IF x < n THEN x ELSE x - n
OBVIOUS

(* The indices the search looks at: round the list without its head. *)
LEMMA SearchGoesRound ==
    ASSUME NEW m \in Nat, m >= 2, NEW orig \in 2 .. m, NEW at,
           at = [d \in 0 .. m |-> IF d = 0 THEN orig
                                  ELSE IF at[d - 1] + 1 > m THEN 2 ELSE at[d - 1] + 1]
    PROVE  \A d \in 0 .. m : d <= m - 1 => at[d] = 2 + ((orig - 2 + d) % (m - 1))
<1> DEFINE S == {d \in 0 .. m : d < m => at[d] = IF orig + d <= m THEN orig + d ELSE orig + d - (m - 1)}
<1>1. 0 \in S
  OBVIOUS
<1>2. ASSUME NEW d \in 0 .. (m - 1), d \in S
      PROVE  (d + 1) \in S
  <2>1. d + 1 \in 0 .. m /\ d \in 0 .. m /\ d + 1 # 0 /\ (d + 1) - 1 = d
    OBVIOUS
  <2>2. at[d + 1] = IF at[d] + 1 > m THEN 2 ELSE at[d] + 1
    BY <2>1
  <2>3. at[d] = IF orig + d <= m THEN orig + d ELSE orig + d - (m - 1)
    BY <1>2
  <2>4. d + 1 < m => at[d + 1] = IF orig + (d + 1) <= m THEN orig + (d + 1) ELSE orig + (d + 1) - (m - 1)
    <3> DEFINE u == at[d]
               v == at[d + 1]
    <3>1. v = IF u + 1 > m THEN 2 ELSE u + 1
      BY <2>2
    <3>2. u = IF orig + d <= m THEN orig + d ELSE orig + d - (m - 1)
      BY <2>3
    <3> HIDE DEF u, v
    <3>3. u \in Int
      BY <3>2
    <3>4. d + 1 < m => v = IF orig + (d + 1) <= m THEN orig + (d + 1) ELSE orig + (d + 1) - (m - 1)
      BY <3>1, <3>2, <3>3
    <3> QED BY <3>4 DEF v
  <2> QED BY <2>1, <2>4
<1> HIDE DEF S
<1>3. \A d \in 0 .. m : d \in S
  BY <1>1, <1>2, EveryTurn
<1> SUFFICES ASSUME NEW d \in 0 .. m, d <= m - 1
             PROVE  at[d] = 2 + ((orig - 2 + d) % (m - 1))
  OBVIOUS
<1>4. PICK x, n : x = orig - 2 + d /\ n = m - 1
  OBVIOUS
<1>5. x \in 0 .. (2 * n - 1) /\ n \in Nat \ {0}
  BY <1>4
<1>6. x % n = IF x < n THEN x ELSE x - n
  BY <1>5, RoundOnce
<1>7. at[d] = IF orig + d <= m THEN orig + d ELSE orig + d - (m - 1)
  BY <1>3 DEF S
<1>8. at[d] = IF x < n THEN 2 + x ELSE 2 + (x - n)
  BY <1>4, <1>7
<1> QED BY <1>4, <1>6, <1>8

(* Such a list of indices exists. *)
LEMMA SearchExists ==
    ASSUME NEW m \in Nat, m >= 2, NEW orig \in 2 .. m
    PROVE  \E at : at = [d \in 0 .. m |-> IF d = 0 THEN orig
                                  ELSE IF at[d - 1] + 1 > m THEN 2 ELSE at[d - 1] + 1]
<1> DEFINE n == m - 1
           x(d) == orig - 2 + d
           at == [d \in 0 .. m |-> IF x(d) < n THEN 2 + x(d) 
                                   ELSE IF x(d) < 2 * n THEN 2 + x(d) - n ELSE 2 + x(d) - 2 * n]
<1>1. ASSUME NEW d \in 0 .. m
      PROVE  at[d] = IF d = 0 THEN orig ELSE IF at[d - 1] + 1 > m THEN 2 ELSE at[d - 1] + 1
  OBVIOUS
<1> QED BY <1>1

(* The loop of schedule() and its closed form choose the same process of   *)
(* a list without repetitions.                                             *)
LEMMA LoopChooses ==
    ASSUME NEW list \in Seq(Pcb), NEW st, NEW cur \in ToSet(list)
    PROVE  NextProcess(list, st, cur) = ScheduleLoop(list, st, cur)
<1> DEFINE m == Len(list)
           n == Len(list) - 1
           k == CHOOSE i \in 1 .. Len(list) : list[i] = cur
           start == IF k = 1 THEN 2 ELSE k
           after(d) == list[2 + ((start - 2 + d) % n)]
           ready == {d \in 1 .. n : st[after(d)] = READY}
<1>1. k \in 1 .. m /\ list[k] = cur /\ m \in Nat
  BY DEF ToSet
<1>2. CASE m = 1
  <2>1. k = 1
    BY <1>1, <1>2
  <2>2. list[1] = cur
    BY <1>1, <2>1
  <2> QED BY <1>2, <2>2 DEF NextProcess, ScheduleLoop
<1>3. CASE m # 1
  <2>1. m >= 2 /\ start \in 2 .. m /\ n \in Nat \ {0}
    <3>1. \A y \in Nat : y # 1 => \A x \in 1 .. y :
             y >= 2 /\ (IF x = 1 THEN 2 ELSE x) \in 2 .. y /\ y - 1 \in Nat \ {0}
      OBVIOUS
    <3>2. m \in Nat /\ m # 1 /\ k \in 1 .. m
      BY <1>1, <1>3
    <3> HIDE DEF m, k
    <3>3. m >= 2 /\ start \in 2 .. m /\ m - 1 \in Nat \ {0}
      BY <3>1, <3>2, Zenon
    <3> QED BY <3>3, Zenon DEF m
  <2> DEFINE Goes(at) == at = [d \in 0 .. m |-> IF d = 0 THEN start
                                  ELSE IF at[d - 1] + 1 > m THEN 2 ELSE at[d - 1] + 1]
             at == CHOOSE f : Goes(f)
             ends == {d \in 1 .. m : st[list[at[d]]] = READY \/ at[d] = start}
             last == at[Min(ends)]
  <2> HIDE DEF k
  <2>2. Goes(at)
    <3>1. \E f : Goes(f)
      <4> HIDE DEF start, m
      <4> QED BY <1>1, <2>1, SearchExists
    <3> HIDE DEF Goes
    <3> QED BY <3>1
  <2> HIDE DEF at
  <2>3. \A d \in 0 .. n : at[d] = 2 + ((start - 2 + d) % n)
    <3>1. \A d \in 0 .. m : d <= m - 1 => at[d] = 2 + ((start - 2 + d) % (m - 1))
      <4> HIDE DEF start, m
      <4> QED BY <1>1, <2>1, <2>2, SearchGoesRound
    <3> HIDE DEF start
    <3> QED BY <1>1, <3>1
  <2>4. \A d \in 1 .. n : after(d) = list[at[d]]
    <3> HIDE DEF start
    <3> QED BY <2>3
  <2>5. ScheduleLoop(list, st, cur) = list[IF st[list[last]] = READY THEN last ELSE 1]
    BY <1>3 DEF ScheduleLoop, SearchLoop, k, at
  <2>6. NextProcess(list, st, cur) = IF ready = {} THEN list[1] ELSE after(Min(ready))
    <3>1. NextProcess(list, st, cur) = IF n = 0 \/ ready = {} THEN list[1] ELSE after(Min(ready))
      BY DEF NextProcess, k
    <3>2. n # 0
      BY <2>1
    <3> HIDE DEF n, ready
    <3> QED BY <3>1, <3>2, Zenon
  <2>7. \A d \in 1 .. n : at[d] = start <=> d = n
    <3> SUFFICES ASSUME NEW d \in 1 .. n PROVE at[d] = start <=> d = n
      OBVIOUS
    <3>1. PICK x : x = start - 2 + d
      OBVIOUS
    <3> HIDE DEF start
    <3>2. x \in 0 .. (2 * n - 1)
      BY <1>1, <2>1, <3>1
    <3> HIDE DEF n
    <3>3. x % n = IF x < n THEN x ELSE x - n
      BY <2>1, <3>2, RoundOnce
    <3>4. at[d] = 2 + (x % n)
      BY <2>1, <2>3, <3>1
    <3>5. start \in 2 .. (n + 1)
      BY <1>1, <2>1 DEF n
    <3> QED BY <2>1, <3>1, <3>2, <3>3, <3>4, <3>5
  <2>8. n \in ends /\ ends \subseteq Nat
    BY <1>1, <2>1, <2>7
  <2>9. Min(ends) \in ends /\ \A d \in ends : Min(ends) <= d
    <3> HIDE DEF ends
    <3> QED BY <2>8, MinOfNats
  <2>10. PICK e : e = Min(ends)
    OBVIOUS
  <2>11. PICK R : R = {d \in 1 .. n : st[list[at[d]]] = READY}
    OBVIOUS
  <2>12. ready = R
    <3> HIDE DEF n, start
    <3> QED BY <2>4, <2>11
  <2>13. NextProcess(list, st, cur) = IF R = {} THEN list[1] ELSE list[at[Min(R)]]
    <3>1. R # {} => Min(R) \in R
      <4>1. R \subseteq Nat
        BY <1>1, <2>11
      <4> QED BY <4>1, MinOfNats
    <3>2. R # {} => Min(R) \in 1 .. n
      BY <2>11, <3>1
    <3>3. R # {} => after(Min(R)) = list[at[Min(R)]]
      <4> HIDE DEF n, after
      <4> QED BY <2>4, <3>2
    <3> HIDE DEF ready, after
    <3> QED BY <2>6, <2>12, <3>3
  <2> HIDE DEF start, ready, after
  <2>14. e \in 1 .. n /\ last = at[e] /\ \A d \in 1 .. n : d < e => st[list[at[d]]] # READY
    <3>1. e \in ends /\ \A d \in ends : e <= d
      BY <2>9, <2>10
    <3>2. e \in 1 .. m /\ e <= n
      BY <2>8, <3>1
    <3>3. e \in 1 .. n
      BY <1>1, <3>2
    <3>4. ASSUME NEW d \in 1 .. n, d < e PROVE st[list[at[d]]] # READY
      <4>1. d \notin ends
        <5> HIDE DEF ends
        <5> QED BY <3>1, <3>3, <3>4
      <4>2. d \in 1 .. m
        BY <1>1
      <4> QED BY <4>1, <4>2
    <3> HIDE DEF ends
    <3> QED BY <2>10, <3>3, <3>4
  <2>15. CASE st[list[at[e]]] = READY
    <3>1. e \in R
      BY <2>11, <2>14, <2>15
    <3>2. \A d \in R : e <= d
      <4> SUFFICES ASSUME NEW d \in R, d < e PROVE FALSE
        BY <2>11, <2>14
      <4> QED BY <2>11, <2>14
    <3>3. Min(R) = e
      <4>1. R \subseteq Nat /\ R # {}
        BY <2>11, <3>1
      <4>2. Min(R) \in R /\ \A d \in R : Min(R) <= d
        BY <4>1, MinOfNats
      <4>3. PICK x : x = Min(R)
        OBVIOUS
      <4>4. x \in Nat /\ e \in Nat /\ x <= e /\ e <= x
        BY <4>1, <4>2, <4>3, <3>1, <3>2
      <4> QED BY <4>3, <4>4
    <3> HIDE DEF last
    <3> QED BY <2>5, <2>13, <2>14, <2>15, <3>1, <3>3
  <2>16. CASE st[list[at[e]]] # READY
    <3>1. e = n
      <4>1. e \in ends
        BY <2>9, <2>10
      <4> QED BY <4>1, <2>7, <2>14, <2>16
    <3>2. ASSUME NEW d \in R PROVE FALSE
      <4>1. d \in 1 .. n /\ st[list[at[d]]] = READY
        BY <2>11
      <4>2. d < e \/ d = e
        BY <4>1, <3>1, <2>1
      <4> QED BY <4>1, <4>2, <2>14, <2>16
    <3>3. R = {}
      BY <3>2
    <3> HIDE DEF last
    <3> QED BY <2>5, <2>13, <2>14, <2>16, <3>3
  <2> QED BY <2>15, <2>16
<1> QED BY <1>2, <1>3

(* The rotation of schedule() is computed right, for any list and whatever *)
(* is READY.                                                               *)
THEOREM ScheduleIsRoundRobin == ProcSpec => []ChoiceIsLoop
<1>1. ProcInv => ChoiceIsLoop
  BY LoopChooses DEF ProcInv, ListByPid, ProcTypeOK, SchedTypeOK, ChoiceIsLoop, Live
<1> QED BY <1>1, ProcInitInv, ProcInvInductive, PTL DEF ProcSpec
=============================================================================
