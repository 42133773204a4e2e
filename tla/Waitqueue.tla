----------------------------- MODULE Waitqueue -----------------------------
(***************************************************************************)
(* kernel/processes/waitqueue.c: queues of sleeping processes, threaded    *)
(* through the one field wait_queue_next of the PCB.  A process can so be  *)
(* on one queue at a time, and nothing in wait_queue_add checks it; the    *)
(* last process of a queue has the same NULL link as one on no queue.      *)
(*                                                                         *)
(* The callers are loops: `while (condition) wait_queue_add(queue, current)'*)
(* with one queue per loop, entered with the link NULL, left only after a  *)
(* wake-up of the queue (Kernel establishes this as QueueDiscipline).      *)
(* Execve may also make a process READY in its queue.                      *)
(***************************************************************************)
EXTENDS Naturals, FiniteSets

CONSTANTS Proc, Queue, Null

ASSUME WaitqueueAssumption == Null \notin Proc \cup Queue

VARIABLES
    first,              \* queue->first
    wait_queue_next,    \* proc->wait_queue_next
    ready,              \* processes whose status is READY
    loop,               \* the queue whose loop the process is in, or Null
    woken               \* processes a wake-up has reached since their last add

vars == <<first, wait_queue_next, ready, loop, woken>>

(* With each process, S holds the one its link leads to. *)
FollowsLinks(S) ==
    \A p \in S : wait_queue_next[p] = Null \/ wait_queue_next[p] \in S

(* The processes met when the links are followed from n: no fewer can hold *)
(* n and follow the links.                                                 *)
Chain(n) ==
    {p \in Proc : n # Null /\ \A S \in SUBSET Proc : (n \in S /\ FollowsLinks(S)) => p \in S}

(* The links after proc is appended to the chain that starts at n.  The    *)
(* loop stops where it meets proc, which stays where it is, or else at the *)
(* last process, the one that has no link; on a chain without a last       *)
(* process it would not end.                                               *)
Linked(n, proc) ==
    IF proc \in Chain(n)
    THEN wait_queue_next
    ELSE [wait_queue_next EXCEPT ![CHOOSE last \in Chain(n) : wait_queue_next[last] = Null] = proc]

----------------------------------------------------------------------------
(* wait_queue_add(q, current_process), up to schedule(). *)
wait_queue_add(q, p) ==
    /\ p \in ready
    /\ loop[p] \in {Null, q}
    /\ IF first[q] = Null
       THEN first' = [first EXCEPT ![q] = p] /\ UNCHANGED wait_queue_next
       ELSE wait_queue_next' = Linked(first[q], p) /\ UNCHANGED first
    /\ ready' = ready \ {p}
    /\ loop' = [loop EXCEPT ![p] = q]
    /\ woken' = woken \ {p}

(* Mutation of wait_queue_wake: the links of woken processes stay. *)
WakeKeepsLinks(q) ==
    LET chain == Chain(first[q])
    IN  /\ ready' = ready \cup chain
        /\ woken' = woken \cup chain
        /\ first' = [first EXCEPT ![q] = Null]
        /\ UNCHANGED <<wait_queue_next, loop>>

(* wait_queue_wake: every process of the chain READY and unlinked. *)
wait_queue_wake(q) ==
    LET chain == Chain(first[q])
    IN  /\ ready' = ready \cup chain
        /\ wait_queue_next' = [p \in Proc |-> IF p \in chain THEN Null ELSE wait_queue_next[p]]
        /\ first' = [first EXCEPT ![q] = Null]
        /\ woken' = woken \cup chain
        /\ UNCHANGED loop

(* A caller's loop ends: its condition has changed, and whoever changed it *)
(* has woken the queue. *)
LeaveLoop(p) ==
    /\ p \in ready /\ loop[p] # Null /\ p \in woken
    /\ loop' = [loop EXCEPT ![p] = Null]
    /\ UNCHANGED <<first, wait_queue_next, ready, woken>>

(* execve of a child makes its parent READY, on a queue or not. *)
ExecveWakesParent(p) ==
    /\ p \notin ready
    /\ ready' = ready \cup {p}
    /\ UNCHANGED <<first, wait_queue_next, loop, woken>>

(* vfork of p copies its PCB, the link included, over a PCB c in no loop. *)
VforkCopies(p, c) ==
    /\ p \in ready /\ loop[p] = Null /\ c # p /\ loop[c] = Null
    /\ wait_queue_next' = [wait_queue_next EXCEPT ![c] = wait_queue_next[p]]
    /\ UNCHANGED <<first, ready, loop, woken>>

Init ==
    /\ first = [q \in Queue |-> Null]
    /\ wait_queue_next = [p \in Proc |-> Null]
    /\ ready = Proc
    /\ loop = [p \in Proc |-> Null]
    /\ woken = {}

Next ==
    \/ \E q \in Queue : wait_queue_wake(q)
    \/ \E q \in Queue, p \in Proc : wait_queue_add(q, p)
    \/ \E p \in Proc : LeaveLoop(p) \/ ExecveWakesParent(p)
    \/ \E p, c \in Proc : VforkCopies(p, c)

Spec == Init /\ [][Next]_vars

----------------------------------------------------------------------------

(* The links implement the set: a queue's chain holds the processes that   *)
(* were added since its last wake-up, each in one queue, and a wake-up     *)
(* reaches all of them and nobody else.                                    *)
Sets == INSTANCE WaitSet WITH waiting <- [q \in Queue |-> Chain(first[q])]

WaitSetSpec == Sets!Spec
=============================================================================
