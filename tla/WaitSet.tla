------------------------------ MODULE WaitSet ------------------------------
(***************************************************************************)
(* What a wait queue promises: it is a set of sleeping processes, no       *)
(* process is in two of them, and a wake-up makes exactly the processes of *)
(* that set READY and empties it.  Waitqueue.tla implements it with one    *)
(* link per process.                                                       *)
(***************************************************************************)
CONSTANTS Proc, Queue

VARIABLES waiting, ready

Init == waiting = [q \in Queue |-> {}] /\ ready = Proc

(* A running process puts itself to sleep on q; it may still be there from *)
(* a turn of the loop before. *)
Add(q, p) ==
    /\ p \in ready
    /\ \A r \in Queue \ {q} : p \notin waiting[r]
    /\ waiting' = [waiting EXCEPT ![q] = @ \cup {p}]
    /\ ready' = ready \ {p}

Wake(q) ==
    /\ ready' = ready \cup waiting[q]
    /\ waiting' = [waiting EXCEPT ![q] = {}]

(* Somebody makes one process READY behind the queue's back. *)
Disturb(p) == ready' = ready \cup {p} /\ UNCHANGED waiting

Next ==
    \/ \E q \in Queue : Wake(q) \/ \E p \in Proc : Add(q, p)
    \/ \E p \in Proc : Disturb(p)

Spec == Init /\ [][Next]_<<waiting, ready>>
=============================================================================
