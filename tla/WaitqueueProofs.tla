-------------------------- MODULE WaitqueueProofs --------------------------
(***************************************************************************)
(* The links of the wait queues implement sets, for any number of          *)
(* processes and queues.                                                   *)
(*                                                                         *)
(* A chain is the least set that holds its first process and follows the   *)
(* links.  That is all the proofs use of it: to show that a chain is       *)
(* inside a set, the set follows the links; to show that it holds a        *)
(* process, every set that follows the links does.                         *)
(***************************************************************************)
EXTENDS Waitqueue, TLAPS

Links == [Proc -> Proc \cup {Null}]

(* FollowsLinks and Chain, for any links. *)
Follows(link, S) == \A p \in S : link[p] = Null \/ link[p] \in S

Reach(link, n) ==
    {p \in Proc : n # Null /\ \A S \in SUBSET Proc : (n \in S /\ Follows(link, S)) => p \in S}

(* The chain of a queue, before and after a step. *)
LEMMA ChainIsReach ==
    /\ \A n : Chain(n) = Reach(wait_queue_next, n)
    /\ \A q : Chain(first[q])' = Reach(wait_queue_next', first'[q])
BY DEF Chain, Reach, FollowsLinks, Follows

----------------------------------------------------------------------------
(* Chains of any links. *)
LEMMA ReachNull == ASSUME NEW link PROVE Reach(link, Null) = {}
BY DEF Reach

LEMMA ReachFollows ==
    ASSUME NEW link \in Links, NEW n \in Proc \cup {Null}
    PROVE  /\ Reach(link, n) \subseteq Proc
           /\ n # Null => n \in Reach(link, n)
           /\ Follows(link, Reach(link, n))
<1>1. ASSUME NEW p \in Reach(link, n), link[p] # Null
      PROVE  link[p] \in Reach(link, n)
  <2>1. link[p] \in Proc /\ n # Null
    BY <1>1 DEF Reach, Links
  <2>2. ASSUME NEW S \in SUBSET Proc, n \in S, Follows(link, S)
        PROVE  link[p] \in S
    BY <1>1, <2>2 DEF Reach, Follows
  <2> QED BY <2>1, <2>2 DEF Reach
<1> QED BY <1>1 DEF Reach, Follows

LEMMA ReachLeast ==
    ASSUME NEW link, NEW n, NEW S \in SUBSET Proc, n \in S, Follows(link, S)
    PROVE  Reach(link, n) \subseteq S
BY DEF Reach

(* A process without a link goes to the end of a chain: that chain has it  *)
(* too, and other chains are what they were.                               *)
LEMMA ReachAppended ==
    ASSUME NEW link \in Links, NEW n \in Proc, NEW p \in Proc, link[p] = Null,
           NEW last \in Reach(link, n), link[last] = Null, p # last,
           NEW new \in Links, new[last] = p, \A x \in Proc \ {last} : new[x] = link[x]
    PROVE  /\ Reach(new, n) = Reach(link, n) \cup {p}
           /\ \A m \in Proc \cup {Null} : last \notin Reach(link, m) => Reach(new, m) = Reach(link, m)
<1>0. last \in Proc
  BY DEF Reach
<1>1. ASSUME NEW S \in SUBSET Proc, Follows(new, S)
      PROVE  Follows(link, S)
  BY <1>0, <1>1 DEF Follows
<1>2. ASSUME NEW m \in Proc PROVE Reach(link, m) \subseteq Reach(new, m)
  BY <1>1 DEF Reach
<1>3. Reach(new, n) = Reach(link, n) \cup {p}
  <2>1. Follows(new, Reach(link, n) \cup {p})
    BY <1>0, ReachFollows DEF Follows
  <2>2. Reach(new, n) \subseteq Reach(link, n) \cup {p}
    <3>1. Reach(link, n) \cup {p} \in SUBSET Proc /\ n \in Reach(link, n) \cup {p}
      BY ReachFollows, WaitqueueAssumption
    <3> QED BY <2>1, <3>1, ReachLeast
  <2>3. p \in Reach(new, n)
    <3>1. last \in Reach(new, n) /\ Follows(new, Reach(new, n))
      BY <1>0, <1>2, ReachFollows
    <3> QED BY <1>0, <3>1, WaitqueueAssumption DEF Follows
  <2> QED BY <1>2, <2>2, <2>3
<1>4. ASSUME NEW m \in Proc, last \notin Reach(link, m)
      PROVE  Reach(new, m) = Reach(link, m)
  <2>1. Follows(new, Reach(link, m))
    BY <1>0, <1>4, ReachFollows DEF Follows
  <2>2. Reach(link, m) \in SUBSET Proc /\ m \in Reach(link, m)
    BY ReachFollows, WaitqueueAssumption
  <2>3. Reach(new, m) \subseteq Reach(link, m)
    BY <2>1, <2>2, ReachLeast
  <2> QED BY <1>2, <2>3
<1> QED BY <1>3, <1>4, ReachNull

(* The processes of a chain lose their links: other chains stay. *)
LEMMA ReachUnlinked ==
    ASSUME NEW link \in Links, NEW C \in SUBSET Proc, Follows(link, C),
           NEW m \in Proc \cup {Null}, Reach(link, m) \cap C = {}
    PROVE  Reach([p \in Proc |-> IF p \in C THEN Null ELSE link[p]], m) = Reach(link, m)
<1> DEFINE new == [p \in Proc |-> IF p \in C THEN Null ELSE link[p]]
<1>0. new \in Links /\ \A p \in Proc : new[p] = IF p \in C THEN Null ELSE link[p]
  BY DEF Links
<1> HIDE DEF new
<1>1. CASE m = Null
  BY <1>1, ReachNull DEF new
<1>2. CASE m # Null
  <2>1. Reach(new, m) \subseteq Reach(link, m)
    <3>1. Reach(link, m) \in SUBSET Proc /\ m \in Reach(link, m) /\ Follows(new, Reach(link, m))
      BY <1>0, <1>2, ReachFollows DEF Follows
    <3> QED BY <3>1, ReachLeast
  <2>2. Reach(link, m) \subseteq Reach(new, m) \cup C
    <3>1. /\ Reach(new, m) \cup C \in SUBSET Proc /\ m \in Reach(new, m) \cup C
          /\ Follows(new, Reach(new, m))
      BY <1>0, <1>2, ReachFollows
    <3>2. Follows(link, Reach(new, m) \cup C)
      BY <1>0, <3>1 DEF Follows
    <3> QED BY <3>1, <3>2, ReachLeast
  <2> QED BY <2>1, <2>2 DEF new
<1> QED BY <1>1, <1>2

----------------------------------------------------------------------------
QueueTypeOK ==
    /\ first \in [Queue -> Proc \cup {Null}]
    /\ wait_queue_next \in Links
    /\ loop \in [Proc -> Queue \cup {Null}]

(* Whoever is on a queue is inside its loop, and no wake-up has reached    *)
(* it; so it is on one queue only.                                         *)
InLoop == \A q \in Queue : \A p \in Chain(first[q]) : loop[p] = q /\ p \notin woken

(* Whoever is on no queue has no link. *)
NoStaleLink ==
    \A p \in Proc : (\A q \in Queue : p \notin Chain(first[q])) => wait_queue_next[p] = Null

(* A queue that is not empty has one last process: the walk ends. *)
Ends ==
    \A q \in Queue : first[q] # Null =>
        \E last \in Chain(first[q]) : \A p \in Chain(first[q]) :
            wait_queue_next[p] = Null <=> p = last

QueueInv == QueueTypeOK /\ InLoop /\ NoStaleLink /\ Ends

LEMMA QueueInitInv == Init => QueueInv /\ Sets!Init
<1> SUFFICES ASSUME Init PROVE QueueInv /\ Sets!Init
  OBVIOUS
<1>1. \A q \in Queue : Chain(first[q]) = {}
  BY ChainIsReach, ReachNull DEF Init
<1>2. QueueTypeOK
  BY DEF Init, QueueTypeOK, Links
<1> QED BY <1>1, <1>2 DEF Init, QueueInv, InLoop, NoStaleLink, Ends, Sets!Init

(* The chains of two queues have nothing in common, and follow the links. *)
LEMMA ChainFacts ==
    ASSUME QueueInv
    PROVE  /\ \A q \in Queue :
                /\ Chain(first[q]) \subseteq Proc
                /\ Follows(wait_queue_next, Chain(first[q]))
                /\ first[q] # Null => first[q] \in Chain(first[q])
                /\ first[q] = Null => Chain(first[q]) = {}
           /\ \A q, r \in Queue : q # r => Chain(first[q]) \cap Chain(first[r]) = {}
<1>1. \A q \in Queue : first[q] \in Proc \cup {Null} /\ wait_queue_next \in Links
  BY DEF QueueInv, QueueTypeOK
<1>2. \A q, r \in Queue : q # r => Chain(first[q]) \cap Chain(first[r]) = {}
  BY DEF QueueInv, InLoop
<1> QED BY <1>1, <1>2, ChainIsReach, ReachNull, ReachFollows

(* wait_queue_add: the process is on its queue, once, and nowhere else. *)
LEMMA AddStep ==
    ASSUME QueueInv, NEW q \in Queue, NEW p \in Proc, wait_queue_add(q, p)
    PROVE  QueueInv' /\ Sets!Add(q, p)
<1>1. \A r \in Queue \ {q} : p \notin Chain(first[r])
  BY WaitqueueAssumption DEF QueueInv, InLoop, wait_queue_add
<1>2. /\ first \in [Queue -> Proc \cup {Null}] /\ wait_queue_next \in Links
      /\ loop \in [Proc -> Queue \cup {Null}]
      /\ loop' = [loop EXCEPT ![p] = q] /\ woken' = woken \ {p}
  BY DEF QueueInv, QueueTypeOK, wait_queue_add
<1>3. /\ \A r \in Queue : Chain(first[r])' = IF r = q THEN Chain(first[q]) \cup {p} ELSE Chain(first[r])
      /\ first' \in [Queue -> Proc \cup {Null}] /\ wait_queue_next' \in Links
      /\ NoStaleLink' /\ Ends'
  <2>1. CASE first[q] = Null
    <3>1. first' = [first EXCEPT ![q] = p] /\ wait_queue_next' = wait_queue_next
      BY <2>1 DEF wait_queue_add
    <3>2. p \notin Chain(first[q]) /\ wait_queue_next[p] = Null
      BY <1>1, <2>1, ChainFacts DEF QueueInv, NoStaleLink
    <3>3. Reach(wait_queue_next, p) = {p}
      <4>1. {p} \in SUBSET Proc /\ p \in {p} /\ Follows(wait_queue_next, {p})
        BY <3>2 DEF Follows
      <4>2. Reach(wait_queue_next, p) \subseteq {p}
        BY <4>1, ReachLeast
      <4> QED BY <1>2, <4>2, ReachFollows, WaitqueueAssumption
    <3>4. \A r \in Queue : Chain(first[r])' = IF r = q THEN {p} ELSE Chain(first[r])
      BY <1>2, <3>1, <3>3, ChainIsReach
    <3>5. NoStaleLink'
      BY <2>1, <3>1, <3>4, ChainFacts DEF QueueInv, NoStaleLink
    <3>6. Ends'
      BY <1>2, <3>1, <3>2, <3>4 DEF QueueInv, Ends
    <3> QED BY <1>2, <2>1, <3>1, <3>4, <3>5, <3>6, ChainFacts
  <2>2. CASE first[q] # Null /\ p \in Chain(first[q])
    <3>1. first' = first /\ wait_queue_next' = wait_queue_next
      BY <2>2 DEF wait_queue_add, Linked
    <3>2. \A r \in Queue : Chain(first[r])' = Chain(first[r])
      BY <3>1, ChainIsReach
    <3> QED BY <1>2, <2>2, <3>1, <3>2 DEF QueueInv, NoStaleLink, Ends
  <2>3. CASE first[q] # Null /\ p \notin Chain(first[q])
    <3>1. PICK last \in Chain(first[q]) : \A x \in Chain(first[q]) :
                wait_queue_next[x] = Null <=> x = last
      BY <2>3 DEF QueueInv, Ends
    <3>2. last = CHOOSE x \in Chain(first[q]) : wait_queue_next[x] = Null
      BY <3>1
    <3>3. first' = first /\ wait_queue_next' = [wait_queue_next EXCEPT ![last] = p]
      BY <2>3, <3>2 DEF wait_queue_add, Linked
    <3>4. wait_queue_next[p] = Null
      BY <1>1, <2>3 DEF QueueInv, NoStaleLink
    <3>5. \A r \in Queue \ {q} : last \notin Chain(first[r])
      BY <3>1, ChainFacts
    <3>6. /\ last \in Proc /\ wait_queue_next' \in Links /\ wait_queue_next'[last] = p
          /\ \A x \in Proc \ {last} : wait_queue_next'[x] = wait_queue_next[x]
      BY <1>2, <3>1, <3>3, ChainFacts DEF Links
    <3>7. \A r \in Queue : Chain(first[r])' = IF r = q THEN Chain(first[q]) \cup {p} ELSE Chain(first[r])
      <4>1. first[q] \in Proc /\ p # last /\ wait_queue_next[last] = Null
        BY <1>2, <2>3, <3>1
      <4>2. /\ Reach(wait_queue_next', first[q]) = Chain(first[q]) \cup {p}
            /\ \A m \in Proc \cup {Null} : last \notin Chain(m) =>
                  Reach(wait_queue_next', m) = Chain(m)
        <5>1. last \in Reach(wait_queue_next, first[q])
          BY <3>1, ChainIsReach
        <5>2. /\ Reach(wait_queue_next', first[q]) = Reach(wait_queue_next, first[q]) \cup {p}
              /\ \A m \in Proc \cup {Null} : last \notin Reach(wait_queue_next, m) =>
                    Reach(wait_queue_next', m) = Reach(wait_queue_next, m)
          <6>1. /\ wait_queue_next \in Links /\ first[q] \in Proc /\ p # last
                /\ wait_queue_next[last] = Null /\ wait_queue_next[p] = Null
            BY <1>2, <3>4, <4>1
          <6> QED BY <3>6, <5>1, <6>1, ReachAppended
        <5> QED BY <5>2, ChainIsReach
      <4> QED BY <1>2, <3>3, <3>5, <4>2, ChainIsReach
    <3>8. NoStaleLink'
      BY <3>1, <3>7, <3>6 DEF QueueInv, NoStaleLink
    <3>9. Ends'
      <4> SUFFICES ASSUME NEW r \in Queue, first'[r] # Null
                   PROVE  \E e \in Chain(first[r])' : \A x \in Chain(first[r])' :
                              wait_queue_next'[x] = Null <=> x = e
        BY DEF Ends
      <4>1. CASE r = q
        <5>1. \A x \in Chain(first[q]) \cup {p} : wait_queue_next'[x] = Null <=> x = p
          BY <2>3, <3>1, <3>4, <3>6, ChainFacts, WaitqueueAssumption
        <5> QED BY <3>7, <4>1, <5>1
      <4>2. CASE r # q
        <5>1. PICK e \in Chain(first[r]) : \A x \in Chain(first[r]) :
                    wait_queue_next[x] = Null <=> x = e
          BY <3>3 DEF QueueInv, Ends
        <5>2. \A x \in Chain(first[r]) : wait_queue_next'[x] = wait_queue_next[x]
          BY <3>5, <3>6, <4>2, ChainFacts
        <5> QED BY <3>7, <4>2, <5>1, <5>2
      <4> QED BY <4>1, <4>2
    <3> QED BY <1>2, <3>3, <3>7, <3>6, <3>8, <3>9
  <2> QED BY <2>1, <2>2, <2>3
<1>4. QueueTypeOK' /\ InLoop'
  BY <1>1, <1>2, <1>3, ChainFacts DEF QueueInv, QueueTypeOK, InLoop
<1>5. Sets!Add(q, p)
  BY <1>1, <1>3 DEF Sets!Add, wait_queue_add
<1> QED BY <1>3, <1>4, <1>5 DEF QueueInv

(* wait_queue_wake: the queue is empty, and its processes have no links. *)
LEMMA WakeStep ==
    ASSUME QueueInv, NEW q \in Queue, wait_queue_wake(q)
    PROVE  QueueInv' /\ Sets!Wake(q)
<1> DEFINE C == Chain(first[q])
<1>1. /\ first \in [Queue -> Proc \cup {Null}] /\ wait_queue_next \in Links
      /\ loop \in [Proc -> Queue \cup {Null}]
      /\ first' = [first EXCEPT ![q] = Null]
      /\ wait_queue_next' = [p \in Proc |-> IF p \in C THEN Null ELSE wait_queue_next[p]]
      /\ loop' = loop /\ woken' = woken \cup C /\ ready' = ready \cup C
  BY DEF QueueInv, QueueTypeOK, wait_queue_wake
<1>2. C \in SUBSET Proc /\ Follows(wait_queue_next, C)
  BY ChainFacts
<1>3. \A r \in Queue \ {q} : Chain(first[r]) \cap C = {}
  BY ChainFacts
<1> HIDE DEF C
<1>4. \A r \in Queue : Chain(first[r])' = IF r = q THEN {} ELSE Chain(first[r])
  <2>1. ASSUME NEW r \in Queue \ {q} PROVE Chain(first[r])' = Chain(first[r])
    <3>1. first'[r] = first[r] /\ first[r] \in Proc \cup {Null}
      BY <1>1
    <3>2. Reach(wait_queue_next', first[r]) = Reach(wait_queue_next, first[r])
      BY <1>1, <1>2, <1>3, <3>1, ReachUnlinked, ChainIsReach
    <3> QED BY <3>1, <3>2, ChainIsReach
  <2>2. Chain(first[q])' = {}
    BY <1>1, ReachNull, ChainIsReach
  <2> QED BY <2>1, <2>2
<1>5. wait_queue_next' \in Links /\ \A p \in Proc : wait_queue_next'[p] = IF p \in C THEN Null ELSE wait_queue_next[p]
  BY <1>1 DEF Links
<1>6. QueueTypeOK' /\ InLoop'
  BY <1>1, <1>3, <1>4, <1>5 DEF QueueInv, QueueTypeOK, InLoop
<1>7. NoStaleLink'
  BY <1>4, <1>5 DEF QueueInv, NoStaleLink, C
<1>8. Ends'
  <2> SUFFICES ASSUME NEW r \in Queue, first'[r] # Null
               PROVE  \E e \in Chain(first[r])' : \A x \in Chain(first[r])' :
                          wait_queue_next'[x] = Null <=> x = e
    BY DEF Ends
  <2>1. r # q /\ first[r] # Null
    BY <1>1
  <2>2. PICK e \in Chain(first[r]) : \A x \in Chain(first[r]) :
              wait_queue_next[x] = Null <=> x = e
    BY <2>1 DEF QueueInv, Ends
  <2>3. \A x \in Chain(first[r]) : wait_queue_next'[x] = wait_queue_next[x]
    BY <1>3, <1>5, <2>1, ChainFacts
  <2> QED BY <1>4, <2>1, <2>2, <2>3
<1>9. Sets!Wake(q)
  BY <1>1, <1>4 DEF Sets!Wake, C
<1> QED BY <1>6, <1>7, <1>8, <1>9 DEF QueueInv

(* A step that leaves queues and links alone. *)
LEMMA QueuesLeft ==
    ASSUME QueueInv, UNCHANGED <<first, wait_queue_next>>,
           loop' \in [Proc -> Queue \cup {Null}],
           \A q \in Queue : \A p \in Chain(first[q]) : loop'[p] = loop[p] /\ (p \in woken' => p \in woken)
    PROVE  QueueInv' /\ UNCHANGED [q \in Queue |-> Chain(first[q])]
<1>1. \A q \in Queue : Chain(first[q])' = Chain(first[q])
  BY ChainIsReach
<1> QED BY <1>1 DEF QueueInv, QueueTypeOK, InLoop, NoStaleLink, Ends

LEMMA QueueStep ==
    ASSUME QueueInv, [Next]_vars
    PROVE  QueueInv' /\ [Sets!Next]_<<[q \in Queue |-> Chain(first[q])], ready>>
<1>1. CASE \E q \in Queue : wait_queue_wake(q)
  BY <1>1, WakeStep DEF Sets!Next
<1>2. CASE \E q \in Queue, p \in Proc : wait_queue_add(q, p)
  BY <1>2, AddStep DEF Sets!Next
<1>3. ASSUME NEW p \in Proc, LeaveLoop(p)
      PROVE  QueueInv' /\ UNCHANGED <<[q \in Queue |-> Chain(first[q])], ready>>
  BY <1>3, QueuesLeft DEF LeaveLoop, QueueInv, QueueTypeOK, InLoop
<1>4. ASSUME NEW p \in Proc, ExecveWakesParent(p)
      PROVE  QueueInv' /\ Sets!Disturb(p)
  BY <1>4, QueuesLeft DEF ExecveWakesParent, Sets!Disturb, QueueInv, QueueTypeOK
<1>5. ASSUME NEW p \in Proc, NEW c \in Proc, VforkCopies(p, c)
      PROVE  QueueInv' /\ UNCHANGED <<[q \in Queue |-> Chain(first[q])], ready>>
  <2>1. wait_queue_next[p] = Null /\ wait_queue_next[c] = Null
    BY <1>5, WaitqueueAssumption DEF VforkCopies, QueueInv, InLoop, NoStaleLink
  <2>2. wait_queue_next' = wait_queue_next
    BY <1>5, <2>1 DEF VforkCopies, QueueInv, QueueTypeOK, Links
  <2> QED BY <1>5, <2>2, QueuesLeft DEF VforkCopies, QueueInv, QueueTypeOK
<1>6. CASE UNCHANGED vars
  BY <1>6, QueuesLeft DEF vars, QueueInv, QueueTypeOK
<1> QED BY <1>1, <1>2, <1>3, <1>4, <1>5, <1>6 DEF Next, Sets!Next

(* The one link in each PCB is enough: with any processes and queues, a    *)
(* queue is the set of those who were added since its last wake-up, nobody *)
(* is in two of them, and a wake-up reaches all of a queue and nobody      *)
(* else, although execve makes queued processes READY, so that they are    *)
(* added again, and no link is cleared but by a wake-up.                   *)
THEOREM QueuesAreSets == Spec => WaitSetSpec
<1>1. QueueInv /\ [Next]_vars => QueueInv' /\ [Sets!Next]_<<[q \in Queue |-> Chain(first[q])], ready>>
  BY QueueStep
<1> QED BY QueueInitInv, <1>1, PTL DEF Spec, WaitSetSpec, Sets!Spec
=============================================================================
