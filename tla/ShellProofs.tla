---------------------------- MODULE ShellProofs ----------------------------
(***************************************************************************)
(* Proofs about shells and the programs they start, for any number of      *)
(* processes and of shells among them: what ForegroundFirst says of the    *)
(* prompt, and StackExclusive of the stack that vfork shares.              *)
(***************************************************************************)
EXTENDS Shell, ProcessesProofs

ShellTypeOK ==
    /\ at \in [Pcb -> {"line", "vfork", "exec", "wait", "reap", "exit", "program"}]
    /\ background \in [Pcb -> BOOLEAN] /\ done \in [Pcb -> BOOLEAN] /\ tangled \in BOOLEAN
    /\ job \in [Pcb -> Pcb \cup {NoPcb}]
    /\ started \subseteq [shell : Nat, child : Nat, background : BOOLEAN]

(* Between vfork and execve the parent sleeps inside vfork, and nobody but *)
(* this child is going to wake it.  Who has no stack of its own is there,  *)
(* unless an execve has failed.                                            *)
Sharing ==
    /\ \A c \in Live : at[c] = "exec" =>
          parent[c] \in Live /\ pc[parent[c]] = "vfork" /\ status[parent[c]] = SLEEPING
    /\ \A c, d \in Live : (at[c] = "exec" /\ at[d] = "exec" /\ parent[c] = parent[d]) => c = d
    /\ \A c \in Live : ~ own_image[c] => at[c] = "exec" \/ tangled

(* The pids of started are behind avail_pid, and no pid was given twice. *)
Logged ==
    /\ \A s \in started : s.shell < avail_pid /\ s.child < avail_pid
    /\ \A s, t \in started : s.child = t.child => s = t

(* The process p waits for is its child, and the one it started. *)
IsJob(p, c) ==
    /\ c \in Live /\ parent[c] = p
    /\ \E s \in started : s.shell = pid[p] /\ s.child = pid[c] /\ ~ s.background

(* A waiting shell: its job is still there, nobody else can reap it, and   *)
(* the loop inside waitpid looks at it, or at some child for a pid of -1.  *)
JobsKept ==
    \A p \in Live :
        /\ at[p] = "wait" => job[p] \in Pcb /\ (job[p] # AnyChild => IsJob(p, job[p]))
        /\ pc[p] = "waitpid" =>
              /\ at[p] = "wait" /\ target[p] \in Live /\ parent[target[p]] = p
              /\ job[p] # AnyChild => target[p] = job[p]

(* What was started in the foreground and has not exited is waited for. *)
Attended ==
    \A p, c \in Live, s \in started :
        (s.shell = pid[p] /\ s.child = pid[c] /\ ~ s.background /\ status[c] # EXITED)
            => at[p] = "wait" /\ job[p] = c /\ c # Idle

(* Nobody is waited for by two, so that no PCB is destroyed twice. *)
Undisputed == ~ contended /\ ~ double_free

ShellInv ==
    ProcInv /\ ShellTypeOK /\ Sharing /\ Logged /\ JobsKept /\ Attended /\ Undisputed

----------------------------------------------------------------------------
(* A pid on the process list belongs to one process. *)
LEMMA PidsUnique ==
    ASSUME ProcInv
    PROVE  /\ \A p, q \in Live : pid[p] = pid[q] => p = q
           /\ \A p \in Live : pid[p] \in Nat /\ pid[p] < avail_pid
<1>1. procs \in Seq(Pcb) /\ DOMAIN procs = 1 .. Len(procs) /\ Len(procs) \in Nat
  BY CurrentFacts
<1>2. \A p \in Live : \E i \in DOMAIN procs : procs[i] = p
  BY <1>1 DEF Live, ToSet
<1>3. \A i, j \in DOMAIN procs : pid[procs[i]] = pid[procs[j]] => i = j
  <2> SUFFICES ASSUME NEW i \in DOMAIN procs, NEW j \in DOMAIN procs,
                      pid[procs[i]] = pid[procs[j]], i # j
               PROVE  FALSE
    OBVIOUS
  <2>1. procs[i] \in Pcb /\ procs[j] \in Pcb
    BY <1>1
  <2>2. pid[procs[i]] \in Nat /\ pid[procs[j]] \in Nat
    BY <2>1 DEF ProcInv, ListByPid, ProcTypeOK
  <2>3. i < j \/ j < i
    BY <1>1
  <2> QED BY <2>2, <2>3 DEF ProcInv, ListByPid
<1>4. \A p \in Live : pid[p] \in Nat /\ pid[p] < avail_pid
  BY <1>2, CurrentFacts DEF ProcInv, ListByPid, ProcTypeOK
<1> QED BY <1>2, <1>3, <1>4

(* A step of process p that creates and destroys nobody. *)
LEMMA Kept ==
    ASSUME ShellInv, ProcInv', ShellTypeOK', Undisputed', NEW p \in Live,
           Live' = Live, UNCHANGED <<pid, parent, avail_pid, started>>,
           \A q \in Live \ {p} : /\ at'[q] = at[q] /\ job'[q] = job[q]
                                /\ pc'[q] = pc[q] /\ target'[q] = target[q],
           \A q \in Live : status[q] = EXITED => status'[q] = EXITED,
           \A q \in Live : (pc[q] = "vfork" /\ status[q] = SLEEPING)
                              => \/ pc'[q] = "vfork" /\ status'[q] = SLEEPING
                                 \/ q = parent[p] /\ at[p] = "exec",
           at'[p] # "exec",
           \A q \in Live : ~ own_image'[q] => ~ own_image[q],
           at[p] = "exec" => own_image'[p] \/ tangled',
           tangled => tangled',
           at[p] = "wait" => job[p] = AnyChild \/ (at'[p] = "wait" /\ job'[p] = job[p]),
           at'[p] = "wait" => (at[p] = "wait" /\ job'[p] = job[p]) \/ job'[p] = AnyChild,
           pc'[p] = "waitpid" =>
               /\ at'[p] = "wait" /\ target'[p] \in Live /\ parent[target'[p]] = p
               /\ job'[p] # AnyChild => target'[p] = job'[p]
    PROVE  ShellInv'
<1> USE DEF ShellInv
<1>1. Sharing'
  <2>1. ASSUME NEW c \in Live, at'[c] = "exec"
        PROVE  at[c] = "exec" /\ parent[c] \in Live /\ pc'[parent[c]] = "vfork"
               /\ status'[parent[c]] = SLEEPING
    <3>1. c # p /\ at[c] = "exec"
      BY <2>1
    <3>2. parent[c] \in Live /\ pc[parent[c]] = "vfork" /\ status[parent[c]] = SLEEPING
      BY <3>1 DEF Sharing
    <3>3. ~ (parent[c] = parent[p] /\ at[p] = "exec")
      BY <3>1 DEF Sharing
    <3> QED BY <3>1, <3>2, <3>3
  <2>2. ASSUME NEW c \in Live, ~ own_image'[c] PROVE at'[c] = "exec" \/ tangled'
    BY <2>2 DEF Sharing
  <2>3. \A c, d \in Live : (at'[c] = "exec" /\ at'[d] = "exec" /\ parent[c] = parent[d]) => c = d
    BY <2>1 DEF Sharing
  <2> QED BY <2>1, <2>2, <2>3 DEF Sharing
<1>2. Logged'
  BY DEF Logged
<1>3. JobsKept'
  BY SchedAssumption DEF JobsKept, IsJob, AnyChild
<1>4. Attended'
  BY DEF Attended, AnyChild
<1> QED BY <1>1, <1>2, <1>3, <1>4

(* Process p reaps its child t. *)
LEMMA Removed ==
    ASSUME ShellInv, ProcInv', ShellTypeOK', Undisputed', NEW p \in Live, NEW t \in Live \ {p},
           Live' = Live \ {t}, UNCHANGED <<pid, parent, own_image, avail_pid, started, tangled>>,
           status[t] = EXITED, parent[t] = p,
           \A q \in Live \ {p} : /\ at'[q] = at[q] /\ job'[q] = job[q]
                                /\ pc'[q] = pc[q] /\ target'[q] = target[q],
           \A q \in Live \ {t} : status'[q] = status[q],
           pc[p] # "vfork", at[p] # "exec",
           pc'[p] # "waitpid", at'[p] \notin {"exec", "wait"},
           at[p] = "wait" => job[p] \in {AnyChild, t}
    PROVE  ShellInv'
<1> USE DEF ShellInv
<1>1. Sharing'
  <2>1. ASSUME NEW c \in Live', at'[c] = "exec"
        PROVE  at[c] = "exec" /\ parent[c] \in Live' /\ pc'[parent[c]] = "vfork"
               /\ status'[parent[c]] = SLEEPING
    <3>1. c \in Live /\ at[c] = "exec"
      BY <2>1
    <3>2. parent[c] \in Live /\ pc[parent[c]] = "vfork" /\ status[parent[c]] = SLEEPING
      BY <3>1 DEF Sharing
    <3> QED BY <3>1, <3>2 DEF SLEEPING, EXITED
  <2>2. ASSUME NEW c \in Live', ~ own_image[c] PROVE at'[c] = "exec" \/ tangled'
    BY <2>2 DEF Sharing
  <2>3. \A c, d \in Live' : (at'[c] = "exec" /\ at'[d] = "exec" /\ parent[c] = parent[d]) => c = d
    BY <2>1 DEF Sharing
  <2> QED BY <2>1, <2>2, <2>3 DEF Sharing
<1>2. Logged'
  BY DEF Logged
<1>3. JobsKept'
  BY DEF JobsKept, IsJob, AnyChild
<1>4. Attended'
  BY DEF Attended, AnyChild
<1> QED BY <1>1, <1>2, <1>3, <1>4

----------------------------------------------------------------------------
(* Who is in the shell's code is the current process, on the list. *)
LEMMA AtFacts ==
    ASSUME ShellInv, NEW p \in Pcb, NEW point, At(p, point)
    PROVE  current = p /\ p \in Live /\ p # Idle /\ pc[p] = "user" /\ at[p] = point /\ ~ tangled
           /\ status[p] = READY
BY CurrentFacts DEF At, Calling, UserMode, ShellInv

(* A line of input, or vfork without memory: the shell's own state. *)
LEMMA LineStep ==
    ASSUME ShellInv, NEW p \in Pcb, Line(p) \/ ForkFails(p)
    PROVE  ShellInv'
<1>1. /\ p \in Live /\ pc[p] = "user" /\ at[p] \in {"line", "vfork"}
      /\ UNCHANGED <<allProcVars, tangled, started>>
  BY AtFacts DEF Line, ForkFails
<1>2. ProcInv' /\ Live' = Live
  BY <1>1, ProcInvInductive DEF ShellInv, allProcVars, schedVars, Live
<1>3. UNCHANGED <<pid, parent, own_image, target, avail_pid, status, pc>> /\ Undisputed'
  BY <1>1 DEF allProcVars, schedVars, procVars, ShellInv, Undisputed
<1>4. /\ ShellTypeOK' /\ at'[p] \in {"reap", "vfork", "wait"}
      /\ at'[p] = "wait" => job'[p] = AnyChild
      /\ \A q \in Pcb \ {p} : at'[q] = at[q] /\ job'[q] = job[q]
  <2>1. CASE Line(p)
    <3>1. done' \in [Pcb -> BOOLEAN] /\ background' \in [Pcb -> BOOLEAN]
      BY <2>1 DEF Line, ShellInv, ShellTypeOK
    <3> QED BY <1>1, <2>1, <3>1 DEF Line, ShellInv, ShellTypeOK
  <2>2. CASE ForkFails(p)
    <3>1. done' \in [Pcb -> BOOLEAN] /\ background' \in [Pcb -> BOOLEAN]
      BY <2>2 DEF ForkFails, ShellInv, ShellTypeOK
    <3> QED BY <1>1, <2>2, <3>1, SchedAssumption
            DEF ForkFails, AfterVfork, AnyChild, ShellInv, ShellTypeOK
  <2> QED BY <2>1, <2>2
<1>5. Live \subseteq Pcb
  BY CurrentFacts DEF ShellInv
<1> QED BY <1>1, <1>2, <1>3, <1>4, <1>5, Kept

(* execve of a child: its parent, asleep in vfork, is woken. *)
LEMMA ExecStep ==
    ASSUME ShellInv, NEW c \in Pcb, Exec(c)
    PROVE  ShellInv'
<1>1. c \in Live /\ pc[c] = "user" /\ at[c] = "exec" /\ Execve(c) /\ ~ tangled
  BY AtFacts DEF Exec
<1>2. /\ ProcInv'
      /\ \A q \in Live : status'[q] = IF q = parent[c] THEN READY ELSE status[q]
  BY <1>1, ExecveStep DEF ShellInv, Undisputed
<1>3. /\ UNCHANGED <<procs, pc, pid, parent, target, avail_pid>> /\ Live' = Live
      /\ UNCHANGED <<job, started>> /\ Undisputed'
      /\ \A q \in Pcb : ~ own_image'[q] => ~ own_image[q]
  <2>1. PICK loaded \in BOOLEAN : own_image' = [own_image EXCEPT ![c] = @ \/ loaded]
    BY <1>1 DEF Execve
  <2>2. \A q \in Pcb : ~ own_image'[q] => ~ own_image[q]
    BY <2>1 DEF ShellInv, ProcInv, ListByPid, ProcTypeOK
  <2> QED BY <1>1, <2>2 DEF Exec, Execve, Live, ShellInv, Undisputed
<1>4. parent[c] \in Live /\ status[parent[c]] = SLEEPING /\ Live \subseteq Pcb
  BY <1>1, CurrentFacts DEF ShellInv, Sharing
<1>6. \A q \in Live : status[q] = EXITED => status'[q] = EXITED
  BY <1>2, <1>4 DEF SLEEPING, EXITED
<1>7. /\ ShellTypeOK' /\ at'[c] \in {"line", "program", "reap"}
      /\ \A q \in Pcb \ {c} : at'[q] = at[q]
      /\ own_image'[c] \/ tangled'
  <2>1. done' \in [Pcb -> BOOLEAN] /\ background' \in [Pcb -> BOOLEAN] /\ tangled' \in BOOLEAN
    BY DEF Exec, ShellInv, ShellTypeOK
  <2>2. /\ at' \in [Pcb -> {"line", "vfork", "exec", "wait", "reap", "exit", "program"}]
        /\ at'[c] \in {"line", "program", "reap"}
        /\ \A q \in Pcb \ {c} : at'[q] = at[q]
    BY DEF Exec, ShellInv, ShellTypeOK
  <2>3. own_image'[c] \/ tangled'
    BY DEF Exec
  <2> QED BY <1>3, <2>1, <2>2, <2>3 DEF ShellInv, ShellTypeOK
<1>8. pc[c] # "waitpid" /\ at[c] # "wait" /\ at'[c] # "wait" /\ at'[c] # "exec"
  BY <1>1, <1>7
<1> QED BY <1>1, <1>2, <1>3, <1>4, <1>6, <1>7, <1>8, Kept

(* Another program takes memory for itself. *)
LEMMA TakeMemoryStep ==
    ASSUME ShellInv, NEW p \in Pcb, TakeMemory(p)
    PROVE  ShellInv'
<1>1. p \in Live /\ pc[p] = "user" /\ at[p] = "program" /\ Malloc(p) /\ Live \subseteq Pcb
  BY AtFacts, CurrentFacts DEF TakeMemory, ShellInv
<1>2. /\ ProcInv'
      /\ \A q \in Live : status'[q] = status[q]
  BY <1>1, MallocStep DEF ShellInv, Undisputed
<1>3. /\ UNCHANGED <<procs, pc, pid, parent, own_image, target, avail_pid>> /\ Live' = Live
      /\ Undisputed'
  BY <1>1 DEF Malloc, procVars, Live, ShellInv, Undisputed
<1>4. UNCHANGED <<at, background, done, job, tangled, started>> /\ ShellTypeOK'
  BY DEF TakeMemory, shellVars, ShellInv, ShellTypeOK
<1> QED BY <1>1, <1>2, <1>3, <1>4, Kept

(* main returns, or a program is finished. *)
LEMMA LeaveStep ==
    ASSUME ShellInv, NEW p \in Pcb, Leave(p)
    PROVE  ShellInv'
<1>1. p \in Live /\ pc[p] = "user" /\ at[p] \in {"exit", "program"} /\ Exit(p)
      /\ status[p] = READY
  BY AtFacts DEF Leave
<1>2. ProcInv'
  BY <1>1, ExitStep DEF ShellInv, Undisputed
<1>3. /\ UNCHANGED <<procs, pid, parent, own_image, target, avail_pid>> /\ Live' = Live
      /\ Undisputed'
      /\ pc' = [pc EXCEPT ![p] = "exit"] /\ status' = ExitedAndWoken(p)
      /\ UNCHANGED <<job, started, tangled, background>>
      /\ at' = [at EXCEPT ![p] = "program"] /\ done' = [done EXCEPT ![p] = FALSE]
  BY <1>1 DEF Exit, Leave, Live, ShellInv, Undisputed
<1>4. \A q \in Pcb : status'[q] = CASE q \in waitpid_queue -> READY
                                     [] q = p /\ q \notin waitpid_queue -> EXITED
                                     [] OTHER -> status[q]
  BY <1>3 DEF ExitedAndWoken
<1>5. \A q \in waitpid_queue : pc[q] = "waitpid" /\ status[q] # EXITED
  BY DEF ShellInv, Undisputed, ProcInv, WaitersQueued, ZombiesWait, ListByPid, ProcTypeOK
<1>6. Live \subseteq Pcb /\ \A q \in Pcb : pc'[q] = IF q = p THEN "exit" ELSE pc[q]
  BY <1>3, CurrentFacts DEF ShellInv, ProcInv, ListByPid, ProcTypeOK, SchedTypeOK
<1>7. \A q \in Live : /\ status[q] = EXITED => status'[q] = EXITED
                      /\ (pc[q] = "vfork" /\ status[q] = SLEEPING)
                            => (pc'[q] = "vfork" /\ status'[q] = SLEEPING)
  BY <1>1, <1>4, <1>5, <1>6
<1>8. /\ ShellTypeOK' /\ at'[p] = "program" /\ \A q \in Pcb \ {p} : at'[q] = at[q]
  <2>1. done' \in [Pcb -> BOOLEAN]
    BY <1>3 DEF ShellInv, ShellTypeOK
  <2> QED BY <1>3, <2>1 DEF ShellInv, ShellTypeOK
<1>9. pc'[p] # "waitpid" /\ at[p] \notin {"wait", "exec"} /\ at'[p] \notin {"wait", "exec"}
      /\ \A q \in Live \ {p} : pc'[q] = pc[q]
  BY <1>1, <1>6, <1>8
<1> QED BY <1>1, <1>2, <1>3, <1>6, <1>7, <1>8, <1>9, Kept

(* process_lookup_child *)
LEMMA EldestIsChild ==
    ASSUME ShellInv, NEW p \in Pcb, ChildrenOf(p) # {}
    PROVE  EldestChild(p) \in Live /\ parent[EldestChild(p)] = p
<1>1. procs \in Seq(Pcb) /\ DOMAIN procs = 1 .. Len(procs)
  BY CurrentFacts DEF ShellInv
<1>2. ChildrenOf(p) \subseteq Nat /\ ChildrenOf(p) \subseteq DOMAIN procs
  BY <1>1 DEF ChildrenOf
<1>3. Min(ChildrenOf(p)) \in ChildrenOf(p)
  BY <1>2, MinOfNats
<1>4. parent[EldestChild(p)] = p /\ Min(ChildrenOf(p)) \in DOMAIN procs
  BY <1>3 DEF ChildrenOf, EldestChild
<1> QED BY <1>1, <1>4 DEF EldestChild, Live, ToSet

(* Nobody else waits for a child of p. *)
LEMMA OwnChild ==
    ASSUME ShellInv, NEW p \in Live, NEW t \in Live, parent[t] = p
    PROVE  ~ \E q \in Live \ {p} : pc[q] = "waitpid" /\ target[q] = t
BY DEF ShellInv, JobsKept

(* One turn of the loop of a shell's waitpid on its child t. *)
LEMMA ShellWaitLoop ==
    ASSUME ShellInv, NEW p \in Live, current = p, p # Idle, pc[p] \in {"user", "waitpid"},
           at[p] = "wait", NEW t \in Live, parent[t] = p, job[p] # AnyChild => t = job[p],
           pc[p] = "waitpid" => t = target[p],
           WaitLoop(p, t), UNCHANGED <<pid, parent, own_image, avail_pid>>, InWait(p)
    PROVE  ShellInv'
<1>1. Live \subseteq Pcb /\ p \in Pcb /\ t \in Pcb /\ t # NoPcb /\ status[p] = READY
  BY CurrentFacts, ProcessesAssumption DEF ShellInv
<1>2. ProcInv'
  BY <1>1, WaitLoopStep DEF ShellInv, Undisputed, Pointer
<1>3. /\ UNCHANGED <<done, background, tangled, started>>
      /\ at' = [at EXCEPT ![p] = IF pc'[p] = "user" THEN "reap" ELSE "wait"]
      /\ job' = [job EXCEPT ![p] = IF pc'[p] = "user" THEN NoPcb ELSE @]
  BY DEF InWait
<1>4. /\ ShellTypeOK'
      /\ \A q \in Pcb \ {p} : at'[q] = at[q] /\ job'[q] = job[q]
      /\ at'[p] = IF pc'[p] = "user" THEN "reap" ELSE "wait"
      /\ job'[p] = IF pc'[p] = "user" THEN NoPcb ELSE job[p]
  BY <1>1, <1>3 DEF ShellInv, ShellTypeOK
<1>5. CASE /\ MayReadExited(t)
           /\ process_destroy(t)
           /\ pc' = [pc EXCEPT ![p] = "user"]
           /\ target' = [target EXCEPT ![p] = NoPcb]
           /\ UNCHANGED <<current, scheduling_enabled, waitpid_queue>>
  <2>2. /\ pc' \in [Pcb -> Continuations] /\ target' \in [Pcb -> Pcb \cup {NoPcb}]
        /\ \A q \in Pcb \ {p} : pc'[q] = pc[q] /\ target'[q] = target[q]
        /\ pc'[p] = "user"
    BY <1>1, <1>5 DEF ShellInv, ProcInv, ListByPid, ProcTypeOK, SchedTypeOK, Continuations
  <2>3. /\ Live' = Live \ {t} /\ status[t] = EXITED
        /\ \A q \in Live \ {t} : status'[q] = status[q]
        /\ double_free' = FALSE
        /\ contended' = (contended \/ \E q \in Live \ {current} :
                                          pc[q] = "waitpid" /\ target[q] = t)
    BY <1>5, <2>2, DestroyStep DEF ShellInv, Undisputed
  <2>1. t # p
    BY <1>1, <2>3 DEF READY, EXITED
  <2>4. Undisputed'
    BY <2>3, OwnChild DEF ShellInv, Undisputed
  <2>5. pc[p] # "vfork" /\ at[p] # "exec" /\ pc'[p] # "waitpid" /\ at'[p] \notin {"exec", "wait"}
        /\ job[p] \in {AnyChild, t}
    BY <1>4, <2>2
  <2> QED BY <1>1, <1>2, <1>3, <1>4, <2>1, <2>2, <2>3, <2>4, <2>5, Removed
<1>6. CASE /\ StatusAt(t) # EXITED
           /\ target' = [target EXCEPT ![p] = t]
           /\ waitpid_queue' = waitpid_queue \cup {p}
           /\ Block(p, "waitpid")
           /\ UNCHANGED <<double_free, contended>>
  <2>1. /\ Live' = Live /\ pc'[p] = "waitpid" /\ target'[p] = t /\ Undisputed'
        /\ \A q \in Pcb \ {p} : pc'[q] = pc[q] /\ target'[q] = target[q] /\ status'[q] = status[q]
    BY <1>1, <1>6 DEF Block, Live, ShellInv, ProcInv, ListByPid, ProcTypeOK, SchedTypeOK, Undisputed
  <2>2. at'[p] = "wait" /\ job'[p] = job[p]
    BY <1>4, <2>1
  <2>3. \A q \in Live : /\ status[q] = EXITED => status'[q] = EXITED
                        /\ (pc[q] = "vfork" /\ status[q] = SLEEPING)
                              => (pc'[q] = "vfork" /\ status'[q] = SLEEPING)
    BY <1>1, <2>1 DEF READY, EXITED
  <2>4. at'[p] # "exec" /\ at[p] # "exec"
    BY <2>2
  <2> QED BY <1>1, <1>2, <1>3, <1>4, <2>1, <2>2, <2>3, <2>4, Kept
<1> QED BY <1>5, <1>6 DEF WaitLoop

(* waitpid of a shell, for its job or for any child. *)
LEMMA WaitStep ==
    ASSUME ShellInv, NEW p \in Pcb, Wait(p)
    PROVE  ShellInv'
<1>1. current = p /\ p \in Live /\ p # Idle /\ pc[p] = "user" /\ at[p] = "wait"
  BY AtFacts DEF Wait
<1>2. CASE job[p] = AnyChild /\ ChildrenOf(p) = {}
  <2>1. UNCHANGED allProcVars /\ InWait(p)
    BY <1>2 DEF Wait
  <2>2. ProcInv'
    BY <2>1, ProcInvInductive DEF ShellInv
  <2>3. UNCHANGED <<procs, pid, parent, own_image, target, avail_pid, status, pc>> /\ Live' = Live
        /\ UNCHANGED <<tangled, started>> /\ Undisputed'
    BY <2>1 DEF allProcVars, schedVars, procVars, Live, InWait, ShellInv, Undisputed
  <2>4. /\ ShellTypeOK' /\ at'[p] = "reap"
        /\ \A q \in Pcb \ {p} : at'[q] = at[q] /\ job'[q] = job[q]
    BY <1>1, <2>1, <2>3 DEF InWait, ShellInv, ShellTypeOK
  <2>5. Live \subseteq Pcb
    BY CurrentFacts DEF ShellInv
  <2> QED BY <1>1, <1>2, <2>2, <2>3, <2>4, <2>5, Kept
<1>3. CASE ~ (job[p] = AnyChild /\ ChildrenOf(p) = {})
  <2>1. WaitLoop(p, JobOf(p)) /\ UNCHANGED <<pid, parent, own_image, avail_pid>> /\ InWait(p)
    BY <1>3 DEF Wait
  <2>2. JobOf(p) \in Live /\ parent[JobOf(p)] = p /\ (job[p] # AnyChild => JobOf(p) = job[p])
    BY <1>1, <1>3, EldestIsChild DEF JobOf, ShellInv, JobsKept, IsJob
  <2> QED BY <1>1, <2>1, <2>2, ShellWaitLoop
<1> QED BY <1>2, <1>3

(* The loop of waitpid goes on. *)
LEMMA WaitResumesStep ==
    ASSUME ShellInv, NEW p \in Pcb, WaitResumes(p)
    PROVE  ShellInv'
<1>1. /\ current = p /\ pc[p] = "waitpid" /\ WaitLoop(p, target[p])
      /\ UNCHANGED <<pid, parent, own_image, avail_pid>> /\ InWait(p)
  BY DEF WaitResumes, WaitpidResume
<1>2. p \in Live /\ p # Idle
  BY <1>1, CurrentFacts DEF ShellInv, ProcInv, IdleRuns
<1>3. /\ at[p] = "wait" /\ target[p] \in Live /\ parent[target[p]] = p
      /\ job[p] # AnyChild => target[p] = job[p]
  BY <1>1, <1>2 DEF ShellInv, JobsKept
<1> QED BY <1>1, <1>2, <1>3, ShellWaitLoop

(* waitpid(-1, &status, WNOHANG) *)
LEMMA ReapStep ==
    ASSUME ShellInv, NEW p \in Pcb, Reap(p)
    PROVE  ShellInv'
<1>1. current = p /\ p \in Live /\ p # Idle /\ pc[p] = "user" /\ at[p] = "reap" /\ status[p] = READY
      /\ Live \subseteq Pcb
  BY AtFacts, CurrentFacts DEF Reap, ShellInv
<1>2. UNCHANGED <<background, done, job, tangled, started>> /\ at' = [at EXCEPT ![p] = AfterReap(p)]
  BY DEF Reap
<1>3. /\ ShellTypeOK' /\ at'[p] \in {"exit", "line"} /\ \A q \in Pcb \ {p} : at'[q] = at[q]
  BY <1>1, <1>2 DEF AfterReap, ShellInv, ShellTypeOK
<1>4. CASE ChildrenOf(p) # {} /\ StatusAt(EldestChild(p)) = EXITED
  <2> DEFINE t == EldestChild(p)
  <2>1. /\ process_destroy(t)
        /\ UNCHANGED <<pc, current, scheduling_enabled, pid, parent, own_image, target,
                       waitpid_queue, avail_pid>>
    BY <1>4 DEF Reap
  <2>2. t \in Live /\ parent[t] = p /\ StatusAt(t) = EXITED
    BY <1>4, EldestIsChild
  <2> HIDE DEF t
  <2>3. t \in Pcb /\ status[t] = EXITED /\ t # p
    BY <1>1, <2>2, ProcessesAssumption DEF StatusAt, READY, EXITED
  <2>4. ProcInv'
    <3>1. WaitpidNoHang(p)
      BY <1>1, <2>1, <2>2 DEF WaitpidNoHang, MayReadExited, Waitable, Calling, UserMode
    <3> QED BY <3>1, NoHangStep DEF ShellInv, Undisputed
  <2>5. /\ Live' = Live \ {t}
        /\ \A q \in Live \ {t} : status'[q] = status[q]
        /\ double_free' = FALSE
        /\ contended' = (contended \/ \E q \in Live \ {current} :
                                          pc[q] = "waitpid" /\ target[q] = t)
    <3>1. pc' \in [Pcb -> Continuations] /\ target' \in [Pcb -> Pcb \cup {NoPcb}]
      BY <2>1 DEF ShellInv, ProcInv, ListByPid, ProcTypeOK, SchedTypeOK
    <3>2. MayReadExited(t)
      BY <2>2 DEF MayReadExited
    <3> QED BY <2>1, <2>2, <3>1, <3>2, DestroyStep DEF ShellInv, Undisputed
  <2>6. Undisputed'
    BY <1>1, <2>2, <2>5, OwnChild DEF ShellInv, Undisputed
  <2>7. pc'[p] # "waitpid" /\ pc[p] # "vfork" /\ at[p] \notin {"exec", "wait"}
        /\ at'[p] \notin {"exec", "wait"}
    BY <1>1, <1>3, <2>1
  <2> QED BY <1>1, <1>2, <1>3, <2>1, <2>2, <2>3, <2>4, <2>5, <2>6, <2>7, Removed
<1>5. CASE ~ (ChildrenOf(p) # {} /\ StatusAt(EldestChild(p)) = EXITED)
  <2>1. UNCHANGED allProcVars
    BY <1>5 DEF Reap
  <2>2. ProcInv'
    BY <2>1, ProcInvInductive DEF ShellInv
  <2>3. UNCHANGED <<procs, pid, parent, own_image, target, avail_pid, status, pc>> /\ Live' = Live
        /\ Undisputed'
    BY <2>1 DEF allProcVars, schedVars, procVars, Live, ShellInv, Undisputed
  <2> QED BY <1>1, <1>2, <1>3, <2>2, <2>3, Kept
<1> QED BY <1>4, <1>5

(* Back in user mode, or an interrupt. *)
LEMMA ReturnOrTick ==
    ASSUME ShellInv, (\E p \in Pcb : Return(p)) \/ Tick
    PROVE  ShellInv'
<1>0. Live \subseteq Pcb /\ current \in Live
  BY CurrentFacts DEF ShellInv
<1>1. UNCHANGED <<at, background, done, job, tangled, started>> /\ ShellTypeOK'
  BY DEF Return, Tick, shellVars, ShellInv, ShellTypeOK
<1>2. CASE Tick
  <2>1. ProcInv'
    BY <1>2, ProcInvInductive DEF Tick, ProcNext, ShellInv
  <2>2. UNCHANGED <<procs, status, pc, pid, parent, own_image, target, avail_pid>> /\ Live' = Live
        /\ Undisputed'
    BY <1>2 DEF Tick, Interrupt, InterruptReturn, procVars, Live, ShellInv, Undisputed
  <2> QED BY <1>1, <2>1, <2>2
          DEF ShellInv, Sharing, Logged, JobsKept, IsJob, Attended
<1>3. ASSUME NEW p \in Pcb, Return(p) PROVE ShellInv'
  <2>1. /\ current = p /\ pc[p] \in {"vfork", "exit"} /\ pc' = [pc EXCEPT ![p] = "user"]
        /\ UNCHANGED <<procs, status, current, scheduling_enabled>> /\ UNCHANGED procVars
    BY <1>3 DEF Return, ReturnToUser
  <2>2. ProcInv'
    BY <2>1, ReturnStep DEF ShellInv, Undisputed
  <2>3. /\ UNCHANGED <<pid, parent, own_image, target, avail_pid>> /\ Live' = Live /\ Undisputed'
        /\ \A q \in Pcb : pc'[q] = IF q = p THEN "user" ELSE pc[q]
    BY <2>1 DEF procVars, Live, ShellInv, Undisputed, ProcInv, ListByPid, ProcTypeOK, SchedTypeOK
  <2>4. status[p] = READY
    BY <2>1 DEF ShellInv, ProcInv, CurrentRuns
  <2>5. Sharing'
    BY <1>0, <1>1, <2>1, <2>3, <2>4 DEF ShellInv, Sharing, READY, SLEEPING
  <2>6. JobsKept' /\ Logged' /\ Attended'
    BY <1>0, <1>1, <2>1, <2>3 DEF ShellInv, JobsKept, IsJob, Logged, Attended
  <2> QED BY <1>1, <2>2, <2>3, <2>5, <2>6 DEF ShellInv
<1> QED BY <1>2, <1>3

(* vfork: the child is where the parent is, and the parent sleeps. *)
LEMMA ForkStep ==
    ASSUME ShellInv, NEW p \in Pcb, Fork(p)
    PROVE  ShellInv'
<1>1. current = p /\ p \in Live /\ p # Idle /\ pc[p] = "user" /\ at[p] = "vfork" /\ ~ tangled
      /\ Vfork(p)
  BY AtFacts DEF Fork
<1>2. ProcInv'
  BY <1>1, VforkStep DEF ShellInv, Undisputed
<1>3. PICK c \in Pcb \ Live :
        /\ procs' = process_insert(c)
        /\ status'[p] = SLEEPING /\ status'[c] = READY
        /\ \A q \in Live \ {p} : status'[q] = status[q]
        /\ pc' = [pc EXCEPT ![p] = "vfork", ![c] = "user"]
        /\ pid' = [pid EXCEPT ![c] = avail_pid]
        /\ parent' = [parent EXCEPT ![c] = p]
        /\ own_image' = [own_image EXCEPT ![c] = FALSE]
  BY <1>1, VforkStep DEF ShellInv, Undisputed
<1>4. avail_pid' = avail_pid + 1 /\ UNCHANGED <<target, tangled>> /\ Undisputed'
  BY <1>1 DEF Vfork, NextPid, Fork, ShellInv, Undisputed
<1>5. Live' = Live \cup {c}
  BY <1>2, <1>3, <1>4, Appended DEF ShellInv, ProcInv, ListByPid, NextPid
<1>6. Last(procs') = c
  BY <1>3, CurrentFacts DEF ShellInv, process_insert, Last
<1>7. /\ Live \subseteq Pcb /\ c # p /\ c # Idle /\ c \notin Live /\ c \in Pcb
      /\ \A q \in Live : pid[q] < avail_pid
  BY <1>1, PidsUnique, CurrentFacts DEF ShellInv
<1>8. /\ \A q \in Live : pid'[q] = pid[q] /\ parent'[q] = parent[q] /\ own_image'[q] = own_image[q]
      /\ \A q \in Live \ {p} : pc'[q] = pc[q] /\ status'[q] = status[q]
      /\ status'[p] = SLEEPING /\ pc'[p] = "vfork" /\ pc'[c] = "user" /\ status'[c] = READY
      /\ pid'[c] = avail_pid /\ parent'[c] = p
  BY <1>1, <1>3, <1>7 DEF ShellInv, ProcInv, ListByPid, ProcTypeOK, SchedTypeOK
<1> DEFINE new == [shell |-> pid[p], child |-> avail_pid, background |-> background[p]]
<1>9. /\ at' = [at EXCEPT ![p] = AfterVfork(p), ![c] = "exec"]
      /\ job' = [job EXCEPT ![p] = IF background[p] THEN NoPcb ELSE c]
      /\ done' = [done EXCEPT ![c] = done[p]]
      /\ background' = [background EXCEPT ![p] = FALSE, ![c] = FALSE]
      /\ started' = started \cup {new}
  BY <1>6, <1>8 DEF Fork
<1>10. new \in [shell : Nat, child : Nat, background : BOOLEAN]
  <2>1. pid[p] \in Nat /\ avail_pid \in Nat
    BY DEF ShellInv, ProcInv, ListByPid, ProcTypeOK
  <2>2. background[p] \in BOOLEAN
    BY DEF ShellInv, ShellTypeOK
  <2> QED BY <2>1, <2>2
<1>11. /\ new.shell = pid[p] /\ new.child = avail_pid /\ new.background = background[p]
  OBVIOUS
<1> HIDE DEF new
<1>12. /\ \A q \in Live \ {p} : at'[q] = at[q] /\ job'[q] = job[q]
       /\ at'[c] = "exec" /\ at'[p] = AfterVfork(p)
       /\ job'[p] = IF background[p] THEN NoPcb ELSE c
  BY <1>1, <1>7, <1>9 DEF ShellInv, ShellTypeOK
<1>13. ShellTypeOK'
  <2>1. done' \in [Pcb -> BOOLEAN] /\ background' \in [Pcb -> BOOLEAN] /\ tangled' \in BOOLEAN
    BY <1>4, <1>7, <1>9 DEF ShellInv, ShellTypeOK
  <2>2. at' \in [Pcb -> {"line", "vfork", "exec", "wait", "reap", "exit", "program"}]
    BY <1>7, <1>9 DEF ShellInv, ShellTypeOK, AfterVfork
  <2>3. job' \in [Pcb -> Pcb \cup {NoPcb}]
    BY <1>7, <1>9 DEF ShellInv, ShellTypeOK
  <2> QED BY <1>9, <1>10, <2>1, <2>2, <2>3 DEF ShellInv, ShellTypeOK
<1>14. Sharing'
  <2>1. \A d \in Live : at'[d] = "exec" => at[d] = "exec" /\ d # p /\ parent[d] # p
    BY <1>1, <1>12 DEF ShellInv, Sharing, AfterVfork
  <2>2. \A d \in Live : at'[d] = "exec" =>
          parent'[d] \in Live' /\ pc'[parent'[d]] = "vfork" /\ status'[parent'[d]] = SLEEPING
    BY <1>5, <1>8, <2>1 DEF ShellInv, Sharing
  <2>3. \A d, e \in Live' : (at'[d] = "exec" /\ at'[e] = "exec" /\ parent'[d] = parent'[e]) => d = e
    BY <1>5, <1>8, <2>1 DEF ShellInv, Sharing
  <2>4. \A d \in Live' : ~ own_image'[d] => at'[d] = "exec" \/ tangled'
    BY <1>1, <1>4, <1>5, <1>8, <1>12 DEF ShellInv, Sharing
  <2>5. parent'[c] \in Live' /\ pc'[parent'[c]] = "vfork" /\ status'[parent'[c]] = SLEEPING
    BY <1>1, <1>5, <1>8
  <2> QED BY <1>5, <2>2, <2>3, <2>4, <2>5 DEF Sharing
<1>15. Logged'
  <2>1. avail_pid \in Nat /\ \A s \in started : s.shell \in Nat /\ s.child \in Nat
    BY DEF ShellInv, ShellTypeOK, ProcInv, ListByPid, ProcTypeOK
  <2>2. new.shell < avail_pid'
    BY <1>1, <1>4, <1>7, <1>11, <2>1, PidsUnique DEF ShellInv
  <2>3. \A s \in started : s.child # new.child
    BY <1>11, <2>1 DEF ShellInv, Logged
  <2>4. \A s \in started' : s.shell < avail_pid' /\ s.child < avail_pid'
    BY <1>4, <1>9, <1>11, <2>1, <2>2 DEF ShellInv, Logged
  <2> QED BY <1>9, <2>3, <2>4 DEF ShellInv, Logged
<1>16. JobsKept'
  <2>1. ASSUME NEW q \in Live \ {p}, NEW d, IsJob(q, d) PROVE IsJob(q, d)'
    BY <1>5, <1>8, <1>9, <2>1 DEF IsJob
  <2>2. ASSUME NEW q \in Live \ {p}, at[q] = "wait", job[q] # AnyChild PROVE IsJob(q, job[q])
    BY <2>2 DEF ShellInv, JobsKept
  <2>3. ASSUME NEW q \in Live \ {p}, pc[q] = "waitpid"
        PROVE  /\ at'[q] = "wait" /\ target'[q] \in Live' /\ parent'[target'[q]] = q
               /\ job'[q] # AnyChild => target'[q] = job'[q]
    BY <1>4, <1>5, <1>8, <1>12, <2>3 DEF ShellInv, JobsKept
  <2>4. ASSUME NEW q \in Live \ {p}, at[q] = "wait" PROVE job[q] \in Pcb
    BY <2>4 DEF ShellInv, JobsKept
  <2>5. at'[p] = "wait" => job'[p] = c /\ IsJob(p, c)'
    BY <1>1, <1>5, <1>8, <1>9, <1>11, <1>12 DEF AfterVfork, IsJob
  <2>6. ASSUME NEW q \in Live'
        PROVE  /\ at'[q] = "wait" => job'[q] \in Pcb /\ (job'[q] # AnyChild => \E d : d = job'[q] /\ IsJob(q, d)')
               /\ pc'[q] = "waitpid" =>
                    /\ at'[q] = "wait" /\ target'[q] \in Live' /\ parent'[target'[q]] = q
                    /\ job'[q] # AnyChild => target'[q] = job'[q]
    <3>1. CASE q = p
      BY <1>7, <1>8, <2>5, <3>1
    <3>2. CASE q = c
      BY <1>8, <1>12, <3>2
    <3>3. CASE q \in Live \ {p}
      BY <1>8, <1>12, <2>1, <2>2, <2>3, <2>4, <3>3
    <3> QED BY <1>5, <3>1, <3>2, <3>3
  <2> QED BY <2>6 DEF JobsKept, IsJob
<1>17. Attended'
  <2> SUFFICES ASSUME NEW q \in Live', NEW d \in Live', NEW s \in started',
                      s.shell = pid'[q], s.child = pid'[d], ~ s.background, status'[d] # EXITED
               PROVE  at'[q] = "wait" /\ job'[q] = d /\ d # Idle
    BY DEF Attended
  <2>0. avail_pid \in Nat /\ \A u \in Live : pid[u] \in Nat /\ pid[u] # avail_pid
    BY <1>7, PidsUnique DEF ShellInv, ProcInv, ListByPid, ProcTypeOK
  <2>1. CASE s = new
    <3>1. q = p
      BY <1>1, <1>5, <1>8, <1>11, <2>0, <2>1, PidsUnique DEF ShellInv
    <3>2. d = c
      BY <1>5, <1>8, <1>11, <2>0, <2>1
    <3> QED BY <1>7, <1>11, <1>12, <2>1, <3>1, <3>2 DEF AfterVfork
  <2>2. CASE s \in started
    <3>1. s.shell # avail_pid /\ s.child # avail_pid
      BY <2>0, <2>2 DEF ShellInv, Logged, ShellTypeOK
    <3>2. q \in Live /\ d \in Live
      BY <1>5, <1>8, <3>1
    <3>3. status[d] # EXITED
      BY <1>1, <1>8, <3>2, CurrentFacts DEF ShellInv, READY, EXITED
    <3>4. at[q] = "wait" /\ job[q] = d /\ d # Idle
      BY <1>8, <2>2, <3>2, <3>3 DEF ShellInv, Attended
    <3> QED BY <1>1, <1>12, <3>2, <3>4
  <2> QED BY <1>9, <2>1, <2>2
<1> QED BY <1>2, <1>4, <1>13, <1>14, <1>15, <1>16, <1>17 DEF ShellInv

----------------------------------------------------------------------------
LEMMA ShellInitInv == Init => ShellInv
<1> SUFFICES ASSUME Init PROVE ShellInv
  OBVIOUS
<1>1. ProcInv
  BY ProcInitInv DEF Init
<1>2. ShellTypeOK
  <2>1. background \in [Pcb -> BOOLEAN] /\ done \in [Pcb -> BOOLEAN] /\ tangled \in BOOLEAN
    BY DEF Init
  <2> QED BY <2>1 DEF Init, ShellTypeOK
<1>3. Live = {Idle, InitProc} /\ \A q \in Live : q \in Pcb
  BY SchedAssumption DEF Init, ProcInit, SchedInit, Live, ToSet
<1> QED BY <1>1, <1>2, <1>3
        DEF Init, ProcInit, SchedInit, ShellInv, Sharing, Logged, JobsKept, Attended, Undisputed

LEMMA ShellInvInductive == ShellInv /\ [Next]_vars => ShellInv'
<1> SUFFICES ASSUME ShellInv, [Next]_vars PROVE ShellInv'
  OBVIOUS
<1>1. ASSUME NEW p \in Pcb,
             ShellStep(p) \/ Line(p) \/ TakeMemory(p) \/ Leave(p) \/ WaitResumes(p) \/ Return(p)
      PROVE  ShellInv'
  BY <1>1, ForkStep, LineStep, ExecStep, WaitStep, ReapStep, TakeMemoryStep, LeaveStep,
     WaitResumesStep, ReturnOrTick DEF ShellStep
<1>2. CASE Tick
  BY <1>2, ReturnOrTick
<1>3. CASE UNCHANGED vars
  <2>1. ProcInv'
    BY <1>3, ProcInvInductive DEF ShellInv, vars
  <2> QED BY <1>3, <2>1 DEF vars, allProcVars, schedVars, procVars, shellVars, Live, ShellInv,
                           ShellTypeOK, Sharing, Logged, JobsKept, IsJob, Attended, Undisputed
<1> QED BY <1>1, <1>2, <1>3 DEF Next

(* A prompt means that what was started in the foreground has exited, and  *)
(* a waiting shell's job keeps its PCB, with any number of shells, one     *)
(* started from the other, and of programs in the background; nobody is    *)
(* reaped while another waits for it, and no PCB is destroyed twice.       *)
THEOREM PromptAfterForeground == Spec => []ForegroundFirst
<1>1. ShellInv => ForegroundFirst
  <2>0. ShellInv => ~ contended /\ ~ double_free
    BY DEF ShellInv, Undisputed
  <2> SUFFICES ASSUME ShellInv, NEW p \in Pcb
               PROVE  /\ (Prompting(p) /\ ~ tangled) =>
                            \A c \in Live : status[c] # EXITED =>
                                \A s \in StartedBy(p, pid[c]) : s.background
                      /\ (p \in Live /\ at[p] = "wait" /\ job[p] # AnyChild) =>
                            job[p] \in Live /\ \E s \in StartedBy(p, pid[job[p]]) : ~ s.background
    BY <2>0 DEF ForegroundFirst
  <2>1. ASSUME Prompting(p), NEW c \in Live, status[c] # EXITED, NEW s \in StartedBy(p, pid[c])
        PROVE  s.background
    BY <2>1 DEF ShellInv, Attended, Prompting, StartedBy
  <2>2. ASSUME p \in Live, at[p] = "wait", job[p] # AnyChild
        PROVE  job[p] \in Live /\ \E s \in StartedBy(p, pid[job[p]]) : ~ s.background
    BY <2>2 DEF ShellInv, JobsKept, IsJob, StartedBy
  <2> QED BY <2>1, <2>2
<1> QED BY <1>1, ShellInitInv, ShellInvInductive, PTL DEF Spec

(* A child that still runs on its parent's stack runs alone, as long as    *)
(* every execve has loaded its program.                                    *)
THEOREM StackNotShared == Spec => []StackExclusive
<1>1. ShellInv => StackExclusive
  BY DEF ShellInv, Sharing, StackExclusive, SharedStackExclusive, READY, SLEEPING
<1> QED BY <1>1, ShellInitInv, ShellInvInductive, PTL DEF Spec

(* The process list, the current process and every reaped PCB are sound in *)
(* whatever shells and their programs do: process_destroy is never called  *)
(* a second time on a PCB, for as long as the system runs.                 *)
THEOREM ShellProcessesSafe == Spec => [](ListByPid /\ CurrentRuns /\ ~ double_free)
<1>1. ShellInv => ListByPid /\ CurrentRuns /\ ~ double_free
  BY DEF ShellInv, ProcInv, Undisputed
<1> QED BY <1>1, ShellInitInv, ShellInvInductive, PTL DEF Spec
=============================================================================
