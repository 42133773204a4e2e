# vmwOS: a TLA+ verification project

vmwOS is a small operating system for the Raspberry Pi: a kernel with processes,
a console, a timer, a read-only file system and an I2C driver, and a few user
programs, among them a shell and a blackjack game. This directory holds TLA+
models of its parts, the TLC configurations that check them on small instances,
and TLAPS proofs. Paths below are relative to the repository.

## 1. The system

The machine has one CPU. The entries for system calls (`syscalls/swi_handler.s`)
and interrupts (`interrupts/irq_handler.s`) mask interrupts, and nothing in the
kernel unmasks them: a handler runs alone until it calls `schedule()`. What makes
the kernel hard is what happens across `schedule()`: a process that gave up the
CPU inside a system call goes on, much later, at the next statement, with
pointers and loop conditions it read before. User mode and the idle task can be
interrupted anywhere.

| Component | State | Operations | Interacts with |
|---|---|---|---|
| Memory allocator `kernel/memory/memory.c` | bitmap of chunks, `previous_block` | allocate, free | exec, processes, MALLOC |
| Scheduler `processes/scheduler.c` | `current_process`, `scheduling_enabled` | schedule | everything that blocks; ends every interrupt |
| Processes `processes/process.c`, `vfork.c`, `waitpid.c`, `exec.c`, `syscalls/exit.c` | list of PCBs, pid counter, parent pointers | create, destroy, vfork, execve, exit, waitpid | scheduler, wait queues, memory |
| Wait queues `processes/waitqueue.c` | one link in each PCB, one head per queue | add, wake | waitpid, console, timer |
| Console input `drivers/console/console_io.c`, `drivers/serial/pl011_uart.c` | ring buffer, head, tail, wait queue | insert from the interrupt, read | scheduler (^Z), wait queue |
| Timer `drivers/timer/sp804_timer.c`, `syscalls/nanosleep.c` | tick counter, one next wake-up time, LED counter | tick, sleep, blink | scheduler, wait queue, LED |
| Interrupt and system call dispatch `interrupts/interrupts.c`, `syscalls/syscalls.c` | none | dispatch | all of the above |
| Open files `fs/files.c` | one descriptor table for all, current directories | open, read, getdents, chdir | romfs, console |
| File system `fs/romfs/romfs.c`, `drivers/block/ramdisk.c` | none, the image is constant | lookup, links, stat, read, list | files, exec |
| I2C `drivers/i2c`, `userspace/wii_controller.c` | controller registers, FIFO, the device's register pointer | transfers of bytes, reads of registers | SYSCALL_I2C_* |
| GPIO, LED `drivers/gpio`, `drivers/led` | pins | set, clear | timer |
| Program loading `processes/exec.c` | text, stack and PCB of each process | allocate, copy argv, release | memory, romfs |
| Boot `kernel/boot`, `kernel_main.c` | what it leaves in the others | walk the device tree, initialise | all, once |
| `genromfs-0.5.2` | nodes with offsets, the image | lay out, write | romfs reads what it writes |
| C library `kernel/lib`, `userspace/vlibc` | none | strings, memset, printing, division, dates | all |
| Blackjack `userspace/blackjack.c` | shoe, hands, money | deal, hit, double, split, stand, settle | the player |
| Shell `userspace/shell.c` | command line, foreground job | read, vfork, execve, waitpid | processes |
| `ls`, `cat` | buffers | list, copy | files |

What is hard, and what correctness is there:

* **Memory**: a rotating first-fit search over a fragmented bitmap. No chunk may
  have two holders; a request may fail only when nothing fits; a release must give
  back exactly what was taken, whatever fails in the middle of loading a program.
* **Shell**: children come and go while it waits for one of them by its PCB, and until
  execve a child runs on its parent's stack.
* **I2C**: driver and controller poll each other without a timeout, and the FIFO keeps
  what earlier transfers left. Nobody may wait for ever, no stale byte be delivered.
* **genromfs**: two passes that must agree to the byte, over files that may change.
* **Processes**: any process may wait for any pid, several may wait for one, PCBs
  are freed and reused while pointers to them survive, and `execve` makes a parent
  READY wherever it sleeps. No exit may be missed, no PCB of a shell's child freed twice,
  and the CPU never given to a process that is not READY.
* **Wait queues**: one link per process for all queues, never cleared on insertion.
  A process must be on one queue at most, and only inside the loop of that queue.
* **Console and timer**: lost wake-ups between a handler and a process that is about
  to sleep; a full ring; one wake-up time shared by all sleepers.
* **Files**: one table for all processes, one `file_ptr` with two meanings, error
  codes used as offsets. Reads must be sequential and listings complete.
* **Blackjack**: long sequences of legal actions. Stakes, cards and money must stay
  consistent.

`PROJECT.json` lists every component, and every hazard at the line where it bites.

## 2. The modules

| Module | Models | Notes |
|---|---|---|
| `Heap` | what callers of the allocator rely on | abstract specification |
| `Memory` | `memory.c` | implements `Heap` |
| `Exec`, `ExecProofs` | the memory of processes: create, execve, destroy, MALLOC | over `Memory`; `...Proofs` are the proofs, section 5 |
| `Args` | argv, from the shell's line to the new stack | checked by `MCLib` |
| `Sched` | `scheduler.c`, and the state all kernel modules share | extended by the next three |
| `Processes`, `ProcessesProofs` | vfork, execve, exit, waitpid, create, destroy | |
| `Shell`, `ShellProofs` | the shell and the programs it starts | over `Processes` |
| `Console`, `InputStream` | UART FIFO, ring buffer, `console_read` | implements `InputStream` |
| `Timer`, `MCTimer` | tick, `nanosleep`, heartbeat LED | |
| `Kernel`, `MCKernel`, `KernelProofs` | processes, console and timer as one system | `interrupt_handler_c`, `swi_handler_c` |
| `WaitSet`, `Waitqueue`, `WaitqueueProofs` | the intrusive queues | `Waitqueue` implements `WaitSet` |
| `RomfsFormat`, `Romfs`, `Files`, `FilesProofs` | file system, descriptor table, paths | `RomfsFormat` is shared with `Genromfs` |
| `Programs`, `MCFiles` | `ls` and `cat` over `Files` | `MCFiles` has an image |
| `Genromfs`, `MCTrees` | the program that makes the image | its image is read back with `Romfs` |
| `DeviceTree`, `MCDeviceTrees` | the walk through the boot loader's tree | `MCDeviceTrees` flattens trees |
| `Lib`, `MCLib` | memset, strings, vsprintf, atoi, division, dates | `MCLib` runs all sequential algorithms |
| `I2c`, `I2cProofs` | driver, controller, device, and two client programs | |
| `Blackjack`, `BlackjackProofs` | the game | the build that reads the player's input |

How state and actions correspond to the code:

* **One action is one stretch of code between two points where the CPU may change
  hands.** A system call runs from user mode to its end or to its first `schedule()`;
  the rest is an action of its own, enabled when `current` is that process again.
  `pc[p]` says where process p continues: `"user"`, or inside the loop of `waitpid`,
  `console` or `timer`, or after the `schedule()` of `vfork` or `exit`. The choice of
  the next process is part of the action (`Schedule`).
* **PCBs are places.** `Pcb` is the set of addresses where a PCB may be; `procs` is the
  linked list. A pointer (`parent`, `target`) is a place, and may outlive the PCB. A
  freed PCB is `POISON`: `memory_free` overwrites the memory, and a waiter that still
  looks through its pointer sees that, until `memory_allocate` gives the chunks to someone
  else. That may be a new PCB at the same place, or a program's text, stack or MALLOC, or a
  PCB across two places: then the place is `TAKEN`, any word may be there at any time, and
  the test for EXITED may go either way (`MayReadExited`). Every allocation may take any of
  the free places (`Taken`), every release give any of them back (`GivenBack`). When
  `process_destroy` is called on a PCB that was freed before, it follows pointers out of
  foreign memory; `double_free` is set, and the model ends there.
* **Wait queues are sets** in `Processes`, `Console`, `Timer` and `Kernel`, because a
  wake-up always takes a whole queue. `Waitqueue` has the links and shows that they
  implement sets, under the discipline that `Kernel` shows its callers to keep.
* **A failed execve** is the same action as a successful one: the parent is made READY
  either way, as in the code.
* **memory_map** is the set of chunks whose bit is 1. The bitmap is longer than memory,
  so chunk numbers past `max_chunk` exist. `areas` records what the callers hold.
* **The romfs image** is a constant function from header offsets to headers. Names keep
  their length, because record lengths and data offsets depend on it. `file_ptr` becomes
  `Unknown` once `read` has moved it on a directory, or `getdents` on a file: the next
  call would take a byte offset for a header, or the reverse.
* **Paths.** After a part that is not found, `get_inode` looks up the next one from the error
  code. From -1 and from a file that gives -ENOTDIR; from -ENOTDIR the ramdisk refuses to
  read, and `romfs_get_inode` goes on with what is on its stack: the answer is `Undefined`.
  Of the calls that get it, only the outcome that it is an error is followed.
* **Closed forms.** Where the code loops, the models say what the loop computes
  (`NextProcess`, `SerialDrain`, `Listed`). The loops stand beside them, turn by turn
  (`ScheduleLoop`, `DrainLoop`, `GetdentsLoop`), and both agree in every reachable state
  (`ChoiceIsLoop`, `DrainIsLoop`, `ListingIsLoop`, checked and proved).
* **Memory of processes** (`Exec`): a call that allocates or frees several areas takes a
  step for each, and `call` holds what is still to be done. `lost` collects the areas the
  code lets go of: what a failing execve had, what a successful one replaces, and MALLOC.
* **The shell** (`Shell`) is a control point per process (`at`), over the actions of
  `Processes`. What a line is, built in or program, with or without `&`, is a choice. When an
  execve fails two shells run on one stack (`tangled`), and the model ends there: what
  happens next depends on what the compiler keeps in which stack slot.
* **The I2C bus** (`I2c`): one action per access to the controller's registers, with the
  bus moving bytes in between. A byte is the number of the register it was read from, so
  that a misplaced one shows. Whether TXW stays set when all bytes are in the FIFO is left
  open.
* **Sequential algorithms** (`Lib`, `Args`, `Genromfs`, `DeviceTree`) are operators that
  follow the loops of the code, with words of `WordSize` or bytes of `ByteSize` values.
  `vsprintf` has the test for the end of the buffer where the code has it (`Emit`).
  `big_to_little64` has the shifts the code has. `MCLib` takes arguments from the number of
  a case and compares with independent definitions: order of sequences, counting of leap
  years, trees.
* Blackjack's shoe is a bag of ranks: after a shuffle every order is possible. `purse`
  and `rounds` are ghosts.

Code outside the repository appears in two places: the receive FIFO of the UART
(`UartReceive`), and the BSC controller with the I2C device (`BusIn`, `BusOut`, `BusEnd`,
`NoAck`).

## 3. The runs

Each run is `tlc -config X.cfg Module`.

| Run | Result | Distinct states | What it shows |
|---|---|---|---|
| `exec` | holds | 35 thousand | under create, load, destroy and MALLOC in every order, with memory running out anywhere: bitmap exact, all memory accounted for, failure only when nothing fits, refinement of `Heap` |
| `memory_overrun` | violated | | an area may end past the end of memory |
| `waitqueue` | holds | 9 thousand | the links implement disjoint sets |
| `processes` | holds | 262 thousand | a process is destroyed twice only if it was reaped under a second waiter and its memory has a new owner (the run reaches this); pids in list order, the CPU only to READY processes, round robin, zombies reaped |
| `shell` | holds | 108 thousand | a prompt means the last command is over, a vforked child has the stack to itself, finished jobs are reported |
| `console` | holds | 279 thousand | FIFO order, loss only when full, input gets through |
| `timer` | holds | 417 thousand | nobody returns early, everybody returns |
| `kernel` | holds | 597 thousand | the queue discipline and the absence of lost wake-ups with all parts interleaved |
| `files` | holds | 7 thousand | sequential reads, complete listings, path resolution, no error code stored as an inode; `ls` and `cat` tell the truth |
| `i2c` | holds | 357 thousand | a read that reports no error has the registers asked for; every transfer ends |
| `lib` | holds | 7 thousand | nine algorithms against their reference definitions, one state per case |
| `blackjack` | holds | 473 thousand | indices in bounds, stakes paid, hands settled at the best value of their cards |

### Bounds, and why they are enough

* `exec`, `memory_overrun`: eight chunks, two of them the kernel's; requests of one chunk
  (partial and full), two and three chunks. Enough for fragmentation on both sides of
  `previous_block`, for the second pass of the search, and for runs that cross the end.
  Two processes, executables of one and of three chunks, and one MALLOC (`MaxMallocs`)
  use up memory at every allocation there is.
* `shell`: three user PCBs and pids below 5 (`MaxPid`): a shell, a shell started from it, a
  background and a foreground job, and a PCB used twice.
* `i2c`: two programs, a FIFO of two bytes under transfers of one to five, a DLEN that
  is too small for one of them, and a register pointer that wraps round.
* `lib`: 6561 cases (`Cases`): all pairs of strings in four bytes of memory, all words of 8
  bits in fields up to `MaxWidth`, all divisors, the ends of all months up to 2037, all
  lines of six characters, memset up to `MaxFill` = 200 bytes (three blocks) from each
  alignment; for the first `Trees` of them a source tree with two levels of directories,
  links in all orders, alignments by pattern (of no entry named `.`, which would move the
  first header) and files that grow or shrink, and a device tree with names of
  lengths around the padding, `memory` nodes of three forms, or none, and namesakes.
* `processes`: three user PCBs beside the idle task, pids up to 4, so that PCBs are
  reused with pointers to their first life still around. Two processes can wait for a
  third, which is what a second destroy takes. `MaxPid` bounds the pids handed out: they
  never roll over.
* `waitqueue`: four processes and two queues; a chain has a first, a middle and a last
  process, and an outsider.
* `console`: a ring of three places (two usable), a FIFO of two and reads of up to three
  characters: wrap-around, a full ring, short reads, two readers racing.
* `timer`: three sleepers with requests of 0, 1 and 4 ticks at 4 Hz, `MaxTicks` 6: a short sleeper
  arrives before, between and after long ones. The word is larger than `MaxTicks`, so the
  tick counter does not wrap.
* `kernel`: two user PCBs, pids below 4, a ring with one usable place, three ticks, ^Z as the only
  character. Smaller than the component runs in each part; the interleaving of the parts
  is what it is for. With two user processes no third can wait for one of them, so that a
  second destroy is not reached here, only in `processes`.
* `files`: a root directory with a subdirectory, a file in each and a hard link, four descriptors (two
  free at boot), buffers that cut listings everywhere, among them one that is exactly
  full; read counts include 0 and the largest word. Paths have up to five parts, with a name
  that is missing, or a file, at the beginning, in the middle and at the end.
* `blackjack`: aces and tens only, one of each in the shoe, which is refilled in the
  middle of hands; three units of money, every bet, two rounds. These ranks reach blackjack,
  soft hands, busts and splits of both kinds. With one card of a rank (`Copies`) no hand comes
  near its 22 slots: that they are enough is shown by the proof alone (`NoOverrun`).

### Fairness

Liveness (`ReadyRuns`, `ZombieReaped`, `InputGetsThrough`, `SleepersReturn`,
`FinishedReported`, `TransfersEnd`) assumes weak
fairness of two things. Interrupts are taken: the timer raises one 64 times a second, and
user mode and the idle task run with interrupts enabled. And a process that has the CPU
inside the kernel goes on: there is nothing to wait for. User processes get no fairness:
they may compute for ever and never make another call. The exception is the shell's own
code between a line and the next prompt, which is strongly fair: the shell gets the CPU
again and again, and has no loop there. `FinishedReported` supposes that the user goes on
typing. In `i2c` the driver runs on, interrupts being masked, and the device does not hold
the clock for ever, for which the code has no timeout; an error, which would end a transfer
too, is never assumed. `SleepersReturn` speaks of
deadlines that lie within `MaxTicks`. Deadlock checking is off only in `waitqueue`
(it has no idle process, so that all may sleep), in `blackjack` (the game ends) and in
`shell` (the model ends after a failed execve). `ReadyRuns` and `ZombieReaped` are claimed up to
a second destroy of one PCB, where the model of processes ends.

## 4. Findings

* **An area past the end of memory** (`memory_overrun`). `find_free` tests chunks `i+j`
  without comparing them with `max_chunk` (`memory.c:103`); the bits behind the end are 0.

Met while modelling, and kept in the models or excluded by a named assumption:

* Freeing zero bytes: `memory_allocate(0)` takes one chunk, `memory_free` of size 0 computes
  `(0-1)/4096+1` without sign and clears all bits from there on (`memory.c:194`).
  `ExecAssumption` and the proofs exclude empty requests.
* SYSCALL_EXECVE wakes the vforked parent also when execve failed (`syscalls.c:119`): two
  processes on one stack. `StackExclusive` holds up to there.
* `strncmp(..., "", 0)` is always 0, so a second split overwrites a hand (`blackjack.c:358`).
* The room execve counts for the last argument is the length of a string at address 0
  (`exec.c:103`); `ArgumentsArrive` says how long the argument may be.
* Lookups in the device tree never notice an error (`device_tree.c:468`, an unsigned result
  compared with 0). That what is read instead is harmless is part of `DeviceTreeRead`.
  `big_to_little64` (`device_tree.c:84`) shifts bytes to the wrong places, so that sizes of
  two cells, and a `memory@0` with 12 bytes, are read wrongly; the trees of the run have neither.
* Division by repeated addition does not end, or is wrong, when the multiple after the
  quotient wraps around (`div.c:27`).
* The write loop of I2C is not bounded by its count (`bcm2835_i2c.c:136`); the result of the
  write that chooses a register is not looked at (`wii_controller.c:23`).
* The shell asks only for its eldest child: a finished job with an elder brother stays a
  zombie (`shell.c:299`). It takes vfork's -1 for a pid (`shell.c:220`).
* A process can be destroyed twice (`waitpid.c:72-79`). A waiter holds a pointer to a PCB that
  may be freed by another waiter; the fill pattern of `memory_free` keeps it asleep, but only
  until the memory is used again, and then it may read EXITED from anything. `Processes`
  reaches this with two processes that wait for a third. The shell waits for nothing but its
  own children, and `ShellProcessesSafe` says that it does not happen there. No comment or
  document promises more.
* A path with two parts or more after one that is not found, or is a file, makes
  `romfs_get_inode` take what is on its stack for a header (`romfs.c:272`, `files.c:126`).
* A child that exits without execve leaves its parent asleep in vfork; execve can make a zombie READY; what an execve replaces, and what a failed one had, is lost.
* Descriptors are never freed, so that the system can open 29 files in all; a listing whose
  buffer is exactly full at the last entry starts over; `read` at the end of a listing moves
  `file_ptr` back to 0; `ls -l` of another directory looks names up in the current one.
* Cards of the house in slots beyond the fourth survive `reset_hands`; `nanosleep` returns at
  once when the tick counter is about to wrap; ^Z, which the comment calls "Force schedule",
  switches preemption on and off.

## 5. Proofs

`tlapm <module>.tla` checks the proofs of a module. They hold for every value of the
constants that satisfies the assumptions of the modules (`MemoryAssumption` and the like:
sizes are numbers, a ring has two places, the idle task is not init), which TLC evaluates in
every run.

| Module | Theorem | States | Hypotheses |
|---|---|---|---|
| `ExecProofs` | `AllocatorSafe` | `TypeOK`, `AreasDisjoint`, `KernelKept`, `MapExact` | `0 \notin Requests` |
| | `AllocatorComplete` | `FailsOnlyWhenFull` | `0 \notin Requests` |
| | `AllocatorRefinesHeap` | `HeapSpec` | `0 \notin Requests` |
| | `MemoryAccounted` | `Accounted` | |
| | `ExecUsesMemory` | `ExecSpec => Spec` of `Memory` | |
| | `ExecMemorySafe` | the allocator's promises, for `Exec` | |
| `ProcessesProofs` | `ProcessesSafe` | `ListByPid`, `CurrentRuns`, `DestroyedOnce`, `NoMissedExit` | |
| | `ScheduleIsRoundRobin` | `ChoiceIsLoop` | |
| `KernelProofs` | `QueuesDisciplined` | `QueueDiscipline` | `NoWrap` |
| | `WakeupsKept` | `NoLostWakeup` | `NoWrap` |
| | `KernelProcessesSafe` | `ListByPid`, `CurrentRuns`, `DestroyedOnce` | `NoWrap` |
| | `SleepsEnough` | `EnoughTicks`, of `Timer` and of `Kernel` | `NoWrap`, `NoLateSleep` |
| | `ConsoleIsStream` | `StreamSpec`, of `Console` and of `Kernel` | |
| | `DrainIsTheLoop` | `DrainIsLoop` | |
| `ShellProofs` | `PromptAfterForeground` | `ForegroundFirst` | |
| | `StackNotShared` | `StackExclusive` | |
| | `ShellProcessesSafe` | `ListByPid`, `CurrentRuns`, `~ double_free` | |
| `I2cProofs` | `ReadsRegisters` | `RegistersRead` | |
| `WaitqueueProofs` | `QueuesAreSets` | `WaitSetSpec` | |
| `FilesProofs` | `FilesReadInOrder` | `ReadsInOrder` | |
| | `ListingsComplete` | `ListingComplete` | |
| | `ListingsAreLoops` | `ListingIsLoop` | |
| | `PathsLeadWhereTheySay` | `PathsResolve` | |
| | `ProgramsAreTruthful` | `ProgramsTellTruth` | |
| `BlackjackProofs` | `NoOverrun` | `InBounds` | |
| | `StakesArePaid` | `StakesPaid` | |
| | `HandsSettledOnCards` | `SettledOnCards` | |

The hypotheses are needed. A request of 0 bytes frees memory of others (section 4; it is an
assumption of `Exec`, whose callers never ask for 0). `NoWrap` says `MaxTicks < WordSize`: the
theorems are about the first 2^32 ticks, two years. `NoLateSleep` says that no deadline wraps:
one that does is small, and nanosleep returns at once. The runs `timer` and `kernel` satisfy
both.

**Memory.** The inductive invariant is the conjunction of the four properties. Disjointness
alone is not inductive: `find_free` looks at bits, not at areas, and a run of clear bits is a
run nobody holds only because the bitmap is exact (`MapExact`). `MapExact` in turn survives a
release only because areas are disjoint from each other and from the kernel (`KernelKept`),
and because allocation and release round a size to the same number of chunks
(`ChunksOfRequest`). The lemma `FindFree` says what the two passes of the search return; it
rests on `MinOfNats`, the least element of a non-empty set of naturals.

**Memory of processes.** `ExecInv` adds to it the types of the pointers and `Accounted`. The
account is a relation between holders, lost areas and allocated areas, and a few lemmas say how
it changes (`AccountAdd`, `AccountDrop`, ...); every action is one of these changes. Since an
area that is freed is in the account, every step of `Exec` is a step of `Memory`, and the three
theorems on the allocator carry over.

**Processes.** `DestroyedOnce` says what a second destroy takes: the process was reaped while
somebody else waited for it (`contended`), and its memory is `TAKEN`. Up to a second destroy,
`ProcInv` adds to the properties that the idle task is always READY in user
mode, so that `schedule()` always finds someone; that an EXITED process is on the list and
inside `exit` (otherwise a waiter could destroy it twice); and that the members of the waitpid
queue are live, inside the loop and wait for someone who has not exited. The lemmas on single
steps are stated without a specification, so that the next two can use them.

**Kernel.** `KernelInv` says of each queue what `ProcInv` says of waitpid's: the members are
live and inside its loop, everyone who sleeps in the loop is a member, and what they wait for
has not happened (ring empty, wake-up time not past theirs). Composition goes by `LeavesAlone`:
a step of one part keeps who is inside another's loop there, and puts nobody to sleep in it.
`EnoughTicks` needs only that deadlines fit into a word.

**Console.** The ring is read as the sequence `Ring`, from tail to head modulo `BufferSize`.
Lemmas say that moving an index takes from one end or adds to the other (`HeadMoves`,
`TailMoves`), what a drain of the UART accepts and what a read takes; each step is then a step
of `InputStream` or a stutter, for the console alone and in the kernel.

**Shell.** `ShellInv`: between vfork and execve the parent sleeps inside vfork, and only this
child will wake it (`Sharing`); pids are never given twice (`Logged`); what a shell waits for
is its own child, which nobody else may reap (`JobsKept`); and what was started in the
foreground and has not exited is waited for (`Attended`). Since nobody waits for another's child, no
process is reaped under a second waiter (`Undisputed`), and so none is ever destroyed twice.

**I2C.** `RegistersRead` speaks of a read that is over. `I2cInv` says where driver and
controller are with respect to each other, that the bytes of a read are in the buffer, in the
FIFO or still to come, that buffer and FIFO together are the registers from the one asked for
up to the device's pointer, and that the pointer stays where the write put it until the read.

**Wait queues.** The model walks a queue along `wait_queue_next`. `Chain` says this without a
recursion: the least set that holds the first process and follows the links. To show that a
chain lies inside a set it is enough that the set follows the links; to show that it holds a
process, that every such set does. With that, adding a process at the end of a chain adds it to
that chain and to no other (`ReachAppended`). `QueueInv` says that a queued process is inside
the loop of its queue (`InLoop`), that one that is not queued has no link left
(`NoStaleLink`; nothing but a wake-up clears a link, so that a stale one would splice two queues)
and that every chain has an end (`Ends`).

**Files.** For every image that satisfies `WellFormed`, `NamesUnique` and `DataInImage`, which
TLC evaluates for the image of the run, and which the run `lib` checks of the images genromfs
makes. Two facts
carry the proofs. The list of a directory's headers exists and is a sequence of headers
(`ChainFacts`): `next` always points forward, so the lists are built from the end of the image
down. And a lookup finds the header of that name or returns an error (`Lookup`): this needs
`NamesUnique`, no name twice in a directory, which genromfs has from the directories it reads.
Paths have any length: `PathsResolve` says part by part what a lookup from the part before gives,
an error code included, and that the answer is `Undefined` for exactly the paths with two parts
behind what is not a directory (`Strays`, `UndefinedWhen`).
`FilesInv` adds to the properties the types of the table, that nothing has been read through a
descriptor not yet open (`Untouched`), and that a listing that was cut stops at a header
(`AtHeader`); `ListingComplete` is inductive since the rest of a directory from any of its
headers is the end of its list (`ChainSuffix`, `ListedThenRest`). The unsigned subtraction that
limits a read does not wrap, because `file_ptr` never passes the size (`ReadWithin`).

**Programs.** `ProgramsTellTruth` needs of the state only what `FilesInv` says of current
directories; the rest is about the loops of `ls` and `cat`. `Iterates` gives a loop that repeats a
step a state at every turn. A call of `ls` leaves what is listed and what is left the whole list,
and takes an entry at least (`CallGoesOn`), because its buffer has room for any name shorter than
a line (`ProgramsAssumption`: 80 columns against 1024 bytes); so after as many calls as entries it
is through (`LsLists`). A read of `cat` returns a byte at least before the end of a file
(`CatReads`, from `DataInImage`: otherwise the ramdisk refuses it). `ColumnsFit` is the arithmetic
of the columns. Listings that start over are excluded (`Ends`): on these `ls` does not stop.

**Blackjack.** `NoOverrun` is about 22 slots: a hand gets a card only when it is worth 21 at
most, each of its cards is worth at least 1, so it has 21 at most. That is a fact about the loops
of `hand_value_player`, which count an ace as 11 first and take 10 away later: `HandValueBest`
says that they compute `BestValue` and never less than the number of cards. `BlackjackInv` adds
that the cards of a hand are in its first slots without a gap (`SlotsFilled`, on which the loops
depend), that a hand still to be played is not bust or fresh (`MayHit`), and that a hand that has
been played has its value (`PlayedHands`). `StakesPaid` needs that there is one hand until the
first split (`OneHand`): the code refuses to double after it, and so `bet_size` may be shared.

**Loops.** The provers have no induction over data, but they know that a non-empty set of
natural numbers has a least member. `EveryTurn` is induction in that form: the set of turns at
which a loop goes wrong has no least member, so it is empty. Where a model follows a loop, it
does so as a recursive function on an interval of turns (`SumOver`, `Demoted`, `Total`,
`get_inode`); the proofs first show that such a function exists, and then what it is at the
last turn. Three loops are proved equal to their closed forms. That of `schedule()` comes round
to every process but the idle task once before it is back at `orig_proc` (`RoundOnce`), so it
ends, and it ends at the first READY process (`SearchGoesRound`). That of the UART handler keeps,
after n characters, a console that `After(n)` says in closed form, until the ring is full; from
then on it changes nothing (`InsertOne`). That of `romfs_getdents` is, at turn d, at the header
of place d + 1 of the list (`ChainFollowsNext`), after the record lengths of the d before it; these
only grow, so what fits in the buffer is a beginning of the list (`LoopLists`).

TLC finds every one of these invariants true on the constants of the runs: where a proof failed,
it told whether the lemma or the prover was at fault.

Only model-checked:

* Liveness (`ReadyRuns`, `ZombieReaped`, `FinishedReported`, `InputGetsThrough`,
  `SleepersReturn`, `TransfersEnd`): out of the prover's reach.
* All of `MCLib`: it is about RECURSIVE operators and folds, of which the provers can say
  nothing.

## 6. What is not modelled

* Time accounting in `schedule()` (`scheduler.c:88-90`): only `times` and `sysinfo` read it.
* Output: console and serial transmit, colours of `ls`, the game's display. `vsprintf` itself is in `Lib`.
* REBOOT and the system calls that only report; the wrappers in `vlibc`.
* GPIO and LED pins, beyond what `Timer` has of the LED: register writes one after the other.
* Boot beyond the device tree: MMU setup, the table of board models, and the ATAGs, whose
  reader is not compiled in. They run once, alone; the models start in the state they leave.
* Mutexes (`locks.s`): every use is commented out.
* memcpy, the random numbers of `vlibc`, and programs that only print. Of `bet_amount` only the
  calls it shares with `wii_controller` are modelled (`I2c`).
* What happens after a PCB is destroyed twice, and to the new owner of memory that a stale
  parent pointer writes to. What a lookup from `-ENOTDIR` finds on the stack.
* Checksums of the image, which the kernel does not look at.

## 7. Plan

Done: all models, and the proofs of every safety property of the kernel, the shell, the files and
the game. What is left:

1. Proofs about the loops of `Lib` (division, strings, `memset`), written over an interval of
   turns as those of `ls` and `cat` are.
2. What the findings of section 4 would need: an allocator that stays within memory, and an
   execve that does not wake the parent when it fails.
