------------------------------- MODULE Memory -------------------------------
(***************************************************************************)
(* The physical memory allocator, kernel/memory/memory.c.                  *)
(*                                                                         *)
(* memory_map, the bitmap of the C code, is the set of chunks whose bit is *)
(* 1.  The bitmap is longer than the memory it describes: the bits past    *)
(* max_chunk exist, are 0 at boot, and are read and written like the       *)
(* others, so chunk numbers are any naturals.  `areas' records the areas   *)
(* that callers hold, with the byte size they asked for; the code keeps it *)
(* only in its callers (a PCB's stack/stacksize and text/textsize).        *)
(***************************************************************************)
EXTENDS Integers, FiniteSetsExt

CONSTANTS
    ChunkSize,      \* CHUNK_SIZE, 4096
    MaxMemory,      \* MAX_MEMORY, 1GB
    MemoryTotal,    \* bytes of memory the machine has
    MemoryKernel,   \* bytes the kernel image takes, from address 0
    WordSize,       \* 2^32: sizes are uint32_t
    Requests        \* the sizes callers ask for

ASSUME MemoryAssumption ==
    /\ ChunkSize \in Nat \ {0}
    /\ WordSize \in Nat \ {0}
    /\ MaxMemory \in Nat /\ MemoryTotal \in Nat /\ MemoryKernel \in Nat
    /\ Requests \subseteq 0 .. (WordSize - 1)

VARIABLES
    memory_map,     \* chunks marked used
    previous_block, \* where find_free left off last time
    areas,          \* areas held by callers: [first |-> chunk, size |-> bytes]
    result          \* first chunk of the last allocation, or NULL

vars == <<memory_map, previous_block, areas, result>>

NULL == -1

----------------------------------------------------------------------------
(* memory_init refuses a machine with too much memory: max_chunk stays 0. *)
TooMuch == MemoryTotal > MaxMemory

max_chunk == IF TooMuch THEN 0 ELSE MemoryTotal \div ChunkSize

(* "Mark OS area as used" *)
OsArea == IF TooMuch THEN {} ELSE 0 .. (MemoryKernel \div ChunkSize)

(* ((size-1)/CHUNK_SIZE)+1 in unsigned arithmetic: size 0 wraps around. *)
NumChunks(size) == (((size - 1) % WordSize) \div ChunkSize) + 1

Run(first, n) == first .. (first + n - 1)

(* Mutation of Fits: the inner loop of find_free is left out. *)
FitsFirstOnly(i, n) == i \notin memory_map

(* No chunk of the run is used.  The run is not compared with max_chunk. *)
Fits(i, n) == Run(i, n) \cap memory_map = {}

(* memory_allocate asks for at least one byte. *)
AllocChunks(size) == NumChunks(IF size = 0 THEN 1 ELSE size)

Cells(a) == Run(a.first, AllocChunks(a.size))

(* Mutation of find_free: the search does not wrap around. *)
FindFreeOnePass(n) ==
    LET after == {i \in previous_block .. (max_chunk - 1) : Fits(i, n)}
    IN  IF after = {} THEN NULL ELSE Min(after)

(* Two passes: from previous_block to the end, then from 0 up to it. *)
find_free(n) ==
    LET after  == {i \in previous_block .. (max_chunk - 1) : Fits(i, n)}
        before == {i \in 0 .. (previous_block - 1) : Fits(i, n)}
    IN  CASE after # {}                 -> Min(after)
          [] after = {} /\ before # {}  -> Min(before)
          [] OTHER                      -> NULL

----------------------------------------------------------------------------

memory_init ==
    /\ memory_map = OsArea
    /\ previous_block = 0
    /\ areas = {}
    /\ result = NULL

(* Where the next search starts. *)
ResumeAt(i, n) == i + 1

memory_allocate(size) ==
    LET n == AllocChunks(size)
        i == find_free(n)
    IN  /\ result' = i
        /\ IF i = NULL
           THEN UNCHANGED <<memory_map, previous_block, areas>>
           ELSE /\ memory_map' = memory_map \cup Run(i, n)
                /\ previous_block' = ResumeAt(i, n)
                /\ areas' = areas \cup {[first |-> i, size |-> size]}

(* Mutation of FreeChunks: the size is not rounded up. *)
RoundedDown(size) == size \div ChunkSize

(* The chunks memory_free counts: no special case for 0. *)
FreeChunks(size) == NumChunks(size)

(* The caller gives back an area with the size it asked for. *)
memory_free(a) ==
    /\ memory_map' = memory_map \ Run(a.first, FreeChunks(a.size))
    /\ areas' = areas \ {a}
    /\ UNCHANGED <<previous_block, result>>

Allocate == \E size \in Requests : memory_allocate(size)
Free == \E a \in areas : memory_free(a)

Next == Allocate \/ Free

Spec == memory_init /\ [][Next]_vars

----------------------------------------------------------------------------
(* Types of the state; previous_block never runs past max_chunk, or the   *)
(* first pass of find_free would be skipped for good.                     *)
TypeOK ==
    /\ memory_map \subseteq Nat
    /\ previous_block \in 0 .. max_chunk
    /\ areas \subseteq [first : Nat, size : Requests]
    /\ result \in Nat \cup {NULL}

(* No two callers hold the same chunk: the areas memory_allocate has       *)
(* returned and memory_free has not taken back are pairwise disjoint.      *)
AreasDisjoint ==
    \A a, b \in areas : a # b => Cells(a) \cap Cells(b) = {}

(* No allocation gives away a chunk of the kernel image.  As the image     *)
(* starts at chunk 0, this is also what keeps a successful allocation from *)
(* returning address 0, which callers take for NULL.                       *)
KernelKept ==
    TooMuch \/ \A a \in areas : Cells(a) \cap OsArea = {}

(* The bitmap is exact: a chunk is marked used if and only if the kernel   *)
(* or a caller holds it.  memory_free releases all of an area and no more, *)
(* and memory_allocate marks all of it.                                    *)
MapExact == memory_map = OsArea \cup UNION {Cells(a) : a \in areas}

(* memory_allocate returns NULL only when no run of that length is free    *)
(* anywhere: starting the search at previous_block loses no place.         *)
FailsOnlyWhenFull ==
    [][ \A size \in Requests :
          (memory_allocate(size) /\ result' = NULL)
              => \A i \in 0 .. (max_chunk - 1) : ~ Fits(i, AllocChunks(size)) ]_vars

(* "Find a free chunk of memory" (memory.c:92): the area returned is in    *)
(* memory.  Broken: the inner loops of find_free look at chunks i+j past   *)
(* max_chunk, whose bits are 0, and take them for free memory.             *)
AreasInMemory == \A a \in areas : Cells(a) \subseteq 0 .. (max_chunk - 1)

----------------------------------------------------------------------------
(* What memory.c promises its callers. *)
Promise == INSTANCE Heap WITH
    Starts <- 0 .. (max_chunk - 1), Reserved <- OsArea, ChunksFor <- AllocChunks

(* The allocator implements Heap: each allocation that succeeds takes a    *)
(* place nobody holds, each release gives up one area and touches no       *)
(* other, and nothing else changes who holds what.                         *)
HeapSpec == Promise!Spec
=============================================================================
