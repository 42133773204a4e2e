-------------------------------- MODULE Heap --------------------------------
(***************************************************************************)
(* What the users of kernel/memory/memory.c rely on, and nothing of how it *)
(* is done: a set of live areas of memory.  An allocation adds an area     *)
(* that shares no chunk with the kernel or with a live area, or it fails;  *)
(* a release takes one area away and leaves every other one alone.  Where  *)
(* the new area lies is not promised.  Memory.tla implements this.         *)
(***************************************************************************)
EXTENDS Integers

CONSTANTS
    Requests,       \* the sizes, in bytes, that callers ask for
    Starts,         \* the chunks at which an area may start
    Reserved,       \* the chunks that belong to the kernel image
    ChunksFor(_)    \* the number of chunks that a size rounds up to

VARIABLE areas      \* live areas: [first |-> chunk, size |-> bytes]

(* The chunks of an area. *)
Cells(a) == a.first .. (a.first + ChunksFor(a.size) - 1)

(* memory_allocate, when it succeeds. *)
Allocate ==
    \E size \in Requests, first \in Starts :
        LET a == [first |-> first, size |-> size]
        IN  /\ Cells(a) \cap Reserved = {}
            /\ \A b \in areas : Cells(a) \cap Cells(b) = {}
            /\ areas' = areas \cup {a}

(* memory_free. *)
Release == \E a \in areas : areas' = areas \ {a}

Init == areas = {}

Next == Allocate \/ Release

Spec == Init /\ [][Next]_areas
=============================================================================
