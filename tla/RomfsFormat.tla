---------------------------- MODULE RomfsFormat ----------------------------
(***************************************************************************)
(* What the program that writes a ROM file system image and the kernel     *)
(* that reads it have in common: headers and names in chunks.              *)
(***************************************************************************)
EXTENDS Integers, SequencesExt

CONSTANTS
    Length,         \* strlen of each name
    Chunk,          \* 16: size of a header, and of the pieces of a name
    IntSize,        \* sizeof(uint32_t)
    WordSize        \* 2^32

ASSUME FormatAssumption ==
    /\ {Chunk, IntSize, WordSize} \subseteq Nat \ {0}
=============================================================================
