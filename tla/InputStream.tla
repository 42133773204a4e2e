---------------------------- MODULE InputStream ----------------------------
(***************************************************************************)
(* What the console promises about keyboard input: characters are read in  *)
(* the order in which they arrived, none twice; a character is lost only   *)
(* when Capacity characters are already waiting.                           *)
(***************************************************************************)
EXTENDS Naturals, Sequences

CONSTANTS Char, Capacity, Counts, Zero

VARIABLES
    line,       \* characters received by the UART
    waiting,    \* characters accepted and not read yet
    delivered   \* what the last read returned

vars == <<line, waiting, delivered>>

Init == line = <<>> /\ waiting = <<>> /\ delivered = <<>>

Receive == /\ \E ch \in Char : line' = Append(line, ch)
           /\ UNCHANGED <<waiting, delivered>>

(* As much of the line as there is room for, from its start. *)
Accept ==
    LET room == Capacity - Len(waiting)
        n == IF Len(line) < room THEN Len(line) ELSE room
    IN  /\ waiting' = waiting \o SubSeq(line, 1, n)
        /\ line' = <<>>
        /\ UNCHANGED delivered

(* A read of n characters returns the oldest ones, and zeros after them.   *)
Read ==
    \E n \in Counts :
        LET m == IF n < Len(waiting) THEN n ELSE Len(waiting)
        IN  /\ waiting # <<>>
            /\ delivered' = [i \in 1 .. n |-> IF i <= m THEN waiting[i] ELSE Zero]
            /\ waiting' = SubSeq(waiting, m + 1, Len(waiting))
            /\ UNCHANGED line

Next == Receive \/ Accept \/ Read

Spec == Init /\ [][Next]_vars
=============================================================================
