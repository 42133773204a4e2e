------------------------------ MODULE MCTrees ------------------------------
(***************************************************************************)
(* Source trees for genromfs, by number: a root directory, a directory in  *)
(* it and one in that, a file, a hard link to it and a symbolic link, with *)
(* the entries of each directory in many orders, some of them skipped,     *)
(* some aligned by patterns, and a file that has grown or shrunk when it   *)
(* is written.                                                             *)
(***************************************************************************)
EXTENDS Integers, SequencesExt

CONSTANT MaxSize    \* bound: bytes of the file

TreeLength == [n \in {".", "f", "l", "h"} |-> 1] @@ [n \in {"..", "s"} |-> 2]
              @@ [n \in {"vol", "sub"} |-> 3] @@ [n \in {"deep"} |-> 4] @@ [n \in {"data"} |-> 9]

Entry(name, ino, kind, size, now, aligns, skipped) ==
    [name |-> name, ino |-> ino, kind |-> kind, size |-> size, now |-> now,
     aligns |-> aligns, skipped |-> skipped]

Folder(name, ino) == Entry(name, ino, "directory", 0, 0, {}, FALSE)

(* The k-th order of three entries. *)
Order(k, a, b, c) ==
    <<<<a, b, c>>, <<a, c, b>>, <<b, a, c>>, <<b, c, a>>, <<c, a, b>>, <<c, b, a>>>>[1 + (k % 6)]

Tree(k) ==
    LET size == (k \div 36) % (MaxSize + 1)
        now == IF k % 5 = 0 THEN 0 ELSE size + (k % 5) - 1
        aligns == <<{}, {8}, {16, 32}>>[1 + (k % 3)]
        file(name) == Entry(name, 3, "regular", size, now, aligns, FALSE)
        soft == Entry("s", 5, "symlink", 5, 5, {}, k % 7 = 0)
        data == Entry("data", 4, "regular", MaxSize - size, 1, {8}, k % 4 = 0)
        sub == [Folder("sub", 2) EXCEPT !.aligns = aligns]
    IN  [volume |-> "vol", root |-> Folder(".", 1),
         entries |->
            1 :> Order(k \div 3, Folder(".", 1), Folder("..", 9), soft)
                   \o Order(k, sub, file("f"), file("l"))
            @@ 2 :> Order(k \div 6, Folder(".", 2), Folder("deep", 6), Folder("..", 1)) \o <<file("h"), data>>
            @@ 6 :> Order(k \div 2, Folder("..", 2), file("h"), Folder(".", 6))]
=============================================================================
