------------------------------ MODULE MCFiles ------------------------------
(***************************************************************************)
(* Files for TLC: the image genromfs makes of a root directory with a      *)
(* subdirectory `d', a file in each and a hard link, in chunks of 2 bytes. *)
(***************************************************************************)
EXTENDS Programs, Genromfs

MCLength == [n \in {"v", ".", "d", "f", "l"} |-> 1] @@ [n \in {".."} |-> 2]
            @@ [n \in {"g"} |-> 3]

Entry(name, ino, kind, size) ==
    [name |-> name, ino |-> ino, kind |-> kind, size |-> size, now |-> size,
     aligns |-> {}, skipped |-> FALSE]

Dots(ino, up) == <<Entry(".", ino, "directory", 0), Entry("..", up, "directory", 0)>>

MCTree ==
    [volume |-> "v", root |-> Entry(".", 1, "directory", 0),
     entries |->
        1 :> Dots(1, 0) \o <<Entry("d", 2, "directory", 0), Entry("f", 3, "regular", 2),
                             Entry("l", 3, "regular", 2)>>
        @@ 2 :> Dots(2, 1) \o <<Entry("g", 4, "regular", 3)>>]

At(name, type, next, spec, size) ==
    [name |-> name, type |-> type, next |-> next, spec |-> spec, size |-> size]

MCImage == 0  :> At("v", "chardev", 0, 0, 48)
        @@ 4  :> At(".", "directory", 8, 4, 0)
        @@ 8  :> At("..", "hardlink", 14, 4, 0)
        @@ 14 :> At("d", "directory", 38, 18, 0)
        @@ 18 :> At(".", "hardlink", 22, 14, 0)
        @@ 22 :> At("..", "hardlink", 28, 4, 0)
        @@ 28 :> At("g", "regular", 0, 0, 3)
        @@ 38 :> At("f", "regular", 44, 0, 2)
        @@ 44 :> At("l", "hardlink", 0, 38, 0)

ASSUME ImageIsMade == MCImage = ImageOf(MCTree) /\ ImageLength = LengthOf(MCTree)

(* Files, directories, links and missing names, first and second part, and *)
(* before, after and between more of them.                                 *)
MCPaths ==
    [absolute : BOOLEAN,
     parts : {<<>>, <<"d">>, <<"f">>, <<"l">>, <<"..">>, <<"none">>, <<"d", "g">>,
              <<"d", "..">>, <<"f", "f">>, <<"none", "d">>, <<"d", "none">>,
              <<"d", "..", "l">>, <<"f", "f", "f">>, <<"none", "d", "g">>,
              <<"d", "g", "none">>, <<"d", "..", "none", "d">>, <<"d", "..", "f", "d", "g">>}]
=============================================================================
