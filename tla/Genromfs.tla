------------------------------ MODULE Genromfs ------------------------------
(***************************************************************************)
(* genromfs-0.5.2/genromfs.c, the program that makes the image the kernel  *)
(* is linked with.  It works in two passes that must agree to the byte:    *)
(* processdir walks the source directory and gives every node an offset,   *)
(* then dumpall walks the nodes and writes headers that refer to one       *)
(* another by these offsets.  The files may change between the passes.     *)
(*                                                                         *)
(* A source tree gives each directory the entries readdir returns, `.' and *)
(* `..' included, in their order.  An entry is what processdir knows of it *)
(* once a name that starts with @ has been dealt with: name, inode number, *)
(* kind, size, the size now, when it is written, the alignments of the     *)
(* options -A whose pattern matches it, and whether it is skipped          *)
(* (excluded, no lstat, no access, no such device type).                   *)
(***************************************************************************)
EXTENDS RomfsFormat

CONSTANTS
    Align,          \* option -a: alignment of file data, 16 by default; a power of two
    BlockSize       \* 1024: the image is filled up to blocks

ASSUME GenromfsAssumption ==
    /\ Align \in {Chunk * 2 ^ k : k \in 0 .. 16}
    /\ BlockSize \in Nat \ {0} /\ BlockSize % Chunk = 0

NoNode == 0

AlignUp(n) == ((n + Chunk - 1) \div Chunk) * Chunk

----------------------------------------------------------------------------
(* The first pass: nodes in the order in which they are made, and          *)
(* curroffset.  Node 1 is the root, named by the volume.                   *)

newnode(e, offset) ==
    [name |-> e.name, ino |-> e.ino, kind |-> e.kind, size |-> 0, now |-> e.now,
     aligns |-> e.aligns, offset |-> offset, pad |-> 0, orig_link |-> NoNode, parent |-> NoNode, dir |-> NoNode]

(* spaceneeded: header, name and data. *)
spaceneeded(n) == Chunk + AlignUp(Length[n.name] + 1) + AlignUp(n.size)

(* findalign: the largest of what its kind and the options -A ask for. *)
findalign(n) == Max({IF n.kind = "regular" THEN Align ELSE Chunk} \cup n.aligns)

(* alignnode: the padding that aligns what is extraspace after the node. *)
PadFor(n, offset, extraspace) ==
    LET d == (offset + extraspace) % findalign(n)
    IN  IF d = 0 THEN 0 ELSE findalign(n) - d

alignnode(n, extraspace) ==
    LET pad == PadFor(n, n.offset, extraspace)
    IN  [n EXCEPT !.offset = @ + pad, !.pad = pad]

(* The node is appended to its directory; its space is taken after it. *)
Add(st, n) ==
    [st EXCEPT !.nodes = Append(@, n), !.curroffset = n.offset + spaceneeded(n)]

(* Mutation of findnode: the last node with this inode number. *)
FindLastNode(nodes, ino) ==
    LET same == {k \in 2 .. Len(nodes) : nodes[k].ino = ino}
    IN  IF same = {} THEN NoNode ELSE Max(same)

(* findnode: the tree is searched in the order in which it was made. *)
findnode(nodes, ino) ==
    LET same == {k \in 2 .. Len(nodes) : nodes[k].ino = ino}
    IN  IF same = {} THEN NoNode ELSE Min(same)

(* "Look up old links": `.' is the directory, `..' the one it is in, and   *)
(* any other name a link if its inode has been seen.                       *)
LinkFor(st, e, owner) ==
    CASE e.name = "." -> owner
      [] e.name = ".." -> st.nodes[owner].parent
      [] OTHER -> findnode(st.nodes, e.ino)

(* One turn of the loop of processdir for an entry of the directory dir,   *)
(* whose entries have the parent owner (dirlist.owner).                    *)
AddEntry(st, e, owner, dir) ==
    LET link == LinkFor(st, e, owner)
        n == [newnode(e, st.curroffset) EXCEPT !.parent = owner, !.dir = dir, !.orig_link = link]
        placed == IF link = NoNode /\ e.kind = "regular" THEN alignnode(n, spaceneeded(n))
                  ELSE alignnode(n, 0)
        sized == link = NoNode /\ e.kind \in {"regular", "symlink"}
    IN  Add(st, [placed EXCEPT !.size = IF sized THEN e.size ELSE 0])

(* processdir: the entries of a directory one after the other, and a new   *)
(* directory entered as soon as it has its node.                           *)
RECURSIVE processdir(_, _, _, _, _)
processdir(tree, st, dir, owner, entries) ==
    IF entries = <<>> THEN st
    ELSE LET e == Head(entries)
             added == AddEntry(st, e, owner, dir)
             node == Len(added.nodes)
             entered == IF e.kind = "directory" /\ added.nodes[node].orig_link = NoNode
                        THEN processdir(tree, added, node, node, tree.entries[e.ino])
                        ELSE added
         IN  processdir(tree, IF e.skipped THEN st ELSE entered, dir, owner, Tail(entries))

(* The top level: `.' and `..' come first, `..' is a link to `.', which is *)
(* the parent of what follows; readdir's own are passed over.              *)
ProcessRoot(tree) ==
    LET named(name, ino) == [tree.root EXCEPT !.name = name, !.ino = ino]
        root == newnode(named(tree.volume, tree.root.ino), 0)
        start == [nodes |-> <<root>>, curroffset |-> spaceneeded(root)]
        dot == newnode(named(".", tree.root.ino), start.curroffset)
        first == Add(start, alignnode([dot EXCEPT !.parent = 1, !.dir = 1], 0))
        dotdot == [newnode(named("..", 0), first.curroffset) EXCEPT !.orig_link = 2]
        second == Add(first, alignnode([dotdot EXCEPT !.parent = 2, !.dir = 1], 0))
        others == SelectSeq(tree.entries[tree.root.ino], LAMBDA e : e.name \notin {".", ".."})
    IN  processdir(tree, second, 1, 2, others)

----------------------------------------------------------------------------
(* The second pass: the headers written so far, by the offset they are     *)
(* written at, and atoffs, where the next byte goes.                       *)

DirList(nodes, k) == {c \in DOMAIN nodes : nodes[c].dir = k}

(* The next node of the same directory. *)
NextOf(nodes, k) ==
    LET later == {c \in DirList(nodes, nodes[k].dir) : c > k}
    IN  IF later = {} THEN 0 ELSE nodes[Min(later)].offset

(* The fields of a header, as dumpnode sets them. *)
Header(nodes, k) ==
    LET n == nodes[k]
        inside == DirList(nodes, k)
    IN  [name |-> n.name, next |-> NextOf(nodes, k), size |-> n.size,
         type |-> IF n.orig_link # NoNode THEN "hardlink" ELSE n.kind,
         spec |-> CASE n.orig_link # NoNode -> nodes[n.orig_link].offset
                    [] n.orig_link = NoNode /\ n.kind = "directory" ->
                         IF inside = {} THEN n.offset ELSE nodes[Min(inside)].offset
                    [] OTHER -> 0]

(* Mutation of DataWritten: only what can be read now is written. *)
DataWrittenNow(n) == AlignUp(Min({n.now, n.size}))

(* The bytes of data: what can be read now, up to the size of the first    *)
(* pass, then zeros up to that size rounded up.                            *)
DataWritten(n) ==
    LET read == Min({n.now, n.size}) IN read + (AlignUp(n.size) - read)

(* dumpnode, and then the nodes in the directory. *)
RECURSIVE dumpnode(_, _, _)
dumpnode(nodes, out, k) ==
    LET n == nodes[k]
        at == out.atoffs + n.pad
        written == [image |-> out.image @@ (at :> Header(nodes, k)),
                    atoffs |-> at + Chunk + AlignUp(Length[n.name] + 1) + DataWritten(n)]
    IN  FoldLeft(LAMBDA o, c : dumpnode(nodes, o, c), written, SetToSortSeq(DirList(nodes, k), <))

(* dumpall: the superblock, which reads as the header of a character       *)
(* device as long as the image, and the nodes of the root.                 *)
dumpall(nodes, lastoff) ==
    LET super == [name |-> nodes[1].name, type |-> "chardev", next |-> 0, spec |-> 0, size |-> lastoff]
        start == [image |-> 0 :> super, atoffs |-> spaceneeded(nodes[1])]
    IN  FoldLeft(LAMBDA o, c : dumpnode(nodes, o, c), start, SetToSortSeq(DirList(nodes, 1), <))

(* What genromfs makes of a tree. *)
ImageOf(tree) ==
    LET st == ProcessRoot(tree) IN dumpall(st.nodes, st.curroffset).image

(* "Align the whole bunch to ROMBSIZE boundary" *)
LengthOf(tree) ==
    LET lastoff == ProcessRoot(tree).curroffset IN lastoff + ((-lastoff) % BlockSize)

----------------------------------------------------------------------------
(* The two passes agree: every node of the first pass is written where the *)
(* first pass put it, although the files have changed since, and nothing   *)
(* else is; the offsets leave the low bits of `next' to the type, and the  *)
(* data of files is aligned as the options -a and -A ask.                  *)
PassesAgree(tree) ==
    \A st \in {ProcessRoot(tree)} : \A out \in {dumpall(st.nodes, st.curroffset)} :
        /\ out.atoffs = st.curroffset
        /\ DOMAIN out.image = {0} \cup {st.nodes[k].offset : k \in 2 .. Len(st.nodes)}
        /\ \A at \in DOMAIN out.image : at % Chunk = 0
        /\ \A k \in 2 .. Len(st.nodes) : \A n \in {st.nodes[k]} :
              /\ out.image[n.offset] = Header(st.nodes, k)
              /\ out.image[n.offset].type = "regular" =>
                    \A a \in {Align} \cup n.aligns :
                        (n.offset + Chunk + AlignUp(Length[n.name] + 1)) % a = 0

(* The kernel's view of an image. *)
Reader(image, length) == INSTANCE Romfs WITH Image <- image, ImageLength <- length

(* The entries of a directory that become nodes, in their order. *)
Kept(tree, ino) ==
    LET kept == SelectSeq(tree.entries[ino], LAMBDA e : ~ e.skipped)
        dots(name) == [tree.root EXCEPT !.name = name]
        named(e) == e.name \notin {".", ".."}
    IN  IF ino = tree.root.ino THEN <<dots("."), dots("..")>> \o SelectSeq(kept, named) ELSE kept

(* The header at h, found in the directory at up, holds the directory ino  *)
(* of the tree.                                                            *)
RECURSIVE SameDirectory(_, _, _, _, _, _)
SameDirectory(tree, image, length, h, ino, up) ==
    \A found \in {Reader(image, length)!Entries(h)}, kept \in {Kept(tree, ino)} :
        /\ Len(found) = Len(kept)
        /\ \A k \in DOMAIN kept : \A behind \in {Reader(image, length)!FollowLinks(found[k])} :
            /\ image[found[k]].name = kept[k].name
            /\ image[behind].type = kept[k].kind
            /\ kept[k].kind = "regular" => image[behind].size = kept[k].size
            /\ CASE kept[k].name = "." -> behind = h
                 [] kept[k].name = ".." -> behind = up
                 [] OTHER -> kept[k].kind = "directory" =>
                                SameDirectory(tree, image, length, behind, kept[k].ino, h)

(* The image holds the tree: from the root the kernel finds every entry    *)
(* that was not skipped, in its order and with its kind and size, `.' and  *)
(* `..' lead where they should, and the image is what the reader relies on.*)
ImageHoldsTree(tree) ==
    \A image \in {ImageOf(tree)}, length \in {LengthOf(tree)} :
        /\ Reader(image, length)!WellFormed /\ Reader(image, length)!DataInImage
        /\ Reader(image, length)!NamesUnique
        /\ \A root \in {Reader(image, length)!romfs_mount} :
              SameDirectory(tree, image, length, root, tree.root.ino, root)
=============================================================================
