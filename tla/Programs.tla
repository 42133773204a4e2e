------------------------------ MODULE Programs ------------------------------
(***************************************************************************)
(* ls and cat, userspace/ls.c and userspace/cat.c, run by a process on the *)
(* files as they are: which entries and bytes they write, with the numbers *)
(* that ls lays its lines out by.  close frees no descriptor, so ls, which *)
(* goes through a directory twice, needs two that are free.                *)
(***************************************************************************)
EXTENDS Files

CONSTANTS
    LsSize,         \* BUF_SIZE of ls, 1024
    CatSize,        \* BUF_SIZE of cat, 128
    LineSize,       \* 80: columns of the screen
    Forever,        \* the output of a loop that does not end
    Unset           \* what stat leaves in a buffer nothing was stored in

(* A name as long as the screen would make columns 0, and divide by it;    *)
(* the buffer of ls has room for any such name.                            *)
ASSUME ProgramsAssumption ==
    /\ CatSize \in 1 .. (WordSize - 1) /\ {LsSize, LineSize} \subseteq Nat
    /\ \A i \in Inode : Length[Image[i].name] < LineSize /\ RecordLength(i) <= LsSize

Free == Cardinality(Fd \ valid)

----------------------------------------------------------------------------
(* The calls of getdents until one returns 0: where the listing is, and    *)
(* the entries so far.  A call lists one entry at least, or has none left  *)
(* or none that fits, so there are no more calls than entries.  A listing  *)
(* that starts over, at file_ptr 0, never gets to its end.                 *)
GetdentsAll ==
    [dir \in {i \in Inode : IsDirectory(i)} |->
        LET after[d \in 0 .. Len(Entries(dir))] ==
                LET was == after[d - 1]
                IN  IF d = 0 THEN [at |-> Image[dir].spec, out |-> <<>>]
                    ELSE IF was.at \in {0, End} THEN was
                    ELSE [at |-> ListedTo(was.at, LsSize), out |-> was.out \o Listed(was.at, LsSize)]
            last == after[Len(Entries(dir))]
        IN  IF last.at = 0 THEN <<Forever>> ELSE last.out]

(* stat(d->d_name, &buf): the name is looked up where the process is, and  *)
(* not in the directory listed; on failure, not checked, buf is what it    *)
(* was.                                                                    *)
StatOf(p, i, buf) ==
    LET found == romfs_get_inode(current_dir[p], Image[i].name)
    IN  IF Found(found) THEN romfs_stat(found) ELSE buf

(* stat_buf after each of the entries, starting with that of the path. *)
Stats(p, entries, buf) ==
    LET after[k \in 0 .. Len(entries)] ==
            IF k = 0 THEN buf ELSE StatOf(p, entries[k], after[k - 1])
    IN  [k \in DOMAIN entries |-> after[k]]

(* Both functions end the loops at once when open has failed, with an      *)
(* error from getdents: what pass k, 1 or 2, of a directory sees.          *)
Pass(k, dir) == IF Free >= k THEN GetdentsAll[dir] ELSE <<>>

(* Mutation of LongestOf: only the entries of one buffer. *)
LongestOfFirst(entries) ==
    LET lengths == {Length[Image[i].name] : i \in ToSet(Listed(entries[1], LsSize))}
    IN  IF entries = <<>> THEN 0 ELSE Max(lengths \cup {0})

(* max_filename_len *)
LongestOf(entries) == Max({Length[Image[i].name] : i \in ToSet(entries)} \cup {0})

(* ls_plain on a directory, or on a file, which is a line of its own.      *)
ls_plain(i) ==
    LET columns == LineSize \div (LongestOf(Pass(1, i)) + 1)
    IN  CASE ~ Found(i) -> [shown |-> <<>>, columns |-> 0, colwidth |-> 0]
          [] Found(i) /\ ~ IsDirectory(i) -> [shown |-> <<i>>, columns |-> 1, colwidth |-> LineSize]
          [] OTHER -> [shown |-> Pass(2, i), columns |-> columns, colwidth |-> LineSize \div columns]

(* ls_long: the header each line takes its type and size from, and the     *)
(* largest size, to which the sizes are padded.  list_file_long has a      *)
(* stat_buf of its own, with nothing in it.                                *)
ls_long(p, i) ==
    LET first == Stats(p, Pass(1, i), romfs_stat(i))
        line(k) == StatOf(p, Pass(2, i)[k], Unset)
    IN  CASE ~ Found(i) -> [lines |-> <<>>, maxsize |-> 0]
          [] Found(i) /\ ~ IsDirectory(i) ->
                [lines |-> <<romfs_stat(i)>>, maxsize |-> romfs_stat(i).size]
          [] OTHER -> [lines |-> [k \in DOMAIN Pass(2, i) |-> line(k)],
                       maxsize |-> Max({0} \cup {first[k].size : k \in DOMAIN first})]

----------------------------------------------------------------------------
(* cat: read and write until nothing is read; the bytes by their offsets.  *)
(* A read that is not the last returns a byte at least.                    *)
CatFile ==
    [i \in Inode |->
        LET after[d \in 0 .. Image[i].size] ==
                LET was == after[d - 1]
                    n == romfs_read_file(i, was.ptr, CatSize)
                    bytes == [k \in 1 .. n |-> DataStart(i) + was.ptr + k - 1]
                IN  IF d = 0 THEN [ptr |-> 0, out |-> <<>>]
                    ELSE [ptr |-> was.ptr + n, out |-> was.out \o bytes]
        IN  after[Image[i].size].out]

(* main: an argument that cannot be opened ends it. *)
cat(found) ==
    LET opened == {n \in 0 .. Min({Len(found), Free}) : \A k \in 1 .. n : Found(found[k])}
    IN  FlattenSeq([k \in 1 .. Max(opened) |-> CatFile[found[k]]])

----------------------------------------------------------------------------
(* The bytes of a file; a directory has none. *)
Bytes(i) == [k \in 1 .. Image[i].size |-> DataStart(i) + k - 1]

(* The listing of the directory never starts over: no buffer that its last *)
(* entry comes into is too full for one more with the volume's name.       *)
Ends(dir) == Forever \notin ToSet(GetdentsAll[dir])

(* From any state of the files in which two descriptors are free, ls shows *)
(* the entries of a directory, all of them in their order, in columns wide *)
(* enough for every name and a space and together no wider than the        *)
(* screen; in the current directory ls -l shows each with the type and     *)
(* size of what it is, and no size is wider than the column; cat writes    *)
(* every byte of its files once, in order.                                 *)
ProgramsTellTruth ==
    Free >= 2 =>
        \A p \in Proc : \A i, j \in {get_inode(p, path) : path \in Paths} :
            (Found(i) /\ Found(j)) =>
                /\ cat(<<i, j>>) = Bytes(i) \o Bytes(j)
                /\ (IsDirectory(i) /\ Ends(i)) =>
                    \A all \in {Entries(i)}, plain \in {ls_plain(i)}, long \in {ls_long(p, i)} :
                        /\ plain.shown = all
                        /\ \A k \in DOMAIN all : Length[Image[all[k]].name] < plain.colwidth
                        /\ plain.columns * plain.colwidth <= LineSize
                        /\ i = current_dir[p] =>
                            /\ long.lines = [k \in DOMAIN all |-> Image[FollowLinks(all[k])]]
                            /\ \A k \in DOMAIN all : long.lines[k].size <= long.maxsize
=============================================================================
