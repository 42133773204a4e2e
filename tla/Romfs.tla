------------------------------- MODULE Romfs -------------------------------
(***************************************************************************)
(* The read-only file system, kernel/fs/romfs/romfs.c, over the ramdisk,   *)
(* kernel/drivers/block/ramdisk.c.                                         *)
(*                                                                         *)
(* The image is what genromfs writes: file headers at offsets that serve   *)
(* as inodes, each with a name, a type, the offset of the next header of   *)
(* its directory (0 after the last), spec (the first header of a           *)
(* directory, the target of a hard link) and a size; a file's data follows *)
(* its name.  The superblock at offset 0 reads as a header too, of a       *)
(* character device named by the volume, as large as the image.            *)
(***************************************************************************)
EXTENDS RomfsFormat

CONSTANTS
    Image,          \* header at each offset: [name, type, next, spec, size]
    ImageLength     \* bytes in the ramdisk

Inode == DOMAIN Image

IsLink(i) == Image[i].type = "hardlink"
IsDirectory(i) == Image[i].type = "directory"
IsFile(i) == Image[i].type = "regular"

(* What the reader relies on, and genromfs provides: headers are written   *)
(* in the order of their offsets, `.' of the root excepted a directory     *)
(* begins after its header, and hard links go to what is not a link.       *)
WellFormed ==
    /\ Inode \subseteq Nat /\ 0 \in Inode /\ Image[0].type = "chardev"
    /\ \A i \in Inode \ {0} :
        /\ Image[i].next \in Inode
        /\ Image[i].next # 0 => Image[i].next > i
        /\ IsDirectory(i) => Image[i].spec \in Inode \ {0} /\ Image[i].spec >= i
        /\ IsLink(i) => Image[i].spec \in Inode \ {0} /\ ~ IsLink(Image[i].spec)
    /\ \A i \in Inode : /\ Image[i].size \in 0 .. (WordSize - 1)
                         /\ Length[Image[i].name] \in Nat \ {0}
    /\ ImageLength \in 0 .. (WordSize - 1) /\ \A i \in Inode : i < ImageLength

ASSUME RomfsAssumption == WellFormed

ENOTDIR == 20

(* What a lookup from -ENOTDIR returns: the ramdisk has no such offset, so *)
(* the header is read into nothing, and whatever is on the stack is taken  *)
(* for one.  It can be any error code or offset, and the call need not     *)
(* return.                                                                 *)
Undefined == -(ENOTDIR + 1)

(* The end of a listing, 0xffffffff. *)
End == WordSize - 1

----------------------------------------------------------------------------
(* ramdisk_read *)
InRamdisk(offset, length) == (offset + length) % WordSize <= ImageLength

(* romfs_string_length_chunks: names are padded to chunks, with a NUL. *)
StringChunks(name) == Chunk * (Length[name] \div Chunk + 1)

DataStart(i) == i + Chunk + StringChunks(Image[i].name)

(* And what genromfs writes after the header is in the image. *)
DataInImage == \A i \in Inode \ {0} : DataStart(i) + Image[i].size <= ImageLength

ASSUME DataAssumption == DataInImage

(* romfs_mount: the first header, `.' of the root directory. *)
romfs_mount == DataStart(0)

(* Mutation of FollowLinks: links are not followed. *)
FollowLinksNot(i) == i

(* romfs_inode_follow_links; a link of genromfs never leads to a link. *)
FollowLinks(i) == IF IsLink(i) THEN Image[i].spec ELSE i

(* The headers from i on, along `next'. *)
Chain[i \in Inode] == IF i = 0 THEN <<>> ELSE <<i>> \o Chain[Image[i].next]

Entries(dir) == Chain[Image[dir].spec]

(* What genromfs has from the directories it reads: no name twice in one,  *)
(* and `.' of the root first.                                              *)
NamesUnique ==
    /\ romfs_mount \in Inode /\ IsDirectory(romfs_mount)
    /\ \A dir \in Inode : IsDirectory(dir) =>
          \A j, k \in DOMAIN Entries(dir) :
              Image[Entries(dir)[j]].name = Image[Entries(dir)[k]].name => j = k

ASSUME NamesAssumption == NamesUnique

(* The word at dir has the type of a directory.  At -1, where a lookup     *)
(* that failed leaves the next one, the word straddles the magic number    *)
(* (`?-ro'), which has another type.                                       *)
MayLookIn(dir) == dir >= 0 /\ IsDirectory(dir)

(* romfs_get_inode: the first entry with this name.  An error of           *)
(* ramdisk_read is not noticed.                                            *)
romfs_get_inode(dir, name) ==
    LET entries == Entries(dir)
        named == {k \in DOMAIN entries : Image[entries[k]].name = name}
    IN  CASE dir \in {-ENOTDIR, Undefined} -> Undefined
          [] dir \notin {-ENOTDIR, Undefined} /\ ~ MayLookIn(dir) -> -ENOTDIR
          [] MayLookIn(dir) /\ named = {} -> -1
          [] OTHER -> FollowLinks(entries[Min(named)])

(* romfs_stat, as far as callers look: the type behind a link. *)
romfs_stat(i) == Image[FollowLinks(i)]

----------------------------------------------------------------------------
(* Mutation of ReadCount: the count is not limited. *)
ReadCountAll(i, offset, count) == count

(* max_count: both sides of the comparison are unsigned. *)
ReadCount(i, offset, count) ==
    LET left == (Image[i].size - offset) % WordSize
    IN  IF count > left THEN left ELSE count

(* romfs_read_file: the number of bytes it returns, 0 for any error. *)
romfs_read_file(i, offset, count) ==
    LET n == ReadCount(i, offset, count)
    IN  IF InRamdisk(DataStart(i) + offset, n) THEN n ELSE 0

----------------------------------------------------------------------------
(* d_reclen: three words and the name with its NUL, padded to a word. *)
RecordLength(i) ==
    LET n == 3 * IntSize + Length[Image[i].name] + 1
    IN  n + ((-n) % IntSize)

(* total_length after these entries. *)
Total(entries) ==
    LET length[k \in 0 .. Len(entries)] ==
            IF k = 0 THEN 0 ELSE length[k - 1] + RecordLength(entries[k])
    IN  length[Len(entries)]

(* Mutation of Listed: an entry that fills the buffer does not fit. *)
ListedLess(i, size) ==
    LET fits == {k \in 0 .. Len(Chain[i]) : k = 0 \/ Total(SubSeq(Chain[i], 1, k)) < size}
    IN  SubSeq(Chain[i], 1, Max(fits))

(* The entries that fit a buffer, from header i on. *)
Listed(i, size) ==
    LET fits == {k \in 0 .. Len(Chain[i]) : Total(SubSeq(Chain[i], 1, k)) <= size}
    IN  SubSeq(Chain[i], 1, Max(fits))

(* Mutation of ListedTo: an entry that did not fit is passed over. *)
ListedPast(i, size) ==
    LET n == Len(Listed(i, size))
    IN  IF n + 2 <= Len(Chain[i]) THEN Chain[i][n + 2] ELSE End

(* Where a listing from i stops: before the first entry that did not fit;  *)
(* after the last one, at End, but at 0, where it began, if the buffer has *)
(* no room for an entry with the name of the volume.                       *)
ListedTo(i, size) ==
    LET listed == Listed(i, size)
        n == Len(listed)
    IN  CASE n < Len(Chain[i]) -> Chain[i][n + 1]
          [] n = Len(Chain[i]) /\ Total(listed) + RecordLength(0) > size -> 0
          [] OTHER -> End

(* The while(1) of romfs_getdents as the code has it: at turn d the header *)
(* at[d], after total[d] bytes of entries.  It ends at an entry that does  *)
(* not fit, or after the last header, at 0, which must fit too.            *)
GetdentsLoop(i, size) ==
    LET turns == 0 .. Len(Chain[i])
        at[d \in turns] == IF d = 0 THEN i ELSE Image[at[d - 1]].next
        total[d \in turns] == IF d = 0 THEN 0 ELSE total[d - 1] + RecordLength(at[d - 1])
        full(d) == RecordLength(at[d]) + total[d] > size
        last == Min({d \in turns : full(d) \/ at[d] = 0})
    IN  <<[k \in 1 .. last |-> at[k - 1]], IF full(last) THEN at[last] ELSE End>>
=============================================================================
