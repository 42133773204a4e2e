------------------------------- MODULE Files -------------------------------
(***************************************************************************)
(* Files and directories as processes see them, kernel/fs/files.c: one     *)
(* table of descriptors for the whole system, paths, and the current       *)
(* directory of each process.  Any process may use any descriptor.         *)
(*                                                                         *)
(* A descriptor's one file_ptr is a byte offset to read and a header       *)
(* offset to getdents, and neither asks what the descriptor is open on.    *)
(* Where they are mixed, file_ptr is Unknown: the next call takes it for   *)
(* what it is not, and may do anything to it.                              *)
(***************************************************************************)
EXTENDS Romfs

CONSTANTS
    Proc,       \* processes
    MaxFd,      \* MAX_FD, 32
    StdFds,     \* 3: descriptors of the console
    Paths,      \* arguments: [absolute |-> BOOLEAN, parts |-> names]
    Counts,     \* bytes asked of read
    Sizes,      \* buffers given to getdents
    Unknown     \* a file_ptr that is both kinds of offset

ASSUME FilesAssumption ==
    /\ MaxFd \in Nat /\ StdFds \in 1 .. MaxFd
    /\ \A path \in Paths : path.absolute \in BOOLEAN /\ Len(path.parts) \in Nat
    /\ Counts \cup Sizes \subseteq 0 .. (WordSize - 1)
    /\ Unknown \notin Nat

VARIABLES
    valid,          \* descriptors in use: fd_table[fd].valid
    inode,          \* fd_table[fd].inode
    file_ptr,       \* fd_table[fd].file_ptr
    current_dir,    \* current_dir of each process
    got,            \* ramdisk offsets of the bytes read from fd, ghost
    listed          \* entries listed from fd since file_ptr was 0, ghost

fdVars == <<valid, inode, file_ptr, got, listed>>
vars == <<fdVars, current_dir>>

Fd == 0 .. (MaxFd - 1)

root_dir == romfs_mount

(* Where a path starts. *)
StartOf(p, path) == IF path.absolute THEN root_dir ELSE current_dir[p]

(* get_inode: a part that is not found is looked into all the same.  Of an *)
(* Undefined answer the calls below have the outcome that it is negative   *)
(* and an error is returned; what they do with another is not followed.    *)
get_inode(p, path) ==
    LET at[k \in 0 .. Len(path.parts)] ==
            IF k = 0 THEN StartOf(p, path) ELSE romfs_get_inode(at[k - 1], path.parts[k])
    IN  at[Len(path.parts)]

----------------------------------------------------------------------------

Found(i) == i >= 0

(* The lowest descriptor that is not valid. *)
fd_allocate == Min(Fd \ valid)

(* open: a descriptor at the start of what the path denotes.  Errors       *)
(* (-ENOENT, and -ENFILE with a full table) change nothing.  close changes *)
(* nothing either: fd_free is not written.                                 *)
open(p, path) ==
    LET i == get_inode(p, path)
    IN  /\ Found(i)
        /\ Fd \ valid # {}
        /\ LET fd == fd_allocate
           IN  /\ valid' = valid \cup {fd}
               /\ inode' = [inode EXCEPT ![fd] = i]
               /\ file_ptr' = [file_ptr EXCEPT ![fd] = 0]
        /\ UNCHANGED <<got, listed, current_dir>>

(* read, but for descriptor 0, the console. *)
read(fd, count) ==
    /\ fd \in valid \ {0} /\ file_ptr[fd] # Unknown
    /\ LET i == inode[fd]
           from == file_ptr[fd]
           n == romfs_read_file(i, from, count)
       IN  /\ n > 0
           /\ IF IsFile(i)
              THEN /\ file_ptr' = [file_ptr EXCEPT ![fd] = (@ + n) % WordSize]
                   /\ got' = [got EXCEPT ![fd] = @ \o [k \in 1 .. n |-> DataStart(i) + from + k - 1]]
              ELSE file_ptr' = [file_ptr EXCEPT ![fd] = Unknown] /\ UNCHANGED got
    /\ UNCHANGED <<valid, inode, listed, current_dir>>

(* A listing starts at the first header, when file_ptr is 0, or goes on. *)
ListFrom(fd) == IF file_ptr[fd] = 0 THEN Image[inode[fd]].spec ELSE file_ptr[fd]

(* getdents: -ENOTDIR, which changes nothing, is returned only while       *)
(* file_ptr is 0; at the end of the listing 0 is returned.                 *)
getdents(fd, size) ==
    /\ fd \in valid /\ file_ptr[fd] \notin {Unknown, End}
    /\ IsDirectory(inode[fd]) \/ file_ptr[fd] # 0
    /\ IF IsDirectory(inode[fd])
       THEN /\ file_ptr' = [file_ptr EXCEPT ![fd] = ListedTo(ListFrom(fd), size)]
            /\ listed' = [listed EXCEPT ![fd] =
                  (IF file_ptr[fd] = 0 THEN <<>> ELSE @) \o Listed(ListFrom(fd), size)]
       ELSE file_ptr' = [file_ptr EXCEPT ![fd] = Unknown] /\ UNCHANGED listed
    /\ UNCHANGED <<valid, inode, got, current_dir>>

(* chdir asks for a directory; the type is that behind a link. *)
MayEnter(i) == i >= 0 /\ romfs_stat(i).type = "directory"

chdir(p, path) ==
    /\ MayEnter(get_inode(p, path))
    /\ current_dir' = [current_dir EXCEPT ![p] = get_inode(p, path)]
    /\ UNCHANGED fdVars

(* vfork copies the parent's PCB, over that of a process long gone. *)
vfork(p, c) ==
    /\ current_dir' = [current_dir EXCEPT ![c] = current_dir[p]]
    /\ UNCHANGED fdVars

----------------------------------------------------------------------------
(* ramdisk_init, fd_table_init, mount, start_userspace *)
Init ==
    /\ valid = 0 .. (StdFds - 1)
    /\ inode = [fd \in Fd |-> 0]
    /\ file_ptr = [fd \in Fd |-> 0]
    /\ current_dir = [p \in Proc |-> root_dir]
    /\ got = [fd \in Fd |-> <<>>]
    /\ listed = [fd \in Fd |-> <<>>]

Open == \E p \in Proc, path \in Paths : open(p, path)
Read == \E fd \in Fd, count \in Counts : read(fd, count)
Getdents == \E fd \in Fd, size \in Sizes : getdents(fd, size)
Chdir == \E p \in Proc, path \in Paths : chdir(p, path)
Vfork == \E p, c \in Proc : vfork(p, c)

Next == Open \/ Read \/ Getdents \/ Chdir \/ Vfork

Spec == Init /\ [][Next]_vars

----------------------------------------------------------------------------
(* Types of the table; a descriptor is open on something that exists and   *)
(* is not a link, and every current directory is a directory: an error     *)
(* code of get_inode, or a name that denotes a file, is never stored as    *)
(* the place where the next path starts.                                   *)
FilesTypeOK ==
    /\ 0 .. (StdFds - 1) \subseteq valid /\ valid \subseteq Fd
    /\ \A fd \in Fd : inode[fd] \in Inode /\ ~ IsLink(inode[fd])
    /\ \A p \in Proc : current_dir[p] \in Inode /\ IsDirectory(current_dir[p])

(* Reading is sequential: whatever the sizes of the reads, and whoever     *)
(* reads through the shared descriptor, the bytes read from a file so far  *)
(* are its first file_ptr bytes, each once and in order, and none is past  *)
(* its end.                                                                *)
ReadsInOrder ==
    \A fd \in valid : (IsFile(inode[fd]) /\ file_ptr[fd] # Unknown) =>
        /\ file_ptr[fd] <= Image[inode[fd]].size
        /\ got[fd] = [k \in 1 .. file_ptr[fd] |-> DataStart(inode[fd]) + k - 1]

(* Nothing is left out of a listing: however the buffers cut it, what      *)
(* getdents has returned is the beginning of the directory, up to the      *)
(* header that file_ptr has reached, and it is all of it when file_ptr is  *)
(* at the end or starts over.                                              *)
ListingComplete ==
    \A fd \in valid : (IsDirectory(inode[fd]) /\ file_ptr[fd] # Unknown) =>
        LET all == Entries(inode[fd])
            rest == IF file_ptr[fd] \in {0, End} THEN <<>> ELSE Chain[file_ptr[fd]]
        IN  \/ listed[fd] \o rest = all
            \/ file_ptr[fd] = 0 /\ listed[fd] = <<>>

(* What getdents is said to do is what its loop does: the same entries and *)
(* the same place to go on from, for every start and every buffer.         *)
ListingIsLoop ==
    \A fd \in valid, size \in Sizes :
        (IsDirectory(inode[fd]) /\ file_ptr[fd] \notin {Unknown, End}) =>
            GetdentsLoop(ListFrom(fd), size)
                = <<Listed(ListFrom(fd), size), ListedTo(ListFrom(fd), size)>>

(* What an entry of this name in a directory of dirs is, or is a link to. *)
Reached(dirs, name) ==
    LET entries == UNION {ToSet(Entries(d)) : d \in {d \in dirs : IsDirectory(d)}}
    IN  {IF IsLink(e) THEN Image[e].spec ELSE e : e \in {e \in entries : Image[e].name = name}}

(* What a path leads to, part by part. *)
Reach(p, path) ==
    LET reached[k \in 0 .. Len(path.parts)] ==
            IF k = 0 THEN {StartOf(p, path)} ELSE Reached(reached[k - 1], path.parts[k])
    IN  reached

Leads(p, path) == Reach(p, path)[Len(path.parts)]

(* Two parts of the path or more come after what is not a directory. *)
Strays(p, path) ==
    \E k \in 1 .. (Len(path.parts) - 1) : \A i \in Reach(p, path)[k - 1] : ~ IsDirectory(i)

(* get_inode finds what a path leads to, and fails if and only if it leads *)
(* nowhere, although it goes on after a part that was not found, from any  *)
(* current directory the processes can have come to; what they have opened *)
(* and where they are is sound (FilesTypeOK).  It may return anything for  *)
(* a path with two parts after a part that is not there or is a file, and  *)
(* for no other.                                                           *)
PathsResolve ==
    /\ FilesTypeOK
    /\ \A p \in Proc, path \in Paths :
           LET i == get_inode(p, path)
           IN  /\ i = Undefined <=> Strays(p, path)
               /\ IF i < 0 THEN Leads(p, path) = {} ELSE Leads(p, path) = {i}
=============================================================================
