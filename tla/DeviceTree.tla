----------------------------- MODULE DeviceTree -----------------------------
(***************************************************************************)
(* The flattened device tree of the boot loader, as boot/device_tree.c and *)
(* boot/hardware_detect.c read it: a walk over tokens for a property, and  *)
(* the size of memory, which memory_init starts from.                      *)
(*                                                                         *)
(* The tree is memory: bytes from address 0, numbers with the first byte   *)
(* highest.  Results of lookups are unsigned in the code: `result>0' is    *)
(* result # 0, `result<0' never true, and an error code that is used as an *)
(* index becomes negative again.                                           *)
(***************************************************************************)
EXTENDS Integers, SequencesExt, Bitwise

CONSTANTS
    ByteSize,       \* 256, a power of two
    Magic,          \* 0xd00dfeed
    Name,           \* the names the kernel asks for, as their characters
    MaxString,      \* DT_STRING_MAXSIZE, 128
    TooSmall,       \* 1024: less is not taken for the size of memory
    Fallback        \* 256*1024*1024

ASSUME DeviceTreeAssumption ==
    /\ ByteSize \in {2 ^ k : k \in 2 .. 8}
    /\ \A n \in DOMAIN Name : Len(Name[n]) \in 1 .. (MaxString - 1)
    /\ TooSmall \in Nat /\ Fallback \in Nat

FDT_BEGIN_NODE == 1
FDT_END_NODE == 2
FDT_PROP == 3
FDT_NOP == 4
FDT_END == 9

ENOENT == 2
ENODEV == 19

AnyNode == <<>>     \* node==0

----------------------------------------------------------------------------
Bytes(mem, address, n) == [k \in 1 .. n |-> mem[address + k - 1]]

(* A number of bytes, the first one highest. *)
Number(bytes) ==
    FoldLeft(LAMBDA sum, b : sum * ByteSize + b, 0, bytes)

(* big_to_little, on a word that was read with the first byte lowest. *)
big_to_little(mem, a) ==
    ((mem[a] * ByteSize + mem[a + 1]) * ByteSize + mem[a + 2]) * ByteSize + mem[a + 3]

(* big_to_little64, with the shifts of the code, 48, 32, 16, 8: bytes end  *)
(* up in the same place, and the lowest is empty.                          *)
big_to_little64(b) == Number(<<0, b[1], b[2], b[3] | b[4], b[5] | b[6], b[7], b[8], 0>>)

(* The string at an address, cut off by strlcpy. *)
TextAt(mem, address) ==
    LET end(k) == k = MaxString - 1 \/ address + k \notin DOMAIN mem \/ mem[address + k] = 0
    IN  Bytes(mem, address, Min({k \in 0 .. (MaxString - 1) : end(k)}))

devicetree_setup(mem) ==
    [valid      |-> big_to_little(mem, 0) = Magic,
     address    |-> mem,
     totalsize  |-> big_to_little(mem, 4),
     off_struct |-> big_to_little(mem, 8),
     off_strs   |-> big_to_little(mem, 12)]

(* tree[i] *)
TreeWord(dt, i) == big_to_little(dt.address, dt.off_struct + 4 * i)

----------------------------------------------------------------------------
(* Mutation of InNode: compared up to the length of the name asked for. *)
InNodeByPrefix(node, current_node_name) == IsPrefix(node, current_node_name)

(* Names are compared up to their Nul; any node will do if none is given. *)
InNode(node, current_node_name) == node = AnyNode \/ node = current_node_name

(* dt_parse_prop, behind its token: length, offset of the name, value.     *)
dt_parse_prop(dt, i, current_node_name, node, prop) ==
    LET string == TextAt(dt.address, dt.off_strs + TreeWord(dt, i + 1))
    IN  IF InNode(node, current_node_name) /\ string = prop
        THEN [i |-> i + 1, result |-> i]
        ELSE [i |-> i + 2 + ((TreeWord(dt, i) + 3) \div 4), result |-> 0]

(* "Skip to end of padding": past the first word whose last byte is 0. *)
RECURSIVE AfterName(_, _)
AfterName(dt, i) ==
    IF TreeWord(dt, i) % ByteSize = 0 THEN i + 1 ELSE AfterName(dt, i + 1)

(* dt_parse_node, and its loop over what is in a node. *)
RECURSIVE dt_parse_node(_, _, _, _), ParseInside(_, _, _, _, _)
dt_parse_node(dt, i, node, prop) ==
    IF TreeWord(dt, i) # FDT_BEGIN_NODE
    THEN [i |-> i + 1, result |-> -1]
    ELSE ParseInside(dt, AfterName(dt, i + 1),
                     TextAt(dt.address, dt.off_struct + 4 * (i + 1)), node, prop)

ParseInside(dt, i, node_name, node, prop) ==
    LET token == TreeWord(dt, i)
        inner == IF token = FDT_PROP THEN dt_parse_prop(dt, i + 1, node_name, node, prop)
                                     ELSE dt_parse_node(dt, i, node, prop)
    IN  CASE token = FDT_END_NODE -> [i |-> i + 1, result |-> 0]
          [] token \in {FDT_PROP, FDT_BEGIN_NODE} ->
                IF inner.result # 0 THEN inner
                                    ELSE ParseInside(dt, inner.i, node_name, node, prop)
          [] OTHER -> ParseInside(dt, i + 1, node_name, node, prop)

(* devicetree_find_node_prop: where the property is, or an error. *)
RECURSIVE FindFrom(_, _, _, _)
FindFrom(dt, i, node, prop) ==
    LET found == dt_parse_node(dt, i, node, prop)
        atEnd == TreeWord(dt, found.i) = FDT_END \/ dt.off_struct + 4 * found.i > dt.totalsize
    IN  IF found.result # 0 THEN found.result
        ELSE IF atEnd THEN -ENOENT ELSE FindFrom(dt, found.i, node, prop)

devicetree_find_node_prop(dt, node, prop) ==
    IF dt.valid THEN FindFrom(dt, 0, node, prop) ELSE -ENODEV

(* The value of the property at i: a number, or all of its bytes, whatever *)
(* the room for them.  Without a tree what the caller has, value or        *)
(* string, is not written.                                                 *)
devicetree_prop_int(dt, i, value) ==
    IF dt.valid THEN TreeWord(dt, i + 2) ELSE value

devicetree_prop_string(dt, i, string) ==
    IF dt.valid THEN Bytes(dt.address, dt.off_struct + 4 * (i + 2), TreeWord(dt, i)) ELSE string

(* The lookups: an error is not noticed, and the value is read as if there *)
(* were a property where it points.                                        *)
devicetree_find_int(dt, node, prop, value) ==
    devicetree_prop_int(dt, devicetree_find_node_prop(dt, node, prop), value)

devicetree_find_string(dt, node, prop, string) ==
    devicetree_prop_string(dt, devicetree_find_node_prop(dt, node, prop), string)

----------------------------------------------------------------------------
(* Cells of a number: one or two words, or it is 0 and nothing is skipped. *)
Cells(dt, i, cells) ==
    CASE cells = 1 -> TreeWord(dt, i)
      [] cells = 2 -> big_to_little64(Bytes(dt.address, dt.off_struct + 4 * i, 8))
      [] OTHER -> 0

Skipped(cells) == IF cells \in {1, 2} THEN cells ELSE 0

(* Called only when there is a tree, so that address_cells and size_cells, *)
(* which nothing initializes, are written.                                 *)
devicetree_get_memory_old(dt) ==
    LET address_cells == devicetree_find_int(dt, AnyNode, Name.address_cells, 0)
        size_cells == devicetree_find_int(dt, AnyNode, Name.size_cells, 0)
        i == devicetree_find_node_prop(dt, Name.memory, Name.reg) + 2
    IN  Cells(dt, i + Skipped(address_cells), size_cells)

(* The last case but one takes the third word for one of two. *)
devicetree_get_memory_new(dt) ==
    LET result == devicetree_find_node_prop(dt, Name.memory_0, Name.reg)
        i == result + 2
        val_len == TreeWord(dt, result)
        word == Bytes(dt.address, dt.off_struct + 4 * (i + 2), 4)
    IN  CASE val_len = 8 -> TreeWord(dt, i + 1)
          [] val_len = 24 -> Number(word)
          [] val_len = 12 -> big_to_little64(word \o <<0, 0, 0, 0>>)
          [] OTHER -> 0

(* The first of the two that is large enough. *)
devicetree_get_memory(dt) ==
    LET lengths == <<devicetree_get_memory_old(dt), devicetree_get_memory_new(dt)>>
    IN  Head(SelectSeq(lengths, LAMBDA length : length >= TooSmall) \o <<Fallback>>)

(* hardware_get_memory: the length is cut off to a word. *)
hardware_get_memory(dt) ==
    IF dt.valid THEN devicetree_get_memory(dt) % (ByteSize ^ 4) ELSE Fallback

(* hardware_detect: the revision, from which the model is looked up, and   *)
(* which is 0 to begin with.                                               *)
hardware_revision(dt) ==
    IF dt.valid THEN devicetree_find_int(dt, Name.system, Name.revision, 0) ELSE 0
=============================================================================
