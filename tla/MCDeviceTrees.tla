--------------------------- MODULE MCDeviceTrees ---------------------------
(***************************************************************************)
(* Device trees by number, and what is in them.  A node has a name, empty  *)
(* for the root, properties, and nodes; the boot loader flattens it, with  *)
(* padding after names and values, tokens to be skipped here and there,    *)
(* and the empty table of reserved memory in front.                        *)
(***************************************************************************)
EXTENDS DeviceTree

MCName ==
    [memory |-> <<1, 2, 1, 3, 4, 5>>, memory_0 |-> <<1, 2, 1, 3, 4, 5, 6, 7>>,
     reg |-> <<4, 2, 1>>, system |-> <<5, 5, 5, 1, 2, 1>>,
     address_cells |-> <<7, 1, 2, 3, 4, 5, 6, 7, 1, 2, 3, 4, 5, 6>>,
     size_cells |-> <<7, 1, 2, 3, 4, 5, 6, 7, 1, 2, 3>>,
     revision |-> <<3, 3, 3, 3, 3, 7, 4, 2, 6, 1, 5, 1, 3, 3>>]

(* A number as n bytes. *)
AsBytes(x, n) == [k \in 1 .. n |-> (x \div ByteSize ^ (n - k)) % ByteSize]

Filled(bytes) == bytes \o [k \in 1 .. ((4 - (Len(bytes) % 4)) % 4) |-> 0]

PropertyOf(name, value) == [name |-> name, value |-> value]

NodeOf(name, nops, properties, nodes) ==
    [name |-> name, nops |-> nops, properties |-> properties, nodes |-> nodes]

----------------------------------------------------------------------------
(* The names of properties, each with its Nul. *)
PropertyNames == <<Name.reg, Name.address_cells, Name.size_cells, Name.revision>>

Strings == FlattenSeq([k \in DOMAIN PropertyNames |-> PropertyNames[k] \o <<0>>])

OffsetOf(name) ==
    LET k == CHOOSE j \in DOMAIN PropertyNames : PropertyNames[j] = name
    IN  FoldLeft(LAMBDA sum, n : sum + Len(n) + 1, 0, SubSeq(PropertyNames, 1, k - 1))

FlatProperty(p) ==
    AsBytes(FDT_PROP, 4) \o AsBytes(Len(p.value), 4) \o AsBytes(OffsetOf(p.name), 4) \o Filled(p.value)

RECURSIVE FlatNode(_)
FlatNode(n) ==
    LET nops == FlattenSeq([k \in 1 .. n.nops |-> AsBytes(FDT_NOP, 4)])
    IN  AsBytes(FDT_BEGIN_NODE, 4) \o Filled(n.name \o <<0>>)
          \o FlattenSeq([k \in DOMAIN n.properties |-> nops \o FlatProperty(n.properties[k])])
          \o FlattenSeq([k \in DOMAIN n.nodes |-> FlatNode(n.nodes[k]) \o nops])
          \o AsBytes(FDT_END_NODE, 4)

(* Ten words of header, 16 bytes that end the table, tokens, strings. *)
Flattened(root) ==
    LET struct == FlatNode(root) \o AsBytes(FDT_END, 4)
        off_strs == 56 + Len(struct)
        header == <<Magic, off_strs + Len(Strings), 56, off_strs, 40, 17, 16, 0, Len(Strings), Len(struct)>>
        all == FlattenSeq([k \in DOMAIN header |-> AsBytes(header[k], 4)])
                 \o [k \in 1 .. 16 |-> 0] \o struct \o Strings
    IN  [address \in 0 .. (Len(all) - 1) |-> all[address + 1]]

(* The properties of a tree in its order, each with its node. *)
RECURSIVE EntriesOf(_)
EntriesOf(n) ==
    [k \in DOMAIN n.properties |-> [node |-> n.name] @@ n.properties[k]]
      \o FlattenSeq([k \in DOMAIN n.nodes |-> EntriesOf(n.nodes[k])])

----------------------------------------------------------------------------
(* Sizes of memory, in the forms of the firmware, old and new, or none. *)
Sizes == <<0, TooSmall - 1, TooSmall, 999, ByteSize ^ 4 - 1>>

(* The tree of a number: cells, the node for memory, the node that is not, *)
(* in which the same properties have other values, and the revision.       *)
DeviceTreeOf(k) ==
    LET form == <<"none", "old", "new", "two">>[1 + (k % 4)]
        size == Sizes[1 + ((k \div 4) % 5)]
        address_cells == 1 + ((k \div 20) % 2)
        nops == (k \div 40) % 2
        early == (k \div 80) % 2 = 0
        deep == (k \div 160) % 2 = 0
        length == (k \div 320) % 6
        word(x) == AsBytes(x, 4)
        reg(value) == <<PropertyOf(Name.reg, value)>>
        memory ==
            CASE form = "none" -> <<>>
              [] form = "old" -> <<NodeOf(Name.memory, nops, reg(AsBytes(0, 4 * address_cells) \o word(size)), <<>>)>>
              [] form = "new" -> <<NodeOf(Name.memory_0, nops, reg(word(0) \o word(size)), <<>>)>>
              [] form = "two" -> <<NodeOf(Name.memory_0, nops,
                                          reg(AsBytes(0, 8) \o word(size) \o AsBytes(5, 8) \o word(77)), <<>>)>>
        system == NodeOf(Name.system, 0, <<PropertyOf(Name.revision, word(1000 + (k % 1000)))>>, <<>>)
        other == NodeOf([j \in 1 .. (length + 12) |-> 1 + (j % 7)], nops,
                        <<PropertyOf(Name.reg, [j \in 1 .. length |-> 7]),
                          PropertyOf(Name.size_cells, word(2)), PropertyOf(Name.address_cells, word(3))>>,
                        IF deep THEN <<system>> ELSE <<>>)
        nodes == (IF early THEN memory \o <<other>> ELSE <<other>> \o memory)
                   \o (IF deep THEN <<>> ELSE <<system>>)
        root == NodeOf(<<>>, nops, <<PropertyOf(Name.address_cells, word(address_cells)),
                                     PropertyOf(Name.size_cells, word(1))>>, nodes)
    IN  [root |-> root, other |-> other.name, revision |-> 1000 + (k % 1000),
         memory |-> IF form # "none" /\ size >= TooSmall THEN size ELSE Fallback]
=============================================================================
