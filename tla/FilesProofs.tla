---------------------------- MODULE FilesProofs ----------------------------
(***************************************************************************)
(* Proofs about files and directories, for every image that genromfs can   *)
(* make, any number of processes and descriptors, any paths and any sizes  *)
(* of buffers.  The list of a directory's headers, the walk along a path   *)
(* and the length of a listing are computed by loops, and so is what ls    *)
(* and cat write; what they compute is shown by induction over their       *)
(* turns.                                                                  *)
(***************************************************************************)
EXTENDS Programs, NaturalsInduction, WellFoundedInduction, SequenceTheorems,
        FiniteSetTheorems, TLAPS

----------------------------------------------------------------------------
(* A set of turns that holds turn 0, and with each turn the next, holds    *)
(* them all.                                                               *)
LEMMA EveryTurn ==
    ASSUME NEW n \in Nat, NEW S, 0 \in S,
           \A k \in 0 .. (n - 1) : k \in S => (k + 1) \in S
    PROVE  \A k \in 0 .. n : k \in S
<1> DEFINE T == {k \in 0 .. n : k \notin S}
<1> SUFFICES ASSUME T # {} PROVE FALSE
  OBVIOUS
<1>1. T \subseteq Nat
  OBVIOUS
<1>2. PICK x \in T : \A y \in T : ~ (<<y, x>> \in OpToRel(<, Nat))
  BY <1>1, NatLessThanWellFounded, WFMin
<1>3. \A y \in T : ~ (y < x)
  BY <1>1, <1>2, Zenon DEF OpToRel
<1>4. x - 1 \in 0 .. (n - 1) /\ x - 1 \in S /\ x = (x - 1) + 1
  BY <1>3
<1> QED BY <1>4

(* The least member of a set of natural numbers. *)
LEMMA LeastOfNats ==
    ASSUME NEW T, T \subseteq Nat, T # {}
    PROVE  Min(T) \in T /\ \A y \in T : Min(T) <= y
<1>1. PICK x \in T : \A y \in T : ~ (<<y, x>> \in OpToRel(<, Nat))
  BY NatLessThanWellFounded, WFMin
<1>2. \A y \in T : ~ (y < x)
  BY <1>1, Zenon DEF OpToRel
<1>3. \A y \in T : x =< y
  BY <1>2
<1> QED BY <1>3 DEF Min

(* What the proofs use of the image. *)
LEMMA ImageFacts ==
    /\ Inode \subseteq Nat /\ 0 \in Inode /\ ~ IsDirectory(0) /\ ~ IsFile(0) /\ ~ IsLink(0)
    /\ WordSize \in Nat /\ ImageLength \in Nat /\ \A i \in Inode : i < ImageLength
    /\ \A i \in Inode : i # 0 => /\ Image[i].next \in Inode
                                 /\ Image[i].next # 0 => Image[i].next > i
    /\ \A i \in Inode : IsDirectory(i) => Image[i].spec \in Inode /\ Image[i].spec # 0
    /\ \A i \in Inode : IsLink(i) => Image[i].spec \in Inode \ {0} /\ ~ IsLink(Image[i].spec)
<1>1. WellFormed
  BY RomfsAssumption
<1>2. WordSize \in Nat
  BY FormatAssumption
<1>3. Image[0].type = "chardev"
  BY <1>1 DEF WellFormed
<1>4. ~ IsDirectory(0) /\ ~ IsFile(0) /\ ~ IsLink(0)
  BY <1>3 DEF IsDirectory, IsFile, IsLink
<1> QED BY <1>1, <1>2, <1>4 DEF WellFormed

LEMMA InodeNat ==
    /\ ImageLength \in Nat /\ WordSize \in Nat /\ 0 \in Inode
    /\ \A i \in Inode : i \in Nat /\ i < ImageLength
BY ImageFacts

(* A header before a list of headers. *)
LEMMA Prefixed ==
    ASSUME NEW T, NEW x \in T, NEW s \in Seq(T)
    PROVE  /\ <<x>> \o s \in Seq(T) /\ Len(<<x>> \o s) = Len(s) + 1 /\ Len(s) \in Nat
           /\ (<<x>> \o s)[1] = x
<1>1. <<x>> \in Seq(T) /\ Len(<<x>>) = 1 /\ <<x>>[1] = x
  OBVIOUS
<1>2. Len(s) \in Nat
  OBVIOUS
<1> HIDE DEF Len
<1> QED BY <1>1, <1>2, ConcatProperties

LEMMA NoHeaders == \A T : <<>> \in Seq(T)
OBVIOUS

----------------------------------------------------------------------------
(* The headers among the last n bytes of the image, and the end. *)
Upper(n) == {i \in Inode : i = 0 \/ i >= ImageLength - n}

LEMMA UpperNext ==
    ASSUME NEW n \in 0 .. (ImageLength - 1), NEW i \in Upper(n + 1), i # 0
    PROVE  i \in Inode \ {0} /\ Image[i].next \in Upper(n) /\ Image[i].next \in Upper(n + 1)
<1>1. i \in Inode /\ i \in Nat /\ i >= ImageLength - (n + 1)
  BY InodeNat DEF Upper
<1> DEFINE j == Image[i].next
<1>2. j \in Inode /\ (j # 0 => j > i)
  BY <1>1, ImageFacts
<1> HIDE DEF j
<1>3. j \in Upper(n) /\ j \in Upper(n + 1)
  BY <1>1, <1>2, InodeNat DEF Upper
<1> QED BY <1>1, <1>3 DEF j

(* What Chain is to compute, on some of the headers. *)
Chains(f, D) ==
    /\ f \in [D -> Seq(Inode \ {0})]
    /\ \A i \in D : f[i] = IF i = 0 THEN <<>> ELSE <<i>> \o f[Image[i].next]

LEMMA ChainFacts == Chains(Chain, Inode)
<1> DEFINE S == {n \in 0 .. ImageLength : \E f : Chains(f, Upper(n))}
           Turn(f) == [i \in Inode |-> IF i = 0 THEN <<>> ELSE <<i>> \o f[Image[i].next]]
<1>1. 0 \in S
  <2>1. Upper(0) = {0}
    BY InodeNat DEF Upper
  <2>2. Chains([i \in {0} |-> <<>>], {0})
    BY NoHeaders DEF Chains
  <2>3. Chains([i \in {0} |-> <<>>], Upper(0))
    BY <2>1, <2>2
  <2>4. 0 \in 0 .. ImageLength
    BY InodeNat
  <2> QED BY <2>3, <2>4, Zenon
<1>2. ASSUME NEW n \in 0 .. (ImageLength - 1), n \in S  PROVE n + 1 \in S
  <2>1. PICK f : Chains(f, Upper(n))
    BY <1>2
  <2> DEFINE g == [i \in Upper(n + 1) |->
                      IF i \in Upper(n) THEN f[i] ELSE <<i>> \o f[Image[i].next]]
  <2>2. ASSUME NEW i \in Upper(n + 1), i # 0
        PROVE  i \in Inode \ {0} /\ Image[i].next \in Upper(n) /\ Image[i].next \in Upper(n + 1)
    BY <2>2, UpperNext
  <2>3. Upper(n) \subseteq Upper(n + 1) /\ 0 \in Upper(n)
    BY InodeNat DEF Upper
  <2>4. ASSUME NEW i \in Upper(n)  PROVE g[i] = f[i] /\ f[i] \in Seq(Inode \ {0})
    BY <2>1, <2>3 DEF Chains
  <2>5. g \in [Upper(n + 1) -> Seq(Inode \ {0})]
    <3>1. ASSUME NEW i \in Upper(n + 1)  PROVE g[i] \in Seq(Inode \ {0})
      <4>1. CASE i \in Upper(n)
        BY <2>4, <4>1
      <4>2. CASE i \notin Upper(n)
        <5>1. i \in Inode \ {0} /\ f[Image[i].next] \in Seq(Inode \ {0})
          BY <2>2, <2>3, <2>4, <4>2
        <5>2. g[i] = <<i>> \o f[Image[i].next]
          BY <4>2
        <5>3. <<i>> \o f[Image[i].next] \in Seq(Inode \ {0})
          BY <5>1, Prefixed, Zenon
        <5> HIDE DEF g
        <5> QED BY <5>2, <5>3, Zenon
      <4> QED BY <4>1, <4>2
    <3> QED BY <3>1
  <2>6. ASSUME NEW i \in Upper(n + 1)
        PROVE  g[i] = IF i = 0 THEN <<>> ELSE <<i>> \o g[Image[i].next]
    <3>1. CASE i = 0
      BY <2>1, <2>3, <2>4, <3>1 DEF Chains
    <3>2. CASE i # 0
      <4>1. g[Image[i].next] = f[Image[i].next]
        BY <2>2, <2>4, <3>2
      <4>2. g[i] = <<i>> \o f[Image[i].next]
        BY <2>1, <2>4, <3>2 DEF Chains
      <4> QED BY <3>2, <4>1, <4>2
    <3> QED BY <3>1, <3>2
  <2>7. Chains(g, Upper(n + 1))
    <3> HIDE DEF g
    <3> QED BY <2>5, <2>6 DEF Chains
  <2> QED BY <2>7, ImageFacts
<1>3. ImageLength \in S
  <2> HIDE DEF S
  <2> QED BY <1>1, <1>2, EveryTurn, ImageFacts
<1>4. Upper(ImageLength) = Inode
  BY InodeNat DEF Upper
<1>5. PICK f : Chains(f, Inode)
  BY <1>3, <1>4
<1>6. f = Turn(f)
  BY <1>5 DEF Chains
<1>7. Chain = CHOOSE u : u = Turn(u)
  BY Zenon DEF Chain
<1>8. Chain = Turn(Chain)
  BY <1>6, <1>7
<1>9. \A i \in Inode : Chain[i] = IF i = 0 THEN <<>> ELSE <<i>> \o Chain[Image[i].next]
  BY <1>8
<1> DEFINE I == {n \in 0 .. ImageLength : \A i \in Upper(n) : Chain[i] \in Seq(Inode \ {0})}
<1>10. 0 \in I
  <2>1. Upper(0) = {0}
    BY InodeNat DEF Upper
  <2>2. Chain[0] = <<>>
    BY <1>9, InodeNat
  <2>3. Chain[0] \in Seq(Inode \ {0})
    BY <2>2, NoHeaders
  <2>4. 0 \in 0 .. ImageLength
    BY InodeNat
  <2> QED BY <2>1, <2>3, <2>4
<1>11. ASSUME NEW n \in 0 .. (ImageLength - 1), n \in I  PROVE n + 1 \in I
  <2>1. ASSUME NEW i \in Upper(n + 1)  PROVE Chain[i] \in Seq(Inode \ {0})
    <3>1. CASE i = 0
      BY <1>9, <3>1, InodeNat, NoHeaders
    <3>2. CASE i # 0
      <4>1. i \in Inode \ {0} /\ Image[i].next \in Upper(n)
        BY <3>2, UpperNext
      <4>2. Chain[Image[i].next] \in Seq(Inode \ {0})
        BY <1>11, <4>1
      <4>3. Chain[i] = <<i>> \o Chain[Image[i].next]
        BY <1>9, <4>1
      <4> QED BY <4>1, <4>2, <4>3, Prefixed
    <3> QED BY <3>1, <3>2
  <2> QED BY <2>1, ImageFacts
<1>12. ImageLength \in I
  <2> HIDE DEF I
  <2> QED BY <1>10, <1>11, EveryTurn, ImageFacts
<1>13. \A i \in Inode : Chain[i] \in Seq(Inode \ {0})
  BY <1>4, <1>12
<1> HIDE DEF Turn
<1>14. Chain \in [Inode -> Seq(Inode \ {0})]
  BY <1>8, <1>13 DEF Turn
<1> QED BY <1>9, <1>14 DEF Chains

(* The entries of a directory are headers. *)
LEMMA EntriesFacts ==
    ASSUME NEW dir \in Inode, IsDirectory(dir)
    PROVE  /\ Entries(dir) \in Seq(Inode \ {0})
           /\ DOMAIN Entries(dir) \subseteq Nat
           /\ \A k \in DOMAIN Entries(dir) : Entries(dir)[k] \in Inode \ {0}
<1>1. Image[dir].spec \in Inode
  BY ImageFacts
<1>2. Entries(dir) \in Seq(Inode \ {0})
  BY <1>1, ChainFacts DEF Entries, Chains
<1> HIDE DEF Entries
<1>3. DOMAIN Entries(dir) = 1 .. Len(Entries(dir)) /\ Len(Entries(dir)) \in Nat
  BY <1>2
<1> QED BY <1>2, <1>3

(* What a lookup returns: something that exists and is no link, or an error. *)
Answer == {i \in Inode \ {0} : ~ IsLink(i)} \cup {-1, -ENOTDIR, Undefined}

(* The answer, as a set of what it denotes. *)
Denoted(i) == IF i < 0 THEN {} ELSE {i}

LEMMA AnswerSign ==
    ASSUME NEW i, i \in Answer
    PROVE  i \in Int /\ (i >= 0 <=> i \in Inode \ {0}) /\ (i < 0 <=> i \in {-1, -ENOTDIR, Undefined})
BY InodeNat DEF Answer, ENOTDIR, Undefined

LEMMA FollowLinksFacts ==
    ASSUME NEW i \in Inode \ {0}
    PROVE  FollowLinks(i) \in Inode \ {0} /\ ~ IsLink(FollowLinks(i))
BY ImageFacts DEF FollowLinks

(* One lookup finds what an entry of the directory with this name is, or   *)
(* is a link to; there is one at most.                                     *)
LEMMA Lookup ==
    ASSUME NEW dir, dir \in Answer, NEW name
    PROVE  /\ romfs_get_inode(dir, name) \in Answer
           /\ Reached(Denoted(dir), name) = Denoted(romfs_get_inode(dir, name))
           /\ romfs_get_inode(dir, name) = Undefined <=> dir \in {-ENOTDIR, Undefined}
           /\ romfs_get_inode(dir, name) \in {-ENOTDIR, Undefined} <=> ~ MayLookIn(dir)
<1> DEFINE r == romfs_get_inode(dir, name)
           D == {d \in Denoted(dir) : IsDirectory(d)}
<1>0. Reached(Denoted(dir), name) =
        LET entries == UNION {ToSet(Entries(d)) : d \in D}
        IN  {FollowLinks(e) : e \in {e \in entries : Image[e].name = name}}
  BY DEF Reached, FollowLinks
<1>1. CASE ~ MayLookIn(dir)
  <2>1. r = IF dir \in {-ENOTDIR, Undefined} THEN Undefined ELSE -ENOTDIR
    BY <1>1 DEF romfs_get_inode
  <2>2. D = {}
    BY <1>1, AnswerSign DEF MayLookIn, Denoted
  <2>3. Denoted(r) = {} /\ r \in Answer
    BY <2>1 DEF Denoted, Answer, ENOTDIR, Undefined
  <2>4. /\ r = Undefined <=> dir \in {-ENOTDIR, Undefined}
        /\ r \in {-ENOTDIR, Undefined}
    BY <2>1 DEF ENOTDIR, Undefined
  <2> QED BY <1>0, <1>1, <2>2, <2>3, <2>4
<1>2. CASE MayLookIn(dir)
  <2> DEFINE entries == Entries(dir)
             named == {k \in DOMAIN entries : Image[entries[k]].name = name}
  <2>1. /\ dir \in Inode /\ IsDirectory(dir) /\ ~ (dir < 0)
        /\ dir \notin {-ENOTDIR, Undefined}
    BY <1>2, AnswerSign DEF MayLookIn, ENOTDIR, Undefined
  <2>2. D = {dir}
    BY <2>1 DEF Denoted
  <2>3. UNION {ToSet(Entries(d)) : d \in D} = {entries[k] : k \in DOMAIN entries}
    BY <2>2 DEF ToSet
  <2>4. named \subseteq Nat /\ \A k \in DOMAIN entries : entries[k] \in Inode \ {0}
    BY <2>1, EntriesFacts
  <2>5. \A j, k \in named : j = k
    BY <2>1, NamesAssumption DEF NamesUnique
  <2>6. r = IF named = {} THEN -1 ELSE FollowLinks(entries[Min(named)])
    BY <1>2, <2>1 DEF romfs_get_inode
  <2>7. Reached(Denoted(dir), name) = {FollowLinks(entries[k]) : k \in named}
    <3> HIDE DEF entries
    <3> QED BY <1>0, <2>3
  <2> HIDE DEF entries, r
  <2>8. CASE named = {}
    <3>1. r = -1
      BY <2>6, <2>8
    <3>2. Denoted(r) = {} /\ r \in Answer /\ r \notin {-ENOTDIR, Undefined}
      BY <3>1 DEF Denoted, Answer, ENOTDIR, Undefined
    <3> QED BY <1>2, <2>1, <2>7, <2>8, <3>2 DEF r
  <2>9. CASE named # {}
    <3> DEFINE m == Min(named)
    <3>1. m \in named
      BY <2>4, <2>9, LeastOfNats
    <3> HIDE DEF m
    <3>2. r = FollowLinks(entries[m])
      BY <2>6, <2>9 DEF m
    <3>3. r \in Inode \ {0} /\ ~ IsLink(r)
      BY <2>4, <3>1, <3>2, FollowLinksFacts
    <3>4. r \in Answer /\ ~ (r < 0) /\ r \notin {-ENOTDIR, Undefined}
      BY <3>3, AnswerSign DEF Answer, ENOTDIR, Undefined
    <3>5. {FollowLinks(entries[k]) : k \in named} = {r}
      BY <2>5, <3>1, <3>2
    <3> QED BY <1>2, <2>1, <2>7, <3>4, <3>5 DEF Denoted, r
  <2> QED BY <2>8, <2>9
<1> QED BY <1>1, <1>2

(* The places a path comes to. *)
Walk(at, start, parts) ==
    /\ at = [k \in 0 .. Len(parts) |->
                IF k = 0 THEN start ELSE romfs_get_inode(at[k - 1], parts[k])]
    /\ \A k \in 0 .. Len(parts) : at[k] \in Answer

(* get_inode walks along the path, and Leads goes the same way. *)
LEMMA GetInodeWalks ==
    ASSUME NEW p, NEW path, Len(path.parts) \in Nat, StartOf(p, path) \in Answer
    PROVE  \E at : Walk(at, StartOf(p, path), path.parts)
                   /\ get_inode(p, path) = at[Len(path.parts)]
<1> DEFINE start == StartOf(p, path)
           parts == path.parts
           n == Len(parts)
           Upto(f, m) == /\ f \in [0 .. m -> Answer] /\ f[0] = start
                         /\ \A k \in 1 .. m : f[k] = romfs_get_inode(f[k - 1], parts[k])
           S == {m \in 0 .. n : \E f : Upto(f, m)}
           Turn(f) == [k \in 0 .. n |-> IF k = 0 THEN start
                                        ELSE romfs_get_inode(f[k - 1], parts[k])]
<1> HIDE DEF start, parts
<1>0. n \in Nat /\ start \in Answer
  BY DEF start, parts
<1>1. 0 \in S
  <2>1. Upto([k \in 0 .. 0 |-> start], 0)
    BY <1>0
  <2>2. 0 \in 0 .. n
    BY <1>0
  <2> QED BY <2>1, <2>2
<1>2. ASSUME NEW m \in 0 .. (n - 1), m \in S  PROVE m + 1 \in S
  <2>1. PICK f : Upto(f, m)
    BY <1>2
  <2> DEFINE next == romfs_get_inode(f[m], parts[m + 1])
             g == [k \in 0 .. (m + 1) |-> IF k <= m THEN f[k] ELSE next]
  <2>2. Upto(g, m + 1)
    <3>1. f[m] \in Answer
      BY <1>0, <2>1
    <3>2. next \in Answer
      BY <3>1, Lookup
    <3>3. g \in [0 .. (m + 1) -> Answer] /\ g[0] = start
      <4> HIDE DEF next
      <4> QED BY <2>1, <3>2
    <3>4. ASSUME NEW k \in 1 .. (m + 1)  PROVE g[k] = romfs_get_inode(g[k - 1], parts[k])
      <4>1. CASE k <= m
        BY <2>1, <4>1
      <4>2. CASE ~ (k <= m)
        <5>1. k = m + 1 /\ k - 1 = m /\ g[k - 1] = f[m] /\ g[k] = next
          BY <4>2
        <5> QED BY <5>1
      <4> QED BY <4>1, <4>2
    <3> QED BY <3>3, <3>4
  <2>3. m + 1 \in 0 .. n
    BY <1>0
  <2> HIDE DEF g
  <2> QED BY <2>2, <2>3
<1>3. n \in S
  <2> HIDE DEF S, n
  <2>1. \A k \in 0 .. n : k \in S
    BY <1>0, <1>1, <1>2, EveryTurn
  <2> QED BY <1>0, <2>1
<1>4. PICK f : Upto(f, n)
  BY <1>3
<1>5. f = Turn(f)
  BY <1>0, <1>4
<1> DEFINE at == CHOOSE u : u = Turn(u)
<1>6. at = Turn(at)
  BY <1>5, Zenon
<1>7. get_inode(p, path) = at[n]
  BY Zenon DEF get_inode, start, parts
<1> HIDE DEF at
<1>8. \A k \in 0 .. n : at[k] = IF k = 0 THEN start ELSE romfs_get_inode(at[k - 1], parts[k])
  BY <1>6
<1> DEFINE I == {k \in 0 .. n : at[k] \in Answer}
<1>9. 0 \in I
  BY <1>0, <1>8
<1>10. ASSUME NEW k \in 0 .. (n - 1), k \in I  PROVE k + 1 \in I
  <2>1. k + 1 \in 0 .. n /\ k + 1 # 0 /\ (k + 1) - 1 = k
    BY <1>0
  <2>2. at[k + 1] = romfs_get_inode(at[k], parts[k + 1])
    BY <1>8, <2>1
  <2> QED BY <1>10, <2>1, <2>2, Lookup
<1>11. \A k \in 0 .. n : k \in I
  <2> HIDE DEF I, n
  <2> QED BY <1>0, <1>9, <1>10, EveryTurn
<1>12. Walk(at, start, parts)
  BY <1>6, <1>11 DEF Walk
<1> QED BY <1>7, <1>12 DEF start, parts

(* A walk ends Undefined when two lookups or more come after a place that  *)
(* is not a directory, and only then.                                      *)
LEMMA UndefinedWhen ==
    ASSUME NEW at, NEW start, NEW parts, Walk(at, start, parts), NEW n \in Nat, n = Len(parts),
           at[0] \in Inode
    PROVE  at[n] = Undefined <=> \E k \in 1 .. (n - 1) : ~ MayLookIn(at[k - 1])
<1>1. ASSUME NEW k \in 1 .. n
      PROVE  /\ at[k] = Undefined <=> at[k - 1] \in {-ENOTDIR, Undefined}
             /\ at[k] \in {-ENOTDIR, Undefined} <=> ~ MayLookIn(at[k - 1])
  <2>1. k \in 0 .. n /\ k # 0 /\ k - 1 \in 0 .. n
    OBVIOUS
  <2>2. at[k - 1] \in Answer /\ at[k] = romfs_get_inode(at[k - 1], parts[k])
    BY <2>1 DEF Walk
  <2> QED BY <2>2, Lookup
<1>2. at[0] \notin {-ENOTDIR, Undefined}
  BY InodeNat DEF ENOTDIR, Undefined
<1>3. ASSUME at[n] = Undefined PROVE \E k \in 1 .. (n - 1) : ~ MayLookIn(at[k - 1])
  <2> DEFINE S == {m \in 0 .. n : at[m] = Undefined =>
                       \E k \in 1 .. (m - 1) : ~ MayLookIn(at[k - 1])}
  <2>1. 0 \in S
    BY <1>2
  <2>2. ASSUME NEW m \in 0 .. (n - 1), m \in S PROVE m + 1 \in S
    <3>1. m + 1 \in 1 .. n /\ (m + 1) - 1 = m /\ m + 1 \in 0 .. n
      OBVIOUS
    <3> SUFFICES ASSUME at[m + 1] = Undefined
                 PROVE  \E k \in 1 .. m : ~ MayLookIn(at[k - 1])
      BY <3>1
    <3>2. at[m] \in {-ENOTDIR, Undefined}
      BY <1>1, <3>1
    <3>3. m # 0
      BY <1>2, <3>2
    <3>4. m \in 1 .. n /\ m \in 1 .. m
      BY <3>3
    <3>5. ~ MayLookIn(at[m - 1])
      BY <1>1, <3>2, <3>4
    <3> QED BY <3>4, <3>5
  <2> HIDE DEF S
  <2>3. \A m \in 0 .. n : m \in S
    BY <2>1, <2>2, EveryTurn
  <2>4. n \in S
    BY <2>3
  <2> QED BY <1>3, <2>4 DEF S
<1>4. ASSUME NEW k \in 1 .. (n - 1), ~ MayLookIn(at[k - 1]) PROVE at[n] = Undefined
  <2> DEFINE S == {m \in 0 .. n : m > k => at[m] = Undefined}
  <2>1. k \in 1 .. n /\ k + 1 \in 1 .. n /\ (k + 1) - 1 = k
    OBVIOUS
  <2>2. at[k + 1] = Undefined
    BY <1>1, <1>4, <2>1
  <2>3. 0 \in S
    OBVIOUS
  <2>4. ASSUME NEW m \in 0 .. (n - 1), m \in S PROVE m + 1 \in S
    <3>1. m + 1 \in 1 .. n /\ (m + 1) - 1 = m /\ m + 1 \in 0 .. n
      OBVIOUS
    <3>2. CASE m > k
      BY <1>1, <2>4, <3>1, <3>2
    <3>3. CASE m = k
      BY <2>2, <3>1, <3>3
    <3>4. CASE m < k
      BY <3>1, <3>4
    <3> QED BY <3>2, <3>3, <3>4
  <2> HIDE DEF S
  <2>5. \A m \in 0 .. n : m \in S
    BY <2>3, <2>4, EveryTurn
  <2>6. n \in S /\ n > k
    BY <2>5
  <2> QED BY <2>6 DEF S
<1> QED BY <1>3, <1>4

(* What a path leads to is what get_inode answers, if it is defined. *)
LEMMA PathsDenote ==
    ASSUME NEW p, NEW path, Len(path.parts) \in Nat,
           StartOf(p, path) \in Inode \ {0}, ~ IsLink(StartOf(p, path))
    PROVE  /\ get_inode(p, path) \in Answer
           /\ Leads(p, path) = Denoted(get_inode(p, path))
           /\ get_inode(p, path) = Undefined <=> Strays(p, path)
<1> DEFINE start == StartOf(p, path)
           parts == path.parts
           n == Len(parts)
           Turn(f) == [k \in 0 .. n |-> IF k = 0 THEN {start} ELSE Reached(f[k - 1], parts[k])]
<1> HIDE DEF start, parts
<1>0. n \in Nat /\ start \in Answer /\ Denoted(start) = {start}
  <2>1. start \in Answer
    BY DEF start, Answer
  <2>2. ~ (start < 0)
    BY <2>1, AnswerSign DEF start
  <2> QED BY <2>1, <2>2 DEF Denoted, parts
<1>1. PICK at : Walk(at, start, parts) /\ get_inode(p, path) = at[n]
  BY <1>0, GetInodeWalks DEF start, parts
<1>2. \A k \in 0 .. n : /\ at[k] \in Answer
                        /\ at[k] = IF k = 0 THEN start ELSE romfs_get_inode(at[k - 1], parts[k])
  BY <1>1 DEF Walk
<1> DEFINE f == [k \in 0 .. n |-> Denoted(at[k])]
<1>3. ASSUME NEW k \in 0 .. n, k # 0
      PROVE  Reached(Denoted(at[k - 1]), parts[k]) = Denoted(at[k])
  <2>1. k - 1 \in 0 .. n
    BY <1>0, <1>3
  <2>2. at[k - 1] \in Answer /\ at[k] = romfs_get_inode(at[k - 1], parts[k])
    BY <1>2, <1>3, <2>1
  <2> QED BY <2>2, Lookup
<1>4. f = Turn(f)
  <2>1. ASSUME NEW k \in 0 .. n  PROVE f[k] = Turn(f)[k]
    <3>1. CASE k = 0
      BY <1>0, <1>2, <3>1
    <3>2. CASE k # 0
      <4>1. k - 1 \in 0 .. n
        BY <1>0, <3>2
      <4>2. f[k - 1] = Denoted(at[k - 1]) /\ f[k] = Denoted(at[k])
        BY <4>1
      <4>3. Turn(f)[k] = Reached(f[k - 1], parts[k])
        BY <3>2
      <4> HIDE DEF f, Turn
      <4> QED BY <1>3, <3>2, <4>2, <4>3
    <3> QED BY <3>1, <3>2
  <2> QED BY <2>1
<1> DEFINE u == CHOOSE v : v = Turn(v)
<1>5. u = Turn(u)
  BY <1>4, Zenon
<1>6. Reach(p, path) = u
  BY Zenon DEF Reach, start, parts
<1> HIDE DEF u, f
<1>7. \A k \in 0 .. n : u[k] = IF k = 0 THEN {start} ELSE Reached(u[k - 1], parts[k])
  BY <1>5
<1> DEFINE S == {k \in 0 .. n : u[k] = Denoted(at[k])}
<1>8. 0 \in S
  <2>1. 0 \in 0 .. n
    BY <1>0
  <2> QED BY <1>0, <1>2, <1>7, <2>1
<1>9. ASSUME NEW k \in 0 .. (n - 1), k \in S  PROVE k + 1 \in S
  <2>1. k + 1 \in 0 .. n /\ k + 1 # 0 /\ (k + 1) - 1 = k
    BY <1>0
  <2>2. u[k + 1] = Reached(u[k], parts[k + 1])
    BY <1>7, <2>1
  <2>3. Reached(Denoted(at[k]), parts[k + 1]) = Denoted(at[k + 1])
    BY <1>3, <2>1
  <2> QED BY <1>9, <2>1, <2>2, <2>3
<1>10. \A k \in 0 .. n : u[k] = Denoted(at[k])
  <2>1. \A k \in 0 .. n : k \in S
    <3> HIDE DEF S, n
    <3> QED BY <1>0, <1>8, <1>9, EveryTurn
  <2> QED BY <2>1
<1>11. Leads(p, path) = Denoted(at[n])
  BY <1>0, <1>6, <1>10 DEF Leads, parts
<1>12. at[n] = Undefined <=> \E k \in 1 .. (n - 1) : ~ MayLookIn(at[k - 1])
  <2>1. at[0] = start /\ at[0] \in Inode
    BY <1>0, <1>2 DEF start
  <2> HIDE DEF n
  <2> QED BY <1>0, <1>1, <2>1, UndefinedWhen DEF n
<1>13. \A k \in 1 .. (n - 1) : ~ MayLookIn(at[k - 1]) <=> \A i \in u[k - 1] : ~ IsDirectory(i)
  <2> SUFFICES ASSUME NEW k \in 1 .. (n - 1)
               PROVE  ~ MayLookIn(at[k - 1]) <=> \A i \in u[k - 1] : ~ IsDirectory(i)
    OBVIOUS
  <2>1. k - 1 \in 0 .. n
    BY <1>0
  <2>2. at[k - 1] \in Answer /\ u[k - 1] = Denoted(at[k - 1])
    BY <1>2, <1>10, <2>1
  <2> QED BY <2>2, AnswerSign DEF MayLookIn, Denoted
<1>14. Strays(p, path) <=> \E k \in 1 .. (n - 1) : \A i \in u[k - 1] : ~ IsDirectory(i)
  BY <1>6 DEF Strays, parts
<1>15. at[n] \in Answer
  BY <1>0, <1>2
<1> QED BY <1>1, <1>11, <1>12, <1>13, <1>14, <1>15

----------------------------------------------------------------------------
(* A list from a header on is its beginning and the list from any later    *)
(* header of it.                                                           *)
LEMMA ChainSuffix ==
    ASSUME NEW i \in Inode
    PROVE  /\ Chain[i] \in Seq(Inode \ {0})
           /\ \A k \in 0 .. (Len(Chain[i]) - 1) :
                 /\ Chain[i][k + 1] \in Inode \ {0}
                 /\ SubSeq(Chain[i], 1, k) \o Chain[Chain[i][k + 1]] = Chain[i]
<1> DEFINE H == Inode \ {0}
           c == Chain[i]
           L == Len(c)
           S == {k \in 0 .. L : k < L => c[k + 1] \in H /\ SubSeq(c, 1, k) \o Chain[c[k + 1]] = c}
<1>1. ASSUME NEW j \in Inode
      PROVE  /\ Chain[j] \in Seq(H)
             /\ Chain[j] # <<>> => j # 0
             /\ j # 0 => /\ Chain[j] = <<j>> \o Chain[Image[j].next]
                         /\ Image[j].next \in Inode /\ Chain[Image[j].next] \in Seq(H)
                         /\ Chain[j][1] = j
  <2>1. Chain[j] \in Seq(H) /\ Chain[j] = IF j = 0 THEN <<>> ELSE <<j>> \o Chain[Image[j].next]
    BY ChainFacts DEF Chains
  <2>2. ASSUME j # 0  PROVE Image[j].next \in Inode /\ Chain[Image[j].next] \in Seq(H)
    BY <2>2, ImageFacts, ChainFacts DEF Chains
  <2>3. ASSUME j # 0  PROVE (<<j>> \o Chain[Image[j].next])[1] = j
    BY <2>2, <2>3, j \in H, Prefixed
  <2> QED BY <2>1, <2>2, <2>3
<1>2. c \in Seq(H) /\ L \in Nat
  <2>1. c \in Seq(H)
    BY <1>1, Zenon
  <2> HIDE DEF c
  <2> QED BY <2>1, LenProperties, Zenon
<1> HIDE DEF H, c, L
<1>3. 0 \in S
  <2>1. ASSUME 0 < L  PROVE c[0 + 1] \in H /\ SubSeq(c, 1, 0) \o Chain[c[0 + 1]] = c
    <3>1. c # <<>>
      BY <1>2, <2>1, EmptySeq DEF L
    <3>2. i # 0 /\ c[1] = i
      BY <1>1, <3>1 DEF c
    <3>3. SubSeq(c, 1, 0) = <<>>
      BY SubSeqEmpty
    <3>4. <<>> \o c = c
      BY <1>2, ConcatEmptySeq
    <3>5. c[0 + 1] = i /\ i \in H
      BY <3>2, 0 + 1 = 1 DEF H
    <3>6. Chain[i] = c
      BY DEF c
    <3> QED BY <3>3, <3>4, <3>5, <3>6, Zenon
  <2> QED BY <1>2, <2>1
<1>4. ASSUME NEW k \in 0 .. (L - 1), k \in S  PROVE k + 1 \in S
  <2> DEFINE j == c[k + 1]
             d == Chain[Image[j].next]
             b == SubSeq(c, 1, k)
  <2>0. k < L
    BY <1>2
  <2>1. j \in H /\ j \in Inode /\ j # 0 /\ b \o Chain[j] = c
    BY <1>4, <2>0, Zenon DEF H
  <2>2. Chain[j] = <<j>> \o d /\ Image[j].next \in Inode /\ d \in Seq(H)
    BY <1>1, <2>1
  <2> HIDE DEF d, j
  <2>3. k + 1 \in 1 .. L /\ (k + 1) - 1 = k /\ 1 \in 1 .. L
    BY <1>2
  <2>4. SubSeq(c, 1, k + 1) = b \o <<j>>
    BY <1>2, <2>3, SubSeqRecursiveSecond DEF L, j
  <2>5. b \in Seq(H) /\ Len(b) = k
    <3>1. \A m \in 1 .. k : c[m] \in H
      BY <1>2, <2>3, ElementOfSeq DEF L
    <3> QED BY <3>1, SubSeqProperties
  <2>6. <<j>> \in Seq(H) /\ Len(<<j>>) = 1
    BY <2>1
  <2> HIDE DEF b
  <2>7. (b \o <<j>>) \o d = c
    <3>1. (b \o <<j>>) \o d = b \o (<<j>> \o d)
      BY <2>2, <2>5, <2>6, ConcatAssociative
    <3>2. b \o (<<j>> \o d) = c
      BY <2>1, <2>2
    <3> QED BY <3>1, <3>2
  <2>8. b \o <<j>> \in Seq(H) /\ Len(b \o <<j>>) = k + 1
    BY <2>5, <2>6, ConcatProperties
  <2>9. ASSUME k + 1 < L
        PROVE  c[(k + 1) + 1] \in H /\ SubSeq(c, 1, k + 1) \o Chain[c[(k + 1) + 1]] = c
    <3>1. L = (k + 1) + Len(d) /\ Len(d) \in Nat
      BY <2>2, <2>7, <2>8, ConcatProperties DEF L
    <3>2. Len(d) > 0 /\ d # <<>>
      BY <2>2, <2>9, <3>1, EmptySeq
    <3>3. Image[j].next # 0 /\ d[1] = Image[j].next
      BY <1>1, <2>2, <3>2 DEF d
    <3>4. c[(k + 1) + 1] = d[1]
      <4>1. (k + 1) + 1 \in 1 .. (k + 1) + Len(d) /\ ~ ((k + 1) + 1 <= k + 1)
            /\ ((k + 1) + 1) - (k + 1) = 1
        BY <3>1, <3>2
      <4>2. ((b \o <<j>>) \o d)[(k + 1) + 1] = d[((k + 1) + 1) - (k + 1)]
        BY <2>2, <2>8, <4>1, ConcatProperties
      <4> QED BY <2>7, <4>1, <4>2
    <3> QED BY <2>2, <2>4, <2>7, <3>3, <3>4 DEF d, H
  <2>10. k + 1 \in 0 .. L
    BY <1>2
  <2> QED BY <2>9, <2>10, Zenon
<1>5. \A k \in 0 .. L : k \in S
  <2> HIDE DEF S
  <2> QED BY <1>2, <1>3, <1>4, EveryTurn
<1>6. \A k \in 0 .. (L - 1) : k \in 0 .. L /\ k < L
  BY <1>2
<1> QED BY <1>2, <1>5, <1>6 DEF c, H, L

(* The greatest of some numbers up to n. *)
LEMMA GreatestUpTo ==
    ASSUME NEW n \in Nat, NEW T, T \subseteq 0 .. n, T # {}
    PROVE  Max(T) \in T /\ \A y \in T : y <= Max(T)
<1> DEFINE U == {n - x : x \in T}
<1>1. U \subseteq Nat /\ U # {}
  <2>1. PICK t \in T : TRUE
    OBVIOUS
  <2>2. n - t \in U
    OBVIOUS
  <2>3. \A x \in T : x \in Nat /\ x <= n
    OBVIOUS
  <2>4. U \subseteq Nat
    BY <2>3
  <2> HIDE DEF U
  <2> QED BY <2>2, <2>4
<1>2. Min(U) \in U /\ \A y \in U : Min(U) <= y
  BY <1>1, LeastOfNats
<1>3. PICK x \in T : Min(U) = n - x
  BY <1>2
<1>4. ASSUME NEW y \in T  PROVE x >= y
  <2>1. n - y \in U
    OBVIOUS
  <2>2. n - x <= n - y
    BY <1>2, <1>3, <2>1
  <2> QED BY <2>2
<1> QED BY <1>4 DEF Max

(* An empty listing takes no room. *)
LEMMA TotalOfNone == Total(<<>>) = 0
<1> DEFINE Turn(f) == [k \in 0 .. Len(<<>>) |->
                          IF k = 0 THEN 0 ELSE f[k - 1] + RecordLength(<<>>[k])]
           u == CHOOSE f : f = Turn(f)
<1>1. Len(<<>>) = 0
  OBVIOUS
<1>2. Total(<<>>) = u[0]
  <2>1. Total(<<>>) = u[Len(<<>>)]
    BY Zenon DEF Total
  <2> HIDE DEF u
  <2> QED BY <1>1, <2>1
<1>3. [k \in 0 .. 0 |-> 0] = Turn([k \in 0 .. 0 |-> 0])
  BY <1>1
<1>4. u = Turn(u)
  BY <1>3, Zenon
<1> HIDE DEF u
<1>5. u[0] = 0
  BY <1>1, <1>4
<1> QED BY <1>2, <1>5

(* A listing from header i is the beginning of the list, and stops at the  *)
(* header that comes next or, after the last, at 0 or End.                 *)
LEMMA ListedFacts ==
    ASSUME NEW i \in Inode, NEW size \in Nat
    PROVE  \E n \in 0 .. Len(Chain[i]) :
              /\ Listed(i, size) = SubSeq(Chain[i], 1, n)
              /\ Len(Listed(i, size)) = n
              /\ n < Len(Chain[i]) => ListedTo(i, size) = Chain[i][n + 1]
              /\ n = Len(Chain[i]) => ListedTo(i, size) \in {0, End}
<1> DEFINE c == Chain[i]
           L == Len(c)
           fits == {k \in 0 .. L : Total(SubSeq(c, 1, k)) <= size}
           n == Max(fits)
<1>1. c \in Seq(Inode \ {0})
  BY ChainSuffix
<1>2. L \in Nat /\ \A k \in 1 .. L : c[k] \in Inode \ {0}
  <2> HIDE DEF c
  <2> QED BY <1>1, ElementOfSeq, LenProperties
<1>3. n \in 0 .. L
  <2>1. SubSeq(c, 1, 0) = <<>>
    BY SubSeqEmpty
  <2>2. Total(SubSeq(c, 1, 0)) <= size
    <3>1. Total(SubSeq(c, 1, 0)) = 0
      BY <2>1, TotalOfNone, Zenon
    <3> HIDE DEF c
    <3> QED BY <3>1
  <2>3. 0 \in fits /\ fits \subseteq 0 .. L
    BY <1>2, <2>2
  <2> HIDE DEF fits, L
  <2> QED BY <1>2, <2>3, GreatestUpTo
<1>4. Listed(i, size) = SubSeq(c, 1, n)
  BY DEF Listed
<1> HIDE DEF n, L, c
<1>5. Len(SubSeq(c, 1, n)) = n
  <2>1. \A k \in 1 .. n : c[k] \in Inode
    BY <1>2, <1>3
  <2> QED BY <1>2, <1>3, <2>1, SubSeqProperties
<1>6. n < L => ListedTo(i, size) = c[n + 1]
  BY <1>2, <1>3, <1>4, <1>5 DEF ListedTo, L, c
<1>7. n = L => ListedTo(i, size) \in {0, End}
  BY <1>2, <1>4, <1>5 DEF ListedTo, L, c
<1> QED BY <1>3, <1>4, <1>5, <1>6, <1>7 DEF c, L

(* After a listing from header i, what is left of the list. *)
LEMMA ListedThenRest ==
    ASSUME NEW i \in Inode, NEW size \in Nat
    PROVE  /\ Listed(i, size) \in Seq(Inode \ {0})
           /\ \/ /\ ListedTo(i, size) \in Inode \ {0}
                 /\ Listed(i, size) \o Chain[ListedTo(i, size)] = Chain[i]
              \/ ListedTo(i, size) \in {0, End} /\ Listed(i, size) = Chain[i]
<1> DEFINE c == Chain[i]
<1>1. PICK n \in 0 .. Len(c) :
              /\ Listed(i, size) = SubSeq(c, 1, n)
              /\ n < Len(c) => ListedTo(i, size) = c[n + 1]
              /\ n = Len(c) => ListedTo(i, size) \in {0, End}
  BY ListedFacts
<1>2. c \in Seq(Inode \ {0}) /\ Len(c) \in Nat
  <2>1. c \in Seq(Inode \ {0})
    BY ChainSuffix
  <2> HIDE DEF c
  <2> QED BY <2>1, LenProperties
<1>3. Listed(i, size) \in Seq(Inode \ {0})
  <2> HIDE DEF c
  <2>1. \A k \in 1 .. n : c[k] \in Inode \ {0}
    BY <1>2, ElementOfSeq
  <2> QED BY <1>1, <1>2, <2>1, SubSeqProperties
<1>4. CASE n < Len(c)
  <2>1. n \in 0 .. (Len(c) - 1)
    BY <1>2, <1>4
  <2>2. c[n + 1] \in Inode \ {0} /\ SubSeq(c, 1, n) \o Chain[c[n + 1]] = c
    BY <2>1, ChainSuffix
  <2> QED BY <1>1, <1>3, <1>4, <2>2
<1>5. CASE n = Len(c)
  <2> HIDE DEF c
  <2>1. SubSeq(c, 1, n) = c
    BY <1>2, <1>5, SubSeqFull
  <2> QED BY <1>1, <1>3, <1>5, <2>1 DEF c
<1> QED BY <1>2, <1>4, <1>5

----------------------------------------------------------------------------
(* The loop of getdents, turn by turn. *)

(* Entries take room. *)
LEMMA RecordsTakeRoom == \A i \in Inode : RecordLength(i) \in Nat /\ RecordLength(0) \in Nat
<1> SUFFICES ASSUME NEW i \in Inode PROVE RecordLength(i) \in Nat
  BY ImageFacts
<1> DEFINE n == 3 * IntSize + Length[Image[i].name] + 1
<1>1. n \in Nat
  BY RomfsAssumption, FormatAssumption DEF WellFormed
<1> HIDE DEF n
<1>2. n + ((-n) % IntSize) \in Nat
  BY <1>1, FormatAssumption
<1> QED BY <1>2 DEF RecordLength, n

(* total_length after each entry of a list. *)
Lengths(t, s, n) ==
    t \in [0 .. n -> Nat] /\ t[0] = 0 /\ \A k \in 1 .. n : t[k] = t[k - 1] + RecordLength(s[k])

LEMMA LengthsExist ==
    ASSUME NEW n \in Nat, NEW s, \A k \in 1 .. n : s[k] \in Inode
    PROVE  \E t : Lengths(t, s, n)
<1> DEFINE S == {m \in 0 .. n : \E t : Lengths(t, s, m)}
<1>1. 0 \in S
  <2>1. Lengths([k \in 0 .. 0 |-> 0], s, 0)
    BY DEF Lengths
  <2> QED BY <2>1
<1>2. ASSUME NEW m \in 0 .. (n - 1), m \in S  PROVE m + 1 \in S
  <2>1. PICK t : Lengths(t, s, m)
    BY <1>2
  <2>2. RecordLength(s[m + 1]) \in Nat
    BY RecordsTakeRoom
  <2> DEFINE u == [k \in 0 .. (m + 1) |-> IF k <= m THEN t[k] ELSE t[m] + RecordLength(s[m + 1])]
  <2>3. Lengths(u, s, m + 1)
    <3>1. t \in [0 .. m -> Nat] /\ t[0] = 0 /\ m \in Nat
      BY <2>1 DEF Lengths
    <3>2. u \in [0 .. (m + 1) -> Nat] /\ u[0] = 0
      BY <2>2, <3>1
    <3>3. ASSUME NEW k \in 1 .. (m + 1) PROVE u[k] = u[k - 1] + RecordLength(s[k])
      <4>1. u[k - 1] = t[k - 1]
        BY <3>1
      <4>2. k <= m => u[k] = t[k] /\ t[k] = t[k - 1] + RecordLength(s[k])
        BY <2>1, <3>1 DEF Lengths
      <4>3. ~ (k <= m) => k = m + 1 /\ u[k] = t[m] + RecordLength(s[m + 1]) /\ k - 1 = m
        BY <3>1
      <4> HIDE DEF u
      <4> QED BY <4>1, <4>2, <4>3
    <3> QED BY <3>2, <3>3 DEF Lengths
  <2> QED BY <2>3
<1>3. n \in S
  <2> HIDE DEF S
  <2> QED BY <1>1, <1>2, EveryTurn
<1> QED BY <1>3

(* What a loop over turns 0 .. n with this total computes. *)
LEMMA LengthsUnique ==
    ASSUME NEW n \in Nat, NEW s, NEW t, Lengths(t, s, n), NEW u,
           u = [k \in 0 .. n |-> IF k = 0 THEN 0 ELSE u[k - 1] + RecordLength(s[k])]
    PROVE  u = t
<1> DEFINE S == {k \in 0 .. n : u[k] = t[k]}
<1>1. 0 \in S
  BY DEF Lengths
<1>2. ASSUME NEW k \in 0 .. (n - 1), k \in S  PROVE k + 1 \in S
  <2>1. k + 1 \in 1 .. n /\ k + 1 \in 0 .. n /\ (k + 1) - 1 = k /\ k + 1 # 0
    OBVIOUS
  <2>2. u[k + 1] = u[k] + RecordLength(s[k + 1])
    BY <2>1
  <2>3. t[k + 1] = t[k] + RecordLength(s[k + 1])
    BY <2>1 DEF Lengths
  <2> QED BY <1>2, <2>1, <2>2, <2>3
<1>3. \A k \in 0 .. n : k \in S
  <2> HIDE DEF S
  <2> QED BY <1>1, <1>2, EveryTurn
<1>4. \A k \in 0 .. n : u[k] = t[k]
  BY <1>3
<1>5. DOMAIN u = 0 .. n /\ u = [k \in 0 .. n |-> u[k]] 
  OBVIOUS
<1> QED BY <1>4, <1>5 DEF Lengths

LEMMA TotalIsLength ==
    ASSUME NEW s, Len(s) \in Nat, NEW t, Lengths(t, s, Len(s))
    PROVE  Total(s) = t[Len(s)]
<1> DEFINE n == Len(s)
           Turn(u) == [k \in 0 .. n |-> IF k = 0 THEN 0 ELSE u[k - 1] + RecordLength(s[k])]
           u == CHOOSE f : f = Turn(f)
<1>1. t = Turn(t)
  BY DEF Lengths
<1>2. u = Turn(u)
  BY <1>1, Zenon
<1>3. Total(s) = u[n]
  BY Zenon DEF Total
<1> HIDE DEF u
<1>4. u = t
  BY <1>2, LengthsUnique
<1> QED BY <1>3, <1>4

LEMMA LengthsGrow ==
    ASSUME NEW n \in Nat, NEW s, \A k \in 1 .. n : s[k] \in Inode, NEW t, Lengths(t, s, n),
           NEW j \in 0 .. n
    PROVE  \A k \in j .. n : t[j] <= t[k]
<1> DEFINE S == {k \in 0 .. n : k >= j => t[j] <= t[k]}
<1>1. 0 \in S
  BY DEF Lengths
<1>2. ASSUME NEW k \in 0 .. (n - 1), k \in S  PROVE k + 1 \in S
  <2>1. k + 1 \in 1 .. n /\ k + 1 \in 0 .. n /\ (k + 1) - 1 = k /\ k \in 0 .. n
    OBVIOUS
  <2>2. t[k + 1] = t[k] + RecordLength(s[k + 1]) /\ RecordLength(s[k + 1]) \in Nat
    BY <2>1, RecordsTakeRoom DEF Lengths
  <2>3. t[k] \in Nat /\ t[j] \in Nat /\ t[k + 1] \in Nat
    BY <2>1 DEF Lengths
  <2>4. k + 1 >= j => t[j] <= t[k + 1]
    BY <1>2, <2>2, <2>3
  <2> QED BY <2>1, <2>4
<1>3. \A k \in 0 .. n : k \in S
  <2> HIDE DEF S
  <2> QED BY <1>1, <1>2, EveryTurn
<1> QED BY <1>3

(* The second part of a concatenation. *)
LEMMA ConcatFromSecond ==
    ASSUME NEW T, NEW p \in Seq(T), NEW d \in Seq(T)
    PROVE  Len(p \o d) = Len(p) + Len(d) /\ \A n \in 1 .. Len(d) : (p \o d)[Len(p) + n] = d[n]
<1>1. Len(p) \in Nat /\ Len(d) \in Nat
  OBVIOUS
<1>2. /\ Len(p \o d) = Len(p) + Len(d)
      /\ \A i \in 1 .. (Len(p) + Len(d)) :
            (p \o d)[i] = IF i <= Len(p) THEN p[i] ELSE d[i - Len(p)]
  BY ConcatProperties
<1>3. ASSUME NEW n \in 1 .. Len(d) PROVE (p \o d)[Len(p) + n] = d[n]
  <2>1. Len(p) + n \in 1 .. (Len(p) + Len(d)) /\ ~ (Len(p) + n <= Len(p)) /\ (Len(p) + n) - Len(p) = n
    BY <1>1
  <2> QED BY <1>2, <2>1
<1> QED BY <1>2, <1>3

(* The headers of a list follow one another along `next'. *)
LEMMA ChainFollowsNext ==
    ASSUME NEW i \in Inode
    PROVE  LET c == Chain[i] IN
           /\ c \in Seq(Inode \ {0}) /\ Len(c) \in Nat
           /\ Len(c) = 0 <=> i = 0
           /\ Len(c) > 0 => c[1] = i
           /\ \A k \in 1 .. Len(c) : c[k] \in Inode \ {0} /\
                  Image[c[k]].next = IF k < Len(c) THEN c[k + 1] ELSE 0
<1> DEFINE c == Chain[i]
<1>1. c \in Seq(Inode \ {0}) /\ Len(c) \in Nat
  BY ChainFacts DEF Chains
<1>2. \A j \in Inode \ {0} : Chain[j] = <<j>> \o Chain[Image[j].next] /\ Image[j].next \in Inode
                             /\ Chain[Image[j].next] \in Seq(Inode \ {0})
  BY ChainFacts, ImageFacts DEF Chains
<1>3. Chain[0] = <<>>
  BY ChainFacts, ImageFacts DEF Chains
<1>4. \A j \in Inode \ {0} : Len(Chain[j]) > 0 /\ Chain[j][1] = j
            /\ Len(Chain[j]) = 1 + Len(Chain[Image[j].next])
            /\ \A k \in 1 .. Len(Chain[Image[j].next]) : Chain[j][k + 1] = Chain[Image[j].next][k]
  <2> SUFFICES ASSUME NEW j \in Inode \ {0} PROVE
            /\ Len(Chain[j]) > 0 /\ Chain[j][1] = j
            /\ Len(Chain[j]) = 1 + Len(Chain[Image[j].next])
            /\ \A k \in 1 .. Len(Chain[Image[j].next]) : Chain[j][k + 1] = Chain[Image[j].next][k]
    OBVIOUS
  <2>1. PICK r \in Seq(Inode \ {0}) : r = Chain[Image[j].next]
    BY <1>2
  <2>2. Chain[j] = <<j>> \o r
    BY <1>2, <2>1
  <2>3. <<j>> \in Seq(Inode \ {0}) /\ Len(<<j>>) = 1 /\ <<j>>[1] = j /\ Len(r) \in Nat
    OBVIOUS
  <2>4. Len(<<j>> \o r) = 1 + Len(r) /\ (<<j>> \o r)[1] = j
        /\ \A k \in 1 .. Len(r) : (<<j>> \o r)[k + 1] = r[k]
    BY <2>3
  <2> QED BY <2>1, <2>2, <2>3, <2>4
<1>5. ASSUME NEW k \in 1 .. Len(c)
      PROVE  c[k] \in Inode \ {0} /\ Image[c[k]].next = IF k < Len(c) THEN c[k + 1] ELSE 0
  <2>1. k - 1 \in 0 .. (Len(c) - 1) /\ (k - 1) + 1 = k
    BY <1>1
  <2>2. c[k] \in Inode \ {0} /\ SubSeq(c, 1, k - 1) \o Chain[c[k]] = c
    BY <2>1, ChainSuffix
  <2>3. PICK j, d, r : /\ j = c[k] /\ d = Chain[j] /\ r = Chain[Image[j].next]
                       /\ j \in Inode \ {0}
    BY <2>2
  <2>4. /\ d \in Seq(Inode \ {0}) /\ r \in Seq(Inode \ {0}) /\ Len(d) = 1 + Len(r)
        /\ \A n \in 1 .. Len(r) : d[n + 1] = r[n]
    <3>1. d \in Seq(Inode \ {0})
      BY <2>3, ChainFacts DEF Chains
    <3>2. r \in Seq(Inode \ {0})
      BY <1>2, <2>3
    <3>3. Len(d) = 1 + Len(r) /\ \A n \in 1 .. Len(r) : d[n + 1] = r[n]
      <4>1. /\ Len(Chain[j]) = 1 + Len(Chain[Image[j].next])
            /\ \A n \in 1 .. Len(Chain[Image[j].next]) :
                  Chain[j][n + 1] = Chain[Image[j].next][n]
        <5>1. j \in Inode \ {0}
          BY <2>3
        <5> QED BY <1>4, <5>1, Zenon
      <4>2. d = Chain[j] /\ r = Chain[Image[j].next]
        BY <2>3
      <4> HIDE DEF c
      <4> QED BY <4>1, <4>2, Zenon
    <3> QED BY <3>1, <3>2, <3>3
  <2>5. PICK p : p = SubSeq(c, 1, k - 1)
    OBVIOUS
  <2> HIDE DEF c
  <2>6. p \in Seq(Inode \ {0}) /\ Len(p) = k - 1
    <3>1. \A n \in 1 .. (k - 1) : c[n] \in Inode \ {0}
      BY <1>1, ElementOfSeq
    <3> QED BY <1>1, <2>1, <2>5, <3>1, SubSeqProperties
  <2>7. p \o d = c
    BY <2>2, <2>3, <2>5
  <2>8. Len(c) = (k - 1) + Len(d) /\ \A n \in 1 .. Len(d) : c[(k - 1) + n] = d[n]
    <3>1. Len(p \o d) = Len(p) + Len(d) /\ \A n \in 1 .. Len(d) : (p \o d)[Len(p) + n] = d[n]
      <4>1. \A H : (p \in Seq(H) /\ d \in Seq(H)) =>
               Len(p \o d) = Len(p) + Len(d) /\ \A n \in 1 .. Len(d) : (p \o d)[Len(p) + n] = d[n]
        BY ConcatFromSecond
      <4> QED BY <2>4, <2>6, <4>1, Zenon
    <3> QED BY <2>6, <2>7, <3>1
  <2>9. Len(r) \in Nat
    BY <2>4
  <2>10. CASE k < Len(c)
    <3>1. Len(r) > 0
      BY <2>4, <2>8, <2>9, <2>10
    <3>2. Image[j].next # 0
      BY <1>3, <2>3, <3>1
    <3>3. r[1] = Image[j].next
      BY <1>2, <1>4, <2>3, <3>2
    <3>4. c[k + 1] = d[2] /\ d[2] = r[1]
      <4>1. 2 \in 1 .. Len(d) /\ 1 \in 1 .. Len(r) /\ (k - 1) + 2 = k + 1 /\ 1 + 1 = 2
        BY <2>4, <2>9, <3>1
      <4> QED BY <2>4, <2>8, <4>1
    <3> QED BY <2>2, <2>3, <2>10, <3>3, <3>4
  <2>11. CASE k = Len(c)
    <3>1. Len(r) = 0
      BY <2>4, <2>8, <2>9, <2>11
    <3>2. Image[j].next = 0
      <4>1. Image[j].next \in Inode
        BY <1>2, <2>3
      <4>2. Image[j].next # 0 => Len(r) > 0
        BY <1>4, <2>3, <4>1
      <4> QED BY <3>1, <4>2
    <3> QED BY <2>2, <2>3, <2>11, <3>2
  <2> QED BY <1>1, <2>10, <2>11
<1>6. (Len(c) = 0 <=> i = 0) /\ (Len(c) > 0 => c[1] = i)
  <2>1. i = 0 => Len(c) = 0
    BY <1>3
  <2>2. i # 0 => Len(c) > 0 /\ c[1] = i
    BY <1>4
  <2> QED BY <1>1, <2>1, <2>2
<1> QED BY <1>1, <1>5, <1>6

(* The loop of getdents does what Listed and ListedTo say. *)
LEMMA LoopLists ==
    ASSUME NEW i \in Inode, NEW size \in Nat
    PROVE  GetdentsLoop(i, size) = <<Listed(i, size), ListedTo(i, size)>>
<1> DEFINE c == Chain[i]
           L == Len(c)
<1>1. /\ c \in Seq(Inode \ {0}) /\ L \in Nat /\ (L = 0 <=> i = 0) /\ (L > 0 => c[1] = i)
      /\ \A k \in 1 .. L : c[k] \in Inode \ {0} /\
             Image[c[k]].next = IF k < L THEN c[k + 1] ELSE 0
  BY ChainFollowsNext
<1>2. PICK t : Lengths(t, c, L)
  <2> HIDE DEF c
  <2> QED BY <1>1, LengthsExist
<1> DEFINE g == [d \in 0 .. L |-> IF d < L THEN c[d + 1] ELSE 0]
           At(f) == [d \in 0 .. L |-> IF d = 0 THEN i ELSE Image[f[d - 1]].next]
           at == CHOOSE f : f = At(f)
           Add(f) == [d \in 0 .. L |-> IF d = 0 THEN 0 ELSE f[d - 1] + RecordLength(at[d - 1])]
           total == CHOOSE f : f = Add(f)
           full(d) == RecordLength(at[d]) + total[d] > size
           ends == {d \in 0 .. L : full(d) \/ at[d] = 0}
           last == Min(ends)
<1>3. GetdentsLoop(i, size) = <<[k \in 1 .. last |-> at[k - 1]], IF full(last) THEN at[last] ELSE End>>
  BY Zenon DEF GetdentsLoop
<1>4. at = g
  <2>1. g = At(g)
    <3> SUFFICES ASSUME NEW d \in 0 .. L PROVE g[d] = IF d = 0 THEN i ELSE Image[g[d - 1]].next
      OBVIOUS
    <3> HIDE DEF c, L
    <3>1. CASE d = 0
      BY <1>1, <3>1
    <3>2. CASE d # 0
      <4>1. d - 1 \in 0 .. L /\ d - 1 < L /\ (d - 1) + 1 = d /\ d \in 1 .. L
        BY <1>1, <3>2
      <4>2. g[d - 1] = c[d]
        BY <4>1
      <4>3. g[d] = IF d < L THEN c[d + 1] ELSE 0
        OBVIOUS
      <4> HIDE DEF g
      <4> QED BY <1>1, <3>2, <4>1, <4>2, <4>3
    <3> QED BY <3>1, <3>2
  <2>2. at = At(at)
    BY <2>1, Zenon
  <2> HIDE DEF at, c, L
  <2> DEFINE S == {d \in 0 .. L : at[d] = g[d]}
  <2>3. 0 \in S
    BY <1>1, <2>1, <2>2
  <2>4. ASSUME NEW d \in 0 .. (L - 1), d \in S  PROVE d + 1 \in S
    <3>1. d + 1 \in 0 .. L /\ d + 1 # 0 /\ (d + 1) - 1 = d
      BY <1>1
    <3>2. at[d] = g[d]
      BY <2>4
    <3> HIDE DEF g
    <3>3. at[d + 1] = Image[at[d]].next
      BY <2>2, <3>1
    <3>4. g[d + 1] = Image[g[d]].next
      BY <2>1, <3>1
    <3> QED BY <3>1, <3>2, <3>3, <3>4
  <2>5. \A d \in 0 .. L : d \in S
    <3> HIDE DEF S
    <3> QED BY <1>1, <2>3, <2>4, EveryTurn
  <2>6. \A d \in 0 .. L : at[d] = g[d]
    BY <2>5
  <2>7. at = [d \in 0 .. L |-> at[d]]
    BY <2>2
  <2> QED BY <2>6, <2>7
<1> HIDE DEF at
<1>5. total = t
  <2>1. ASSUME NEW f PROVE Add(f) = [k \in 0 .. L |-> IF k = 0 THEN 0 ELSE f[k - 1] + RecordLength(c[k])]
    <3> HIDE DEF c, L
    <3>1. \A k \in 0 .. L : k # 0 => at[k - 1] = c[k]
      <4> SUFFICES ASSUME NEW k \in 0 .. L, k # 0 PROVE g[k - 1] = c[k]
        BY <1>4
      <4>1. k - 1 \in 0 .. L /\ k - 1 < L /\ (k - 1) + 1 = k
        BY <1>1
      <4> QED BY <4>1
    <3> QED BY <3>1
  <2> HIDE DEF Add
  <2>2. t = Add(t)
    BY <1>2, <2>1 DEF Lengths
  <2>3. total = Add(total)
    BY <2>2, Zenon
  <2> HIDE DEF total, c, L
  <2>4. total = [k \in 0 .. L |-> IF k = 0 THEN 0 ELSE total[k - 1] + RecordLength(c[k])]
    BY <2>1, <2>3
  <2>5. L \in Nat
    BY <1>1
  <2>6. PICK u : u = total
    OBVIOUS
  <2>7. u = [k \in 0 .. L |-> IF k = 0 THEN 0 ELSE u[k - 1] + RecordLength(c[k])]
    BY <2>4, <2>6
  <2>8. u = t
    BY <1>2, <2>5, <2>7, LengthsUnique
  <2> QED BY <2>6, <2>8
<1> HIDE DEF total, c, L
<1>6. \A d \in 0 .. L : at[d] = IF d < L THEN c[d + 1] ELSE 0
  BY <1>4
<1>7. \A d \in 0 .. L : t[d] \in Nat
  BY <1>2 DEF Lengths
<1>8. \A d \in 0 .. (L - 1) : t[d + 1] = RecordLength(at[d]) + t[d] /\ RecordLength(at[d]) \in Nat
  <2> SUFFICES ASSUME NEW d \in 0 .. (L - 1)
               PROVE  t[d + 1] = RecordLength(at[d]) + t[d] /\ RecordLength(at[d]) \in Nat
    OBVIOUS
  <2>1. d + 1 \in 1 .. L /\ (d + 1) - 1 = d /\ d \in 0 .. L /\ d < L
    BY <1>1
  <2>2. at[d] = c[d + 1] /\ at[d] \in Inode
    BY <1>1, <1>6, <2>1
  <2>3. t[d + 1] = t[d] + RecordLength(c[d + 1])
    BY <1>2, <2>1 DEF Lengths
  <2>4. RecordLength(c[d + 1]) \in Nat /\ t[d] \in Nat
    BY <1>7, <2>1, <2>2, RecordsTakeRoom
  <2> QED BY <2>2, <2>3, <2>4
<1>9. at[L] = 0 /\ L \in ends /\ ends \subseteq Nat
  BY <1>1, <1>6
<1>10. PICK e : e = last
  OBVIOUS
<1>11. e \in ends /\ \A d \in ends : e <= d
  <2> HIDE DEF ends
  <2> QED BY <1>9, <1>10, LeastOfNats
<1>12. e \in 0 .. L
  BY <1>11
<1>13. t[e] <= size
  <2>1. CASE e = 0
    BY <1>2, <2>1 DEF Lengths
  <2>2. CASE e # 0
    <3>1. e - 1 \in 0 .. (L - 1) /\ e - 1 \in 0 .. L /\ (e - 1) + 1 = e
      BY <1>1, <1>12, <2>2
    <3>2. ~ full(e - 1)
      <4>1. e - 1 \notin ends
        <5> HIDE DEF ends
        <5> QED BY <1>11, <1>12
      <4> QED BY <3>1, <4>1
    <3>3. t[e] = RecordLength(at[e - 1]) + t[e - 1] /\ RecordLength(at[e - 1]) \in Nat /\ t[e - 1] \in Nat
      BY <1>7, <1>8, <3>1
    <3> QED BY <1>5, <3>2, <3>3
  <2> QED BY <2>1, <2>2
<1>14. e < L => full(e) /\ t[e + 1] > size
  <2> SUFFICES ASSUME e < L PROVE full(e) /\ t[e + 1] > size
    OBVIOUS
  <2>1. at[e] # 0 /\ e \in 0 .. (L - 1)
    BY <1>1, <1>6, <1>12
  <2>2. full(e)
    BY <1>11, <2>1
  <2>3. t[e + 1] = RecordLength(at[e]) + t[e]
    BY <1>8, <2>1
  <2> QED BY <1>5, <2>2, <2>3
<1>15. \A k \in 0 .. L : Total(SubSeq(c, 1, k)) = t[k]
  <2> SUFFICES ASSUME NEW k \in 0 .. L PROVE Total(SubSeq(c, 1, k)) = t[k]
    OBVIOUS
  <2>1. PICK p : p = SubSeq(c, 1, k)
    OBVIOUS
  <2>2. Len(p) = k /\ \A n \in 1 .. k : p[n] = c[n]
    <3>1. \A n \in 1 .. k : c[n] \in Inode \ {0}
      BY <1>1
    <3> QED BY <1>1, <2>1, <3>1, SubSeqProperties
  <2> DEFINE u == [n \in 0 .. k |-> t[n]]
  <2>3. Lengths(u, p, k)
    <3>1. k \in Nat /\ 0 .. k \subseteq 0 .. L /\ 1 .. k \subseteq 1 .. L
      BY <1>1
    <3>2. u \in [0 .. k -> Nat] /\ u[0] = 0
      BY <1>2, <3>1 DEF Lengths
    <3>3. ASSUME NEW n \in 1 .. k PROVE u[n] = u[n - 1] + RecordLength(p[n])
      <4>1. n \in 1 .. L /\ n \in 0 .. k /\ n - 1 \in 0 .. k /\ p[n] = c[n]
        BY <2>2, <3>1
      <4>2. t[n] = t[n - 1] + RecordLength(c[n])
        BY <1>2, <4>1 DEF Lengths
      <4>3. u[n] = t[n] /\ u[n - 1] = t[n - 1]
        BY <4>1
      <4> HIDE DEF u
      <4> QED BY <4>1, <4>2, <4>3
    <3> QED BY <3>2, <3>3 DEF Lengths
  <2>4. u[k] = t[k] /\ k \in Nat
    BY <1>1
  <2> HIDE DEF u
  <2>5. Total(p) = u[k]
    BY <2>2, <2>3, <2>4, TotalIsLength
  <2> QED BY <2>1, <2>4, <2>5
<1> DEFINE fits == {k \in 0 .. L : Total(SubSeq(c, 1, k)) <= size}
<1>16. e \in fits /\ fits \subseteq 0 .. L
  BY <1>12, <1>13, <1>15
<1>17. \A k \in fits : k <= e
  <2> SUFFICES ASSUME NEW k \in 0 .. L, t[k] <= size, e < k PROVE FALSE
    BY <1>1, <1>12, <1>15
  <2>1. e < L /\ e + 1 \in 0 .. L /\ k \in (e + 1) .. L
    BY <1>1, <1>12
  <2>2. t[e + 1] <= t[k]
    BY <1>1, <1>2, <2>1, LengthsGrow
  <2> QED BY <1>7, <1>14, <2>1, <2>2
<1>18. Max(fits) = e
  <2> HIDE DEF fits
  <2>1. Max(fits) \in fits
    BY <1>1, <1>16, GreatestUpTo
  <2>2. Max(fits) \in fits /\ \A k \in fits : Max(fits) >= k
    <3>1. \A k \in fits : e >= k
      BY <1>12, <1>16, <1>17
    <3> QED BY <1>16, <3>1 DEF Max
  <2>3. PICK x : x = Max(fits)
    OBVIOUS
  <2>4. x \in Int /\ e \in Int /\ x >= e /\ x <= e
    <3>1. x \in 0 .. L /\ x >= e /\ x <= e
      BY <1>16, <1>17, <2>2, <2>3
    <3> QED BY <1>1, <1>12, <3>1
  <2> QED BY <2>3, <2>4
<1>19. Listed(i, size) = SubSeq(c, 1, e) /\ Len(SubSeq(c, 1, e)) = e /\ \A k \in 1 .. e : SubSeq(c, 1, e)[k] = c[k]
  <2>1. Listed(i, size) = SubSeq(c, 1, e)
    BY <1>18 DEF Listed, c, L
  <2>2. \A n \in 1 .. e : c[n] \in Inode \ {0}
    BY <1>1, <1>12
  <2> QED BY <1>1, <1>12, <2>1, <2>2, SubSeqProperties
<1>20. [k \in 1 .. e |-> at[k - 1]] = Listed(i, size)
  <2>1. \A k \in 1 .. e : at[k - 1] = c[k]
    BY <1>1, <1>6, <1>12
  <2>2. SubSeq(c, 1, e) = [k \in 1 .. e |-> c[k]]
    <3>1. SubSeq(c, 1, e) \in Seq(Inode \ {0})
      BY <1>1, <1>12, SubSeqProperties
    <3> QED BY <3>1, <1>19
  <2> QED BY <1>19, <2>1, <2>2
<1>21. ListedTo(i, size) = IF full(e) THEN at[e] ELSE End
  <2>1. CASE e < L
    <3>1. ListedTo(i, size) = c[e + 1]
      BY <1>1, <1>12, <1>19, <2>1 DEF ListedTo, c, L
    <3>2. at[e] = c[e + 1]
      BY <1>6, <1>12, <2>1
    <3> QED BY <1>14, <2>1, <3>1, <3>2
  <2>2. CASE e = L
    <3>1. Total(Listed(i, size)) = t[e]
      BY <1>12, <1>15, <1>19
    <3>2. at[e] = 0 /\ total[e] = t[e] /\ t[e] \in Nat /\ RecordLength(0) \in Nat
      BY <1>5, <1>7, <1>9, <1>12, <2>2, RecordsTakeRoom
    <3>3. ListedTo(i, size) = IF t[e] + RecordLength(0) > size THEN 0 ELSE End
      BY <1>1, <1>19, <2>2, <3>1 DEF ListedTo, c, L
    <3> QED BY <3>2, <3>3
  <2> QED BY <1>1, <1>12, <2>1, <2>2
<1> QED BY <1>3, <1>10, <1>20, <1>21

----------------------------------------------------------------------------
(* Types of the table. *)
TableOK ==
    /\ 0 .. (StdFds - 1) \subseteq valid /\ valid \subseteq Fd
    /\ inode \in [Fd -> {i \in Inode : ~ IsLink(i)}]
    /\ current_dir \in [Proc -> {i \in Inode : IsDirectory(i)}]
    /\ file_ptr \in [Fd -> Nat \cup {Unknown}]
    /\ got \in [Fd -> Seq(Int)] /\ listed \in [Fd -> Seq(Inode \ {0})]

(* A descriptor not opened yet has been read by nobody. *)
Untouched == \A fd \in Fd \ valid : got[fd] = <<>> /\ listed[fd] = <<>>

(* A listing stops at a header. *)
AtHeader ==
    \A fd \in valid : (IsDirectory(inode[fd]) /\ file_ptr[fd] \notin {0, End, Unknown}) =>
        file_ptr[fd] \in Inode \ {0}

FilesInv == TableOK /\ Untouched /\ AtHeader /\ ReadsInOrder /\ ListingComplete

(* A directory is neither a link nor a file, End is no header, and Unknown *)
(* is neither.                                                             *)
LEMMA Distinct ==
    /\ End \notin Inode /\ End \in Nat /\ End # 0 /\ Unknown \notin Nat
    /\ \A i \in Inode : IsDirectory(i) => ~ IsLink(i) /\ ~ IsFile(i)
<1>1. End \notin Inode /\ End \in Nat /\ End # 0
  <2>1. ImageLength \in 0 .. (WordSize - 1)
    BY RomfsAssumption DEF WellFormed
  <2>2. ImageLength > 0
    BY InodeNat
  <2> QED BY <2>1, <2>2, InodeNat DEF End
<1>2. Unknown \notin Nat
  BY FilesAssumption
<1>3. \A i \in Inode : IsDirectory(i) => ~ IsLink(i) /\ ~ IsFile(i)
  BY DEF IsDirectory, IsLink, IsFile
<1> QED BY <1>1, <1>2, <1>3

(* Data starts at an offset. *)
LEMMA DataStartNat == \A i \in Inode : DataStart(i) \in Nat
<1> SUFFICES ASSUME NEW i \in Inode PROVE DataStart(i) \in Nat
  OBVIOUS
<1>1. Length[Image[i].name] \in Nat
  BY RomfsAssumption DEF WellFormed
<1>2. Chunk \in Nat /\ Chunk > 0
  BY FormatAssumption
<1>3. Length[Image[i].name] \div Chunk \in Nat
  BY <1>1, <1>2
<1>4. StringChunks(Image[i].name) \in Nat
  BY <1>2, <1>3 DEF StringChunks
<1> QED BY <1>2, <1>4, InodeNat DEF DataStart

(* Where a path starts is a directory, so get_inode answers. *)
LEMMA GetInodeAnswers ==
    ASSUME TableOK, NEW p \in Proc, NEW path \in Paths
    PROVE  /\ get_inode(p, path) \in Answer
           /\ Leads(p, path) = Denoted(get_inode(p, path))
           /\ get_inode(p, path) = Undefined <=> Strays(p, path)
<1>1. root_dir \in Inode /\ IsDirectory(root_dir)
  BY NamesAssumption DEF NamesUnique, root_dir
<1>2. current_dir[p] \in Inode /\ IsDirectory(current_dir[p])
  BY DEF TableOK
<1>3. StartOf(p, path) \in Inode \ {0} /\ IsDirectory(StartOf(p, path))
  BY <1>1, <1>2, ImageFacts DEF StartOf
<1>4. ~ IsLink(StartOf(p, path))
  BY <1>3, Distinct
<1>5. Len(path.parts) \in Nat
  BY FilesAssumption
<1> QED BY <1>3, <1>4, <1>5, PathsDenote

LEMMA InitFiles == Init => FilesInv
<1> SUFFICES ASSUME Init PROVE FilesInv
  OBVIOUS
<1>1. 0 .. (StdFds - 1) \subseteq Fd
  BY FilesAssumption DEF Fd
<1>2. root_dir \in {i \in Inode : IsDirectory(i)}
  BY NamesAssumption DEF NamesUnique, root_dir
<1>3. 0 \in {i \in Inode : ~ IsLink(i)}
  BY ImageFacts
<1>4. <<>> \in Seq(Int) /\ <<>> \in Seq(Inode \ {0})
  BY NoHeaders
<1>5. TableOK
  BY <1>1, <1>2, <1>3, <1>4 DEF Init, TableOK
<1>6. \A fd \in valid : fd \in Fd /\ inode[fd] = 0 /\ ~ IsDirectory(inode[fd]) /\ ~ IsFile(inode[fd])
  BY <1>1, ImageFacts DEF Init
<1>7. Untouched
  BY DEF Init, Untouched
<1> QED BY <1>5, <1>6, <1>7 DEF FilesInv, AtHeader, ReadsInOrder, ListingComplete

(* open: a descriptor nobody has used, at the start. *)
LEMMA OpenInv == FilesInv /\ Open => FilesInv'
<1> SUFFICES ASSUME FilesInv, Open PROVE FilesInv'
  OBVIOUS
<1>1. PICK p \in Proc, path \in Paths : open(p, path)
  BY DEF Open
<1> DEFINE i == get_inode(p, path)
           fd == fd_allocate
<1>2. /\ i >= 0 /\ Fd \ valid # {}
      /\ valid' = valid \cup {fd} /\ inode' = [inode EXCEPT ![fd] = i]
      /\ file_ptr' = [file_ptr EXCEPT ![fd] = 0]
      /\ UNCHANGED <<got, listed, current_dir>>
  BY <1>1 DEF open, Found
<1>3. TableOK /\ Untouched /\ AtHeader /\ ReadsInOrder /\ ListingComplete
  BY DEF FilesInv
<1>4. i \in Inode /\ ~ IsLink(i)
  <2>1. i \in Answer
    BY <1>3, GetInodeAnswers
  <2>2. i \in Inode
    BY <1>2, <2>1, AnswerSign
  <2>3. i \notin {-1, -ENOTDIR, Undefined}
    BY <1>2 DEF ENOTDIR, Undefined
  <2> QED BY <2>1, <2>2, <2>3 DEF Answer
<1>5. fd \in Fd \ valid
  <2>1. Fd \ valid \subseteq Nat
    BY FilesAssumption DEF Fd
  <2> QED BY <1>2, <2>1, LeastOfNats DEF fd_allocate
<1> HIDE DEF i, fd
<1>6. TableOK'
  BY <1>2, <1>3, <1>4, <1>5 DEF TableOK
<1>7. /\ inode'[fd] = i /\ file_ptr'[fd] = 0 /\ got'[fd] = <<>> /\ listed'[fd] = <<>>
      /\ \A g \in Fd : g # fd => inode'[g] = inode[g] /\ file_ptr'[g] = file_ptr[g]
  BY <1>2, <1>3, <1>5 DEF TableOK, Untouched
<1>8. Untouched'
  BY <1>2, <1>3 DEF Untouched
<1>9. valid \subseteq Fd
  BY <1>3 DEF TableOK
<1>10. AtHeader'
  BY <1>2, <1>3, <1>7, <1>9 DEF AtHeader
<1>11. ReadsInOrder'
  <2> SUFFICES ASSUME NEW g \in valid', IsFile(inode'[g]), file_ptr'[g] # Unknown
               PROVE  /\ file_ptr'[g] <= Image[inode'[g]].size
                      /\ got'[g] = [k \in 1 .. file_ptr'[g] |-> DataStart(inode'[g]) + k - 1]
    BY DEF ReadsInOrder
  <2>1. CASE g = fd
    <3>1. Image[i].size \in Nat
      BY <1>4, RomfsAssumption, FormatAssumption DEF WellFormed
    <3>2. <<>> = [k \in 1 .. 0 |-> DataStart(i) + k - 1]
      OBVIOUS
    <3> QED BY <1>7, <2>1, <3>1, <3>2
  <2>2. CASE g # fd
    BY <1>2, <1>3, <1>7, <1>9, <2>2 DEF ReadsInOrder
  <2> QED BY <2>1, <2>2
<1>12. ListingComplete'
  <2> SUFFICES ASSUME NEW g \in valid', IsDirectory(inode'[g]), file_ptr'[g] # Unknown
               PROVE  \/ listed'[g] \o (IF file_ptr'[g] \in {0, End} THEN <<>>
                                        ELSE Chain[file_ptr'[g]]) = Entries(inode'[g])
                      \/ file_ptr'[g] = 0 /\ listed'[g] = <<>>
    BY DEF ListingComplete
  <2>1. CASE g = fd
    BY <1>7, <2>1
  <2>2. CASE g # fd
    <3>1. g \in valid /\ g \in Fd
      BY <1>2, <1>9, <2>2
    <3> QED BY <1>2, <1>3, <1>7, <2>2, <3>1 DEF ListingComplete
  <2> QED BY <2>1, <2>2
<1> QED BY <1>6, <1>8, <1>10, <1>11, <1>12 DEF FilesInv

(* A file_ptr that is no longer known is claimed nothing of. *)
LEMMA UnknownStep ==
    ASSUME FilesInv, NEW fd \in Fd, file_ptr' = [file_ptr EXCEPT ![fd] = Unknown],
           UNCHANGED <<got, valid, inode, listed, current_dir>>
    PROVE  FilesInv'
<1>1. TableOK /\ Untouched /\ AtHeader /\ ReadsInOrder /\ ListingComplete
  BY DEF FilesInv
<1>2. file_ptr'[fd] = Unknown /\ (\A g \in Fd : g # fd => file_ptr'[g] = file_ptr[g])
      /\ file_ptr' \in [Fd -> Nat \cup {Unknown}] /\ valid \subseteq Fd
  BY <1>1 DEF TableOK
<1>3. TableOK'
  BY <1>1, <1>2 DEF TableOK
<1>4. Untouched'
  BY <1>1 DEF Untouched
<1>5. AtHeader'
  BY <1>1, <1>2 DEF AtHeader
<1>6. ReadsInOrder'
  <2> SUFFICES ASSUME NEW g \in valid, IsFile(inode[g]), file_ptr'[g] # Unknown
               PROVE  /\ file_ptr'[g] <= Image[inode[g]].size
                      /\ got[g] = [k \in 1 .. file_ptr'[g] |-> DataStart(inode[g]) + k - 1]
    BY DEF ReadsInOrder
  <2>1. file_ptr'[g] = file_ptr[g]
    BY <1>2
  <2> QED BY <1>1, <2>1 DEF ReadsInOrder
<1>7. ListingComplete'
  <2> SUFFICES ASSUME NEW g \in valid, IsDirectory(inode[g]), file_ptr'[g] # Unknown
               PROVE  \/ listed[g] \o (IF file_ptr'[g] \in {0, End} THEN <<>>
                                       ELSE Chain[file_ptr'[g]]) = Entries(inode[g])
                      \/ file_ptr'[g] = 0 /\ listed[g] = <<>>
    BY DEF ListingComplete
  <2>1. file_ptr'[g] = file_ptr[g]
    BY <1>2
  <2> QED BY <1>1, <2>1 DEF ListingComplete
<1> QED BY <1>3, <1>4, <1>5, <1>6, <1>7 DEF FilesInv

(* Reading on from where the last read stopped. *)
LEMMA Appended ==
    ASSUME NEW d \in Nat, NEW a \in Nat, NEW n \in Nat
    PROVE  [k \in 1 .. a |-> d + k - 1] \o [k \in 1 .. n |-> d + a + k - 1]
              = [k \in 1 .. (a + n) |-> d + k - 1]
<1> DEFINE s == [k \in 1 .. a |-> d + k - 1]
           t == [k \in 1 .. n |-> d + a + k - 1]
           u == [k \in 1 .. (a + n) |-> d + k - 1]
<1>1. s \in Seq(Int) /\ Len(s) = a /\ t \in Seq(Int) /\ Len(t) = n /\ u \in Seq(Int) /\ Len(u) = a + n
  OBVIOUS
<1>2. /\ \A k \in 1 .. a : s[k] = d + k - 1
      /\ \A k \in 1 .. n : t[k] = d + a + k - 1
      /\ \A k \in 1 .. (a + n) : u[k] = d + k - 1
  OBVIOUS
<1> HIDE DEF s, t, u
<1>3. s \o t \in Seq(Int) /\ Len(s \o t) = a + n
      /\ \A k \in 1 .. (a + n) : (s \o t)[k] = IF k <= a THEN s[k] ELSE t[k - a]
  BY <1>1, ConcatProperties
<1>4. ASSUME NEW k \in 1 .. (a + n)  PROVE (s \o t)[k] = u[k]
  <2>1. CASE k <= a
    <3>1. k \in 1 .. a
      BY <2>1
    <3> QED BY <1>2, <1>3, <2>1, <3>1
  <2>2. CASE ~ (k <= a)
    <3>1. k - a \in 1 .. n /\ d + a + (k - a) - 1 = d + k - 1
      BY <2>2
    <3> QED BY <1>2, <1>3, <2>2, <3>1
  <2> QED BY <2>1, <2>2
<1>5. s \o t = u
  BY <1>1, <1>3, <1>4, SeqEqual
<1> QED BY <1>5 DEF s, t, u

(* What a read returns is within the file, if file_ptr is. *)
LEMMA ReadWithin ==
    ASSUME NEW i \in Inode, NEW from \in Nat, from <= Image[i].size, NEW count \in Counts
    PROVE  /\ romfs_read_file(i, from, count) \in Nat
           /\ from + romfs_read_file(i, from, count) <= Image[i].size
           /\ (from + romfs_read_file(i, from, count)) % WordSize
                 = from + romfs_read_file(i, from, count)
<1> DEFINE size == Image[i].size
           left == (size - from) % WordSize
           n == romfs_read_file(i, from, count)
<1>1. size \in 0 .. (WordSize - 1) /\ WordSize \in Nat
  BY RomfsAssumption, FormatAssumption DEF WellFormed
<1>2. count \in Nat
  BY FilesAssumption
<1>3. n = 0 \/ n = (IF count > left THEN left ELSE count)
  BY DEF romfs_read_file, ReadCount
<1> HIDE DEF size, n
<1>4. from <= size
  BY DEF size
<1>5. left = size - from
  BY <1>1, <1>4
<1>6. n \in Nat /\ from + n <= size
  <2> HIDE DEF left
  <2> QED BY <1>1, <1>2, <1>3, <1>4, <1>5
<1>7. (from + n) % WordSize = from + n
  BY <1>1, <1>6
<1> QED BY <1>6, <1>7 DEF size, n

(* read, of a file or of something else. *)
LEMMA ReadInv == FilesInv /\ Read => FilesInv'
<1> SUFFICES ASSUME FilesInv, Read PROVE FilesInv'
  OBVIOUS
<1>1. PICK fd \in Fd, count \in Counts : read(fd, count)
  BY DEF Read
<1> DEFINE i == inode[fd]
           from == file_ptr[fd]
           n == romfs_read_file(i, from, count)
           more == [k \in 1 .. n |-> DataStart(i) + from + k - 1]
<1>2. /\ fd \in valid /\ from # Unknown /\ n > 0 /\ UNCHANGED <<valid, inode, listed, current_dir>>
      /\ IF IsFile(i)
         THEN /\ file_ptr' = [file_ptr EXCEPT ![fd] = (from + n) % WordSize]
              /\ got' = [got EXCEPT ![fd] = got[fd] \o more]
         ELSE file_ptr' = [file_ptr EXCEPT ![fd] = Unknown] /\ UNCHANGED got
  BY <1>1 DEF read
<1>3. TableOK /\ Untouched /\ AtHeader /\ ReadsInOrder /\ ListingComplete
  BY DEF FilesInv
<1>4. i \in Inode /\ from \in Nat /\ valid \subseteq Fd
  BY <1>2, <1>3 DEF TableOK
<1>5. CASE IsFile(i)
  <2>1. from <= Image[i].size /\ got[fd] = [k \in 1 .. from |-> DataStart(i) + k - 1]
    BY <1>2, <1>3, <1>5 DEF ReadsInOrder
  <2>2. n \in Nat /\ from + n <= Image[i].size /\ (from + n) % WordSize = from + n
    BY <1>4, <2>1, ReadWithin
  <2>3. DataStart(i) \in Nat
    BY <1>4, DataStartNat
  <2> DEFINE d == DataStart(i)
             all == [k \in 1 .. (from + n) |-> d + k - 1]
  <2>4. got[fd] \o more = all
    <3> HIDE DEF n, from, d
    <3>1. d \in Nat /\ from \in Nat /\ n \in Nat
      BY <1>4, <2>2, <2>3 DEF d
    <3>2. [k \in 1 .. from |-> d + k - 1] \o [k \in 1 .. n |-> d + from + k - 1] = all
      BY <3>1, Appended
    <3>3. got[fd] = [k \in 1 .. from |-> d + k - 1]
      BY <2>1 DEF d
    <3>4. more = [k \in 1 .. n |-> d + from + k - 1]
      BY DEF d
    <3> HIDE DEF more, all
    <3> QED BY <3>2, <3>3, <3>4
  <2>5. file_ptr' = [file_ptr EXCEPT ![fd] = from + n] /\ got' = [got EXCEPT ![fd] = all]
    <3> HIDE DEF all, n, from, more
    <3> QED BY <1>2, <1>5, <2>2, <2>4
  <2>6. all \in Seq(Int)
    <3> HIDE DEF n, from, d
    <3> QED BY <1>4, <2>2, <2>3 DEF d
  <2>7. /\ file_ptr'[fd] = from + n /\ got'[fd] = all
        /\ \A g \in Fd : g # fd => file_ptr'[g] = file_ptr[g] /\ got'[g] = got[g]
    <3> HIDE DEF all, n, from
    <3> QED BY <1>3, <2>5 DEF TableOK
  <2>8. TableOK'
    <3>1. file_ptr' \in [Fd -> Nat \cup {Unknown}]
      <4>1. from + n \in Nat
        BY <1>4, <2>2
      <4> HIDE DEF n, from
      <4> QED BY <1>3, <2>5, <4>1 DEF TableOK
    <3>2. got' \in [Fd -> Seq(Int)]
      <4> HIDE DEF all
      <4> QED BY <1>3, <2>5, <2>6 DEF TableOK
    <3> QED BY <1>2, <1>3, <3>1, <3>2 DEF TableOK
  <2>9. ~ IsDirectory(i)
    BY <1>4, <1>5, Distinct
  <2> HIDE DEF n, from, more
  <2>10. Untouched'
    BY <1>2, <1>3, <2>7 DEF Untouched
  <2>11. AtHeader'
    BY <1>2, <1>3, <1>4, <2>7, <2>9 DEF AtHeader
  <2>12. ReadsInOrder'
    <3> SUFFICES ASSUME NEW g \in valid, IsFile(inode[g]), file_ptr'[g] # Unknown
                 PROVE  /\ file_ptr'[g] <= Image[inode[g]].size
                        /\ got'[g] = [k \in 1 .. file_ptr'[g] |-> DataStart(inode[g]) + k - 1]
      BY <1>2 DEF ReadsInOrder
    <3>1. CASE g = fd
      BY <2>2, <2>7, <3>1
    <3>2. CASE g # fd
      BY <1>3, <1>4, <2>7, <3>2 DEF ReadsInOrder
    <3> QED BY <3>1, <3>2
  <2>13. ListingComplete'
    <3> SUFFICES ASSUME NEW g \in valid, IsDirectory(inode[g]), file_ptr'[g] # Unknown
                 PROVE  \/ listed[g] \o (IF file_ptr'[g] \in {0, End} THEN <<>>
                                         ELSE Chain[file_ptr'[g]]) = Entries(inode[g])
                        \/ file_ptr'[g] = 0 /\ listed[g] = <<>>
      BY <1>2 DEF ListingComplete
    <3>1. g # fd /\ g \in Fd
      BY <1>4, <2>9
    <3>2. file_ptr'[g] = file_ptr[g]
      BY <2>7, <3>1
    <3> QED BY <1>3, <3>2 DEF ListingComplete
  <2> QED BY <2>8, <2>10, <2>11, <2>12, <2>13 DEF FilesInv
<1>6. CASE ~ IsFile(i)
  <2>1. file_ptr' = [file_ptr EXCEPT ![fd] = Unknown] /\ UNCHANGED <<got, valid, inode, listed, current_dir>>
    BY <1>2, <1>6
  <2> QED BY <1>3, <2>1, UnknownStep
<1> QED BY <1>5, <1>6

(* getdents: the listing goes on. *)
LEMMA GetdentsInv == FilesInv /\ Getdents => FilesInv'
<1> SUFFICES ASSUME FilesInv, Getdents PROVE FilesInv'
  OBVIOUS
<1>1. PICK fd \in Fd, size \in Sizes : getdents(fd, size)
  BY DEF Getdents
<1> DEFINE dir == inode[fd]
           from == ListFrom(fd)
           pre == IF file_ptr[fd] = 0 THEN <<>> ELSE listed[fd]
           to == ListedTo(from, size)
           now == pre \o Listed(from, size)
<1>2. /\ fd \in valid /\ file_ptr[fd] \notin {Unknown, End}
      /\ UNCHANGED <<valid, inode, got, current_dir>>
      /\ IF IsDirectory(dir)
         THEN /\ file_ptr' = [file_ptr EXCEPT ![fd] = to]
              /\ listed' = [listed EXCEPT ![fd] = now]
         ELSE file_ptr' = [file_ptr EXCEPT ![fd] = Unknown] /\ UNCHANGED listed
  BY <1>1 DEF getdents
<1>3. TableOK /\ Untouched /\ AtHeader /\ ReadsInOrder /\ ListingComplete
  BY DEF FilesInv
<1>4. valid \subseteq Fd /\ dir \in Inode /\ listed[fd] \in Seq(Inode \ {0})
  BY <1>3 DEF TableOK
<1>5. CASE ~ IsDirectory(dir)
  <2>1. file_ptr' = [file_ptr EXCEPT ![fd] = Unknown] /\ UNCHANGED <<got, valid, inode, listed, current_dir>>
    BY <1>2, <1>5
  <2> QED BY <2>1, UnknownStep
<1>6. CASE IsDirectory(dir)
  <2>1. from \in Inode /\ pre \in Seq(Inode \ {0}) /\ pre \o Chain[from] = Entries(dir)
    <3>1. CASE file_ptr[fd] = 0
      <4>1. from = Image[dir].spec /\ pre = <<>>
        BY <3>1 DEF ListFrom
      <4>2. from \in Inode /\ Entries(dir) = Chain[from]
        BY <1>4, <1>6, <4>1, ImageFacts DEF Entries
      <4>3. Chain[from] \in Seq(Inode \ {0})
        BY <4>2, ChainSuffix
      <4> HIDE DEF from, pre
      <4> QED BY <4>1, <4>2, <4>3, NoHeaders, ConcatEmptySeq
    <3>2. CASE file_ptr[fd] # 0
      <4>1. from = file_ptr[fd] /\ pre = listed[fd]
        BY <3>2 DEF ListFrom
      <4>2. from \in Inode
        BY <1>2, <1>3, <1>6, <3>2, <4>1 DEF AtHeader
      <4>3. listed[fd] \o Chain[file_ptr[fd]] = Entries(dir)
        BY <1>2, <1>3, <1>6, <3>2 DEF ListingComplete
      <4> HIDE DEF from, pre
      <4> QED BY <1>4, <4>1, <4>2, <4>3
    <3> QED BY <3>1, <3>2
  <2>2. size \in Nat
    BY FilesAssumption
  <2> HIDE DEF from, pre, dir
  <2>3. /\ Listed(from, size) \in Seq(Inode \ {0})
        /\ \/ /\ to \in Inode \ {0}
              /\ Listed(from, size) \o Chain[to] = Chain[from]
           \/ to \in {0, End} /\ Listed(from, size) = Chain[from]
    BY <2>1, <2>2, ListedThenRest
  <2> HIDE DEF to
  <2>4. now \in Seq(Inode \ {0})
    BY <2>1, <2>3, ConcatProperties
  <2>5. /\ to \in Nat /\ to # Unknown /\ (to \notin {0, End} => to \in Inode \ {0})
        /\ now \o (IF to \in {0, End} THEN <<>> ELSE Chain[to]) = Entries(dir)
    <3>1. CASE to \in Inode \ {0} /\ Listed(from, size) \o Chain[to] = Chain[from]
      <4>1. to \in Nat /\ to # Unknown /\ to \notin {0, End}
        BY <3>1, InodeNat, Distinct
      <4>2. Chain[to] \in Seq(Inode \ {0})
        BY <3>1, ChainSuffix
      <4>3. now \o Chain[to] = pre \o (Listed(from, size) \o Chain[to])
        <5> DEFINE some == Listed(from, size)
                   rest == Chain[to]
        <5>1. pre \in Seq(Inode \ {0}) /\ some \in Seq(Inode \ {0}) /\ rest \in Seq(Inode \ {0})
          BY <2>1, <2>3, <4>2
        <5> HIDE DEF some, rest
        <5>2. (pre \o some) \o rest = pre \o (some \o rest)
          BY <5>1, ConcatAssociative
        <5> QED BY <5>2 DEF some, rest
      <4>4. now \o Chain[to] = Entries(dir)
        BY <2>1, <3>1, <4>3
      <4> HIDE DEF now
      <4> QED BY <3>1, <4>1, <4>4
    <3>2. CASE to \in {0, End} /\ Listed(from, size) = Chain[from]
      <4>1. to \in Nat /\ to # Unknown
        BY <3>2, Distinct
      <4>2. now = Entries(dir)
        BY <2>1, <3>2
      <4>3. now \o <<>> = now
        <5> HIDE DEF now
        <5> QED BY <2>4, ConcatEmptySeq
      <4> HIDE DEF now
      <4> QED BY <3>2, <4>1, <4>2, <4>3
    <3> QED BY <2>3, <3>1, <3>2
  <2> HIDE DEF now
  <2>6. file_ptr' = [file_ptr EXCEPT ![fd] = to] /\ listed' = [listed EXCEPT ![fd] = now]
    BY <1>2, <1>6
  <2>7. /\ file_ptr'[fd] = to /\ listed'[fd] = now
        /\ \A g \in Fd : g # fd => file_ptr'[g] = file_ptr[g] /\ listed'[g] = listed[g]
    BY <1>3, <2>6 DEF TableOK
  <2>8. TableOK'
    <3>1. file_ptr' \in [Fd -> Nat \cup {Unknown}] /\ listed' \in [Fd -> Seq(Inode \ {0})]
      BY <1>3, <2>4, <2>5, <2>6 DEF TableOK
    <3> QED BY <1>2, <1>3, <3>1 DEF TableOK
  <2>9. Untouched'
    BY <1>2, <1>3, <2>7 DEF Untouched
  <2>10. AtHeader'
    <3> SUFFICES ASSUME NEW g \in valid, IsDirectory(inode[g]), file_ptr'[g] \notin {0, End, Unknown}
                 PROVE  file_ptr'[g] \in Inode \ {0}
      BY <1>2 DEF AtHeader
    <3>1. CASE g = fd
      BY <2>5, <2>7, <3>1
    <3>2. CASE g # fd
      <4>1. file_ptr'[g] = file_ptr[g]
        BY <1>4, <2>7, <3>2
      <4> QED BY <1>3, <4>1 DEF AtHeader
    <3> QED BY <3>1, <3>2
  <2>11. ReadsInOrder'
    <3> SUFFICES ASSUME NEW g \in valid, IsFile(inode[g]), file_ptr'[g] # Unknown
                 PROVE  /\ file_ptr'[g] <= Image[inode[g]].size
                        /\ got[g] = [k \in 1 .. file_ptr'[g] |-> DataStart(inode[g]) + k - 1]
      BY <1>2 DEF ReadsInOrder
    <3>1. g # fd
      BY <1>4, <1>6, Distinct DEF dir
    <3>2. file_ptr'[g] = file_ptr[g]
      BY <1>4, <2>7, <3>1
    <3> QED BY <1>3, <3>2 DEF ReadsInOrder
  <2>12. ListingComplete'
    <3> SUFFICES ASSUME NEW g \in valid, IsDirectory(inode[g]), file_ptr'[g] # Unknown
                 PROVE  \/ listed'[g] \o (IF file_ptr'[g] \in {0, End} THEN <<>>
                                          ELSE Chain[file_ptr'[g]]) = Entries(inode[g])
                        \/ file_ptr'[g] = 0 /\ listed'[g] = <<>>
      BY <1>2 DEF ListingComplete
    <3>1. CASE g = fd
      BY <2>5, <2>7, <3>1 DEF dir
    <3>2. CASE g # fd
      <4>1. file_ptr'[g] = file_ptr[g] /\ listed'[g] = listed[g]
        BY <1>4, <2>7, <3>2
      <4> QED BY <1>3, <4>1 DEF ListingComplete
    <3> QED BY <3>1, <3>2
  <2> QED BY <2>8, <2>9, <2>10, <2>11, <2>12 DEF FilesInv
<1> QED BY <1>5, <1>6

(* The descriptors do not depend on the current directories. *)
LEMMA DirectoriesStep ==
    ASSUME FilesInv, UNCHANGED fdVars, current_dir' \in [Proc -> {i \in Inode : IsDirectory(i)}]
    PROVE  FilesInv'
<1>1. UNCHANGED <<valid, inode, file_ptr, got, listed>>
  BY DEF fdVars
<1>2. TableOK' /\ Untouched' /\ AtHeader'
  BY <1>1 DEF FilesInv, TableOK, Untouched, AtHeader
<1>3. ReadsInOrder' /\ ListingComplete'
  BY <1>1 DEF FilesInv, ReadsInOrder, ListingComplete
<1> QED BY <1>2, <1>3 DEF FilesInv

(* chdir stores a directory, never an error. *)
LEMMA ChdirInv == FilesInv /\ Chdir => FilesInv'
<1> SUFFICES ASSUME FilesInv, Chdir PROVE FilesInv'
  OBVIOUS
<1>1. PICK p \in Proc, path \in Paths : chdir(p, path)
  BY DEF Chdir
<1> DEFINE i == get_inode(p, path)
<1>2. MayEnter(i) /\ current_dir' = [current_dir EXCEPT ![p] = i] /\ UNCHANGED fdVars
  BY <1>1 DEF chdir
<1>3. i \in Answer
  BY GetInodeAnswers DEF FilesInv
<1> HIDE DEF i
<1>4. i \in Inode /\ i \notin {-1, -ENOTDIR, Undefined}
  BY <1>2, <1>3, AnswerSign DEF MayEnter, ENOTDIR, Undefined
<1>5. ~ IsLink(i)
  BY <1>3, <1>4 DEF Answer
<1>6. IsDirectory(i)
  BY <1>2, <1>5 DEF MayEnter, romfs_stat, FollowLinks, IsDirectory
<1>7. current_dir' \in [Proc -> {j \in Inode : IsDirectory(j)}]
  BY <1>2, <1>4, <1>6 DEF FilesInv, TableOK
<1> QED BY <1>2, <1>7, DirectoriesStep

LEMMA VforkInv == FilesInv /\ Vfork => FilesInv'
<1> SUFFICES ASSUME FilesInv, Vfork PROVE FilesInv'
  OBVIOUS
<1>1. PICK p \in Proc, c \in Proc : vfork(p, c)
  BY DEF Vfork
<1>2. current_dir' = [current_dir EXCEPT ![c] = current_dir[p]] /\ UNCHANGED fdVars
  BY <1>1 DEF vfork
<1>3. current_dir' \in [Proc -> {j \in Inode : IsDirectory(j)}]
  BY <1>2 DEF FilesInv, TableOK
<1> QED BY <1>2, <1>3, DirectoriesStep

LEMMA FilesAlways == Spec => []FilesInv
<1>1. FilesInv /\ UNCHANGED vars => FilesInv'
  <2>1. UNCHANGED vars => UNCHANGED fdVars /\ UNCHANGED current_dir
    BY DEF vars
  <2>2. FilesInv => current_dir \in [Proc -> {i \in Inode : IsDirectory(i)}]
    BY DEF FilesInv, TableOK
  <2> QED BY <2>1, <2>2, DirectoriesStep
<1>2. FilesInv /\ [Next]_vars => FilesInv'
  BY <1>1, OpenInv, ReadInv, GetdentsInv, ChdirInv, VforkInv DEF Next
<1> QED BY <1>2, InitFiles, PTL DEF Spec

----------------------------------------------------------------------------
(* What read returns of a file, through a descriptor that all processes    *)
(* share, is the file from its first byte on, each byte once and none past *)
(* the end: the unsigned difference that limits a read never wraps.        *)
THEOREM FilesReadInOrder == Spec => []ReadsInOrder
<1>1. FilesInv => ReadsInOrder
  BY DEF FilesInv
<1> QED BY <1>1, FilesAlways, PTL

(* However the buffers cut a listing, getdents leaves out no entry and     *)
(* returns none twice: it goes on at the very header that did not fit.     *)
THEOREM ListingsComplete == Spec => []ListingComplete
<1>1. FilesInv => ListingComplete
  BY DEF FilesInv
<1> QED BY <1>1, FilesAlways, PTL

(* get_inode finds what a path leads to, or fails when it leads nowhere,   *)
(* although it walks on from the error code of a part that was not found;  *)
(* its answer is undefined for the paths with two parts after one that is  *)
(* not a directory, and for no others; and no error code or file ever      *)
(* becomes a current directory.                                            *)
THEOREM PathsLeadWhereTheySay == Spec => []PathsResolve
<1>1. FilesInv => PathsResolve
  <2> SUFFICES ASSUME FilesInv PROVE PathsResolve
    OBVIOUS
  <2>1. FilesTypeOK
    BY DEF FilesInv, TableOK, FilesTypeOK
  <2>2. ASSUME NEW p \in Proc, NEW path \in Paths
        PROVE  /\ get_inode(p, path) = Undefined <=> Strays(p, path)
               /\ IF get_inode(p, path) < 0 THEN Leads(p, path) = {}
                  ELSE Leads(p, path) = {get_inode(p, path)}
    <3>1. /\ Leads(p, path) = Denoted(get_inode(p, path))
          /\ get_inode(p, path) = Undefined <=> Strays(p, path)
      BY GetInodeAnswers DEF FilesInv
    <3> QED BY <3>1 DEF Denoted
  <2> QED BY <2>1, <2>2 DEF PathsResolve
<1> QED BY <1>1, FilesAlways, PTL

(* What the model says of a listing is what the loop of romfs_getdents     *)
(* does, for every image, start and buffer.                                *)
THEOREM ListingsAreLoops == Spec => []ListingIsLoop
<1>1. FilesInv => ListingIsLoop
  <2> SUFFICES ASSUME FilesInv, NEW fd \in valid, NEW size \in Sizes,
                      IsDirectory(inode[fd]), file_ptr[fd] \notin {Unknown, End}
               PROVE  GetdentsLoop(ListFrom(fd), size)
                        = <<Listed(ListFrom(fd), size), ListedTo(ListFrom(fd), size)>>
    BY DEF ListingIsLoop
  <2>1. ListFrom(fd) \in Inode
    BY ImageFacts DEF FilesInv, TableOK, AtHeader, ListFrom
  <2>2. size \in Nat
    BY FilesAssumption
  <2> QED BY <2>1, <2>2, LoopLists
<1> QED BY <1>1, FilesAlways, PTL

----------------------------------------------------------------------------
(* ls and cat, call by call. *)

(* The states of a loop that begins at x and repeats a step n times. *)
IsRun(f, S, x, step, n) ==
    /\ f \in [0 .. n -> S] /\ f[0] = x
    /\ \A d \in 1 .. n : d - 1 \in 0 .. n /\ f[d] = step[f[d - 1]]

LEMMA Iterates ==
    ASSUME NEW S, NEW x \in S, NEW step \in [S -> S], NEW n \in Nat
    PROVE  \E f : IsRun(f, S, x, step, n)
<1> DEFINE Turn(f, m) == [d \in 0 .. m |-> IF d = 0 THEN x ELSE step[f[d - 1]]]
           K == {m \in 0 .. n : \E f \in [0 .. m -> S] : f = Turn(f, m)}
<1>1. 0 \in K
  <2> DEFINE f == [d \in 0 .. 0 |-> x]
  <2>1. f \in [0 .. 0 -> S] /\ f = Turn(f, 0)
    OBVIOUS
  <2> HIDE DEF f, Turn
  <2> QED BY <2>1
<1>2. ASSUME NEW m \in 0 .. (n - 1), m \in K
      PROVE  (m + 1) \in K
  <2>1. PICK f \in [0 .. m -> S] : f = Turn(f, m)
    BY <1>2
  <2> DEFINE g == [d \in 0 .. (m + 1) |-> IF d = m + 1 THEN step[f[m]] ELSE f[d]]
  <2>2. m \in 0 .. m /\ m + 1 \in 0 .. n /\ m \in Nat
    OBVIOUS
  <2>3. g \in [0 .. (m + 1) -> S]
    BY <2>2
  <2>4. ASSUME NEW d \in 0 .. (m + 1)
        PROVE  g[d] = IF d = 0 THEN x ELSE step[g[d - 1]]
    <3>1. CASE d = m + 1
      <4>1. d - 1 = m /\ d # 0 /\ m \in 0 .. (m + 1) /\ m # m + 1
        BY <2>2, <3>1
      <4> QED BY <3>1, <4>1
    <3>2. CASE d # m + 1
      <4>1. d \in 0 .. m /\ (d # 0 => d - 1 \in 0 .. (m + 1) /\ d - 1 # m + 1)
        BY <2>2, <3>2
      <4>2. f[d] = IF d = 0 THEN x ELSE step[f[d - 1]]
        BY <2>1, <4>1
      <4> QED BY <3>2, <4>1, <4>2
    <3> QED BY <3>1, <3>2
  <2>5. g = Turn(g, m + 1)
    <3>1. g = [d \in 0 .. (m + 1) |-> g[d]]
      OBVIOUS
    <3> HIDE DEF g
    <3> QED BY <2>4, <3>1
  <2> HIDE DEF g
  <2> QED BY <2>2, <2>3, <2>5
<1>3. n \in K
  <2> HIDE DEF K
  <2> QED BY <1>1, <1>2, EveryTurn
<1>4. PICK f \in [0 .. n -> S] : f = Turn(f, n)
  BY <1>3
<1>5. \A d \in 1 .. n : d \in 0 .. n /\ d - 1 \in 0 .. n /\ d # 0
  OBVIOUS
<1>6. f[0] = x
  BY <1>4
<1>7. \A d \in 1 .. n : f[d] = step[f[d - 1]]
  BY <1>4, <1>5
<1> QED BY <1>4, <1>5, <1>6, <1>7 DEF IsRun

----------------------------------------------------------------------------
(* A read of cat stays in the file, and returns nothing only at its end. *)
LEMMA CatReads ==
    ASSUME NEW i \in Inode \ {0}, NEW from \in 0 .. Image[i].size
    PROVE  /\ romfs_read_file(i, from, CatSize) \in Nat
           /\ from + romfs_read_file(i, from, CatSize) <= Image[i].size
           /\ from < Image[i].size => romfs_read_file(i, from, CatSize) >= 1
<1> DEFINE size == Image[i].size
           left == (size - from) % WordSize
           n == ReadCount(i, from, CatSize)
<1>1. /\ size \in Nat /\ size < WordSize /\ WordSize \in Nat
      /\ ImageLength \in Nat /\ ImageLength < WordSize
  BY RomfsAssumption, FormatAssumption DEF WellFormed
<1>2. CatSize \in Nat /\ CatSize >= 1
  BY ProgramsAssumption, <1>1
<1>3. PICK s : s = DataStart(i)
  OBVIOUS
<1>4. s \in Nat /\ s + size <= ImageLength
  BY <1>3, DataStartNat, DataAssumption DEF DataInImage
<1> HIDE DEF size
<1>5. from \in Nat /\ from <= size
  BY <1>1 DEF size
<1>6. left = size - from
  BY <1>1, <1>5
<1>7. n = IF CatSize > left THEN left ELSE CatSize
  BY DEF ReadCount, size
<1> HIDE DEF n
<1>8. n \in Nat /\ from + n <= size /\ (from < size => n >= 1)
  BY <1>1, <1>2, <1>5, <1>6, <1>7
<1>9. InRamdisk(DataStart(i) + from, n)
  <2>1. (s + from) + n \in Nat /\ (s + from) + n <= ImageLength
    BY <1>1, <1>4, <1>5, <1>8
  <2>2. ((s + from) + n) % WordSize = (s + from) + n
    BY <1>1, <2>1
  <2> QED BY <1>3, <2>1, <2>2 DEF InRamdisk
<1>10. romfs_read_file(i, from, CatSize) = n
  BY <1>9 DEF romfs_read_file, n
<1> QED BY <1>8, <1>10 DEF size

(* So cat writes the file, however many reads it takes. *)
LEMMA CatWhole ==
    ASSUME NEW i \in Inode \ {0}
    PROVE  CatFile[i] = Bytes(i)
<1> DEFINE size == Image[i].size
           Upto(q) == [k \in 1 .. q |-> DataStart(i) + k - 1]
           St(q) == [ptr |-> q, out |-> Upto(q)]
           Gets(q) == romfs_read_file(i, q, CatSize)
           Body(was) == [ptr |-> was.ptr + Gets(was.ptr),
                         out |-> was.out \o [k \in 1 .. Gets(was.ptr) |->
                                                DataStart(i) + was.ptr + k - 1]]
           Turn(f) == [d \in 0 .. size |->
                          IF d = 0 THEN [ptr |-> 0, out |-> <<>>] ELSE Body(f[d - 1])]
           u == CHOOSE f : f = Turn(f)
           step == [q \in 0 .. size |-> q + Gets(q)]
<1>1. CatFile[i] = u[size].out
  BY Zenon DEF CatFile
<1>2. size \in Nat /\ DataStart(i) \in Nat
  BY RomfsAssumption, DataStartNat DEF WellFormed
<1>3. step \in [0 .. size -> 0 .. size]
  <2> SUFFICES ASSUME NEW q \in 0 .. size PROVE q + Gets(q) \in 0 .. size
    OBVIOUS
  <2>1. Gets(q) \in Nat /\ q + Gets(q) <= size
    BY CatReads
  <2> HIDE DEF size, Gets
  <2> QED BY <1>2, <2>1
<1>4. PICK f : IsRun(f, 0 .. size, 0, step, size)
  <2> HIDE DEF step, size
  <2>1. 0 \in 0 .. size
    BY <1>2
  <2> QED BY <1>2, <1>3, <2>1, Iterates
<1>5. \A d \in 0 .. size : f[d] \in 0 .. size /\ (d # 0 => d \in 1 .. size /\ d - 1 \in 0 .. size)
  BY <1>2, <1>4 DEF IsRun
<1>6. f[0] = 0 /\ \A d \in 0 .. size : d # 0 => f[d] = f[d - 1] + Gets(f[d - 1])
  <2> HIDE DEF size, Gets
  <2>1. f[0] = 0 /\ \A d \in 1 .. size : f[d] = step[f[d - 1]]
    BY <1>4 DEF IsRun
  <2>2. \A d \in 0 .. size : d # 0 => f[d] = step[f[d - 1]] /\ f[d - 1] \in 0 .. size
    BY <1>5, <2>1
  <2> QED BY <2>1, <2>2
<1>7. ASSUME NEW q \in 0 .. size PROVE Body(St(q)) = St(q + Gets(q))
  <2>1. Gets(q) \in Nat /\ q \in Nat
    BY <1>2, CatReads
  <2>2. Upto(q) \o [k \in 1 .. Gets(q) |-> DataStart(i) + q + k - 1] = Upto(q + Gets(q))
    BY <1>2, <2>1, Appended
  <2>3. Body(St(q)) = [ptr |-> q + Gets(q),
                       out |-> Upto(q) \o [k \in 1 .. Gets(q) |-> DataStart(i) + q + k - 1]]
    BY Zenon
  <2> QED BY <2>2, <2>3
<1>8. St(0) = [ptr |-> 0, out |-> <<>>]
  <2>1. Upto(0) = <<>>
    OBVIOUS
  <2> QED BY <2>1
<1> DEFINE g == [d \in 0 .. size |-> St(f[d])]
<1> HIDE DEF Body, St, size, Gets
<1>9. g = Turn(g)
  <2>1. ASSUME NEW d \in 0 .. size
        PROVE  St(f[d]) = IF d = 0 THEN [ptr |-> 0, out |-> <<>>] ELSE Body(g[d - 1])
    <3>1. CASE d = 0
      BY <1>6, <1>8, <3>1
    <3>2. CASE d # 0
      <4>1. d - 1 \in 0 .. size /\ f[d - 1] \in 0 .. size
        BY <1>5, <3>2
      <4>2. Body(g[d - 1]) = Body(St(f[d - 1]))
        BY <4>1
      <4> QED BY <1>6, <1>7, <3>2, <4>1, <4>2
    <3> QED BY <3>1, <3>2
  <2> QED BY <2>1
<1>10. u = Turn(u)
  <2> HIDE DEF g
  <2> QED BY <1>9, Zenon
<1> HIDE DEF u
<1>11. \A d \in 0 .. size : u[d] = g[d]
  <2> DEFINE K == {d \in 0 .. size : u[d] = g[d]}
  <2>1. 0 \in K
    <3>1. 0 \in 0 .. size
      BY <1>2
    <3> HIDE DEF g
    <3> QED BY <1>9, <1>10, <3>1
  <2>2. ASSUME NEW d \in 0 .. (size - 1), d \in K PROVE (d + 1) \in K
    <3>1. d + 1 \in 0 .. size /\ d + 1 # 0 /\ (d + 1) - 1 = d
      BY <1>2
    <3>2. u[d + 1] = Body(u[(d + 1) - 1]) /\ g[d + 1] = Body(g[(d + 1) - 1])
      <4> HIDE DEF g
      <4> QED BY <1>9, <1>10, <3>1
    <3> HIDE DEF g
    <3> QED BY <2>2, <3>1, <3>2
  <2> HIDE DEF K
  <2>3. \A d \in 0 .. size : d \in K
    BY <1>2, <2>1, <2>2, EveryTurn
  <2> QED BY <2>3 DEF K
<1>12. f[size] = size
  <2> DEFINE K == {d \in 0 .. size : f[d] >= d}
  <2>1. 0 \in K
    BY <1>2, <1>6
  <2>2. ASSUME NEW d \in 0 .. (size - 1), d \in K PROVE (d + 1) \in K
    <3>1. d + 1 \in 0 .. size /\ d + 1 # 0 /\ (d + 1) - 1 = d /\ d \in 0 .. size
      BY <1>2
    <3>2. f[d + 1] = f[d] + Gets(f[d]) /\ f[d] \in 0 .. size /\ f[d] >= d /\ f[d + 1] \in 0 .. size
      BY <1>5, <1>6, <2>2, <3>1
    <3>3. Gets(f[d]) \in Nat /\ (f[d] < size => Gets(f[d]) >= 1)
      BY <3>2, CatReads DEF Gets, size
    <3>4. f[d + 1] >= d + 1
      <4>1. \A a, b \in 0 .. size : \A r \in Nat :
               (b = a + r /\ a >= d /\ (a < size => r >= 1)) => b >= d + 1
        BY <1>2
      <4> QED BY <3>2, <3>3, <4>1
    <3> QED BY <3>1, <3>4
  <2> HIDE DEF K
  <2>3. \A d \in 0 .. size : d \in K
    BY <1>2, <2>1, <2>2, EveryTurn
  <2>4. f[size] >= size /\ f[size] \in 0 .. size
    BY <1>2, <1>5, <2>3 DEF K
  <2> QED BY <1>2, <2>4
<1>13. u[size] = St(size)
  BY <1>2, <1>11, <1>12
<1>14. CatFile[i] = Upto(size)
  BY <1>1, <1>13 DEF St
<1> QED BY <1>14 DEF Bytes, size

----------------------------------------------------------------------------
(* A buffer with room for the next entry gets it. *)
LEMMA ListedTakes ==
    ASSUME NEW i \in Inode \ {0}, NEW size \in Nat, RecordLength(i) <= size
    PROVE  Len(Listed(i, size)) \in Nat /\ Len(Listed(i, size)) >= 1
<1> DEFINE c == Chain[i]
           L == Len(c)
           one == SubSeq(c, 1, 1)
           fits == {k \in 0 .. L : Total(SubSeq(c, 1, k)) <= size}
           n == Max(fits)
           t == [k \in 0 .. 1 |-> IF k = 0 THEN 0 ELSE RecordLength(i)]
<1>1. L \in Nat /\ L >= 1 /\ c[1] = i /\ \A k \in 1 .. L : c[k] \in Inode
  BY ChainFollowsNext
<1>2. Len(one) = 1 /\ one[1] = i
  <2> HIDE DEF c
  <2>1. \A k \in 1 .. 1 : c[k] \in Inode
    BY <1>1
  <2> QED BY <1>1, <2>1, SubSeqProperties
<1>3. Total(one) = RecordLength(i)
  <2> HIDE DEF one
  <2>1. Lengths(t, one, 1)
    BY <1>2, RecordsTakeRoom DEF Lengths
  <2>2. Total(one) = t[1]
    <3> HIDE DEF t
    <3> QED BY <1>2, <2>1, TotalIsLength
  <2> QED BY <2>2
<1>4. 1 \in fits /\ fits \subseteq 0 .. L
  <2>1. 1 \in 0 .. L
    BY <1>1
  <2> HIDE DEF L, c
  <2> QED BY <1>3, <2>1
<1>5. n \in 0 .. L /\ 1 <= n
  <2> HIDE DEF fits, L
  <2> QED BY <1>1, <1>4, GreatestUpTo
<1>6. Listed(i, size) = SubSeq(c, 1, n)
  BY DEF Listed
<1> HIDE DEF n, c
<1>7. Len(SubSeq(c, 1, n)) = n
  <2>1. \A k \in 1 .. n : c[k] \in Inode
    BY <1>1, <1>5
  <2> QED BY <1>1, <1>5, <2>1, SubSeqProperties
<1> QED BY <1>1, <1>5, <1>6, <1>7

(* Where the calls of ls are in a list of headers: what they have listed   *)
(* and the rest are the list.                                              *)
Listing(c) ==
    {s \in [at : Inode \cup {End}, out : Seq(Inode \ {0})] :
        s.out \o (IF s.at \in {0, End} THEN <<>> ELSE Chain[s.at]) = c}

NextCall(s) ==
    IF s.at \in {0, End} THEN s
    ELSE [at |-> ListedTo(s.at, LsSize), out |-> s.out \o Listed(s.at, LsSize)]

(* A call goes on in the list, by an entry at least unless it is at the end. *)
LEMMA CallGoesOn ==
    ASSUME NEW c \in Seq(Inode \ {0}), NEW s \in Listing(c)
    PROVE  /\ NextCall(s) \in Listing(c) /\ Len(s.out) \in Nat /\ Len(NextCall(s).out) \in Nat
           /\ NextCall(s).at \in {0, End} \/ Len(NextCall(s).out) >= Len(s.out) + 1
<1> DEFINE H == Inode \ {0}
<1>0. PICK a, o : a = s.at /\ o = s.out
  OBVIOUS
<1>1. s = [at |-> a, out |-> o] /\ a \in Inode \cup {End} /\ o \in Seq(H)
      /\ o \o (IF a \in {0, End} THEN <<>> ELSE Chain[a]) = c
  BY <1>0 DEF Listing
<1>2. Len(o) \in Nat
  <2> HIDE DEF H
  <2> QED BY <1>1, LenProperties
<1>3. CASE a \in {0, End}
  BY <1>0, <1>2, <1>3 DEF NextCall
<1>4. CASE a \notin {0, End}
  <2>1. PICK l, t : l = Listed(a, LsSize) /\ t = ListedTo(a, LsSize)
    OBVIOUS
  <2>2. a \in H /\ a \in Inode /\ LsSize \in Nat /\ RecordLength(a) <= LsSize
    BY <1>1, <1>4, ProgramsAssumption
  <2>3. l \in Seq(H) /\ \/ t \in H /\ l \o Chain[t] = Chain[a]
                        \/ t \in {0, End} /\ l = Chain[a]
    BY <2>1, <2>2, ListedThenRest
  <2>4. Len(l) \in Nat /\ Len(l) >= 1
    BY <2>1, <2>2, ListedTakes
  <2>5. NextCall(s) = [at |-> t, out |-> o \o l]
    BY <1>0, <1>4, <2>1 DEF NextCall
  <2>6. o \o Chain[a] = c /\ t \in Inode \cup {End} /\ 0 \in Inode
    BY <1>1, <1>4, <2>3, ImageFacts
  <2>7. t \in H => t \notin {0, End} /\ Chain[t] \in Seq(H)
    BY Distinct, ChainFacts DEF Chains
  <2> HIDE DEF H
  <2>8. o \o l \in Seq(H) /\ Len(o \o l) = Len(o) + Len(l)
    BY <1>1, <2>3, ConcatProperties
  <2>9. (o \o l) \o (IF t \in {0, End} THEN <<>> ELSE Chain[t]) = c
    <3>1. CASE t \in H /\ l \o Chain[t] = Chain[a]
      <4>1. (o \o l) \o Chain[t] = o \o (l \o Chain[t])
        <5>1. o \in Seq(H) /\ l \in Seq(H) /\ Chain[t] \in Seq(H)
          BY <1>1, <2>3, <2>7, <3>1
        <5>2. PICK v \in Seq(H) : v = Chain[t]
          BY <5>1
        <5>3. (o \o l) \o v = o \o (l \o v)
          BY <5>1, ConcatAssociative
        <5> QED BY <5>2, <5>3
      <4> QED BY <2>6, <2>7, <3>1, <4>1
    <3>2. CASE t \in {0, End} /\ l = Chain[a]
      <4>1. (o \o l) \o <<>> = o \o l
        BY <2>8, ConcatEmptySeq
      <4> QED BY <2>6, <3>2, <4>1
    <3> QED BY <2>3, <3>1, <3>2
  <2>10. NextCall(s) \in Listing(c)
    <3>1. [at |-> t, out |-> o \o l] \in [at : Inode \cup {End}, out : Seq(Inode \ {0})]
      BY <2>6, <2>8 DEF H
    <3>2. NextCall(s).at = t /\ NextCall(s).out = o \o l
      BY <2>5
    <3> QED BY <2>5, <2>9, <3>1, <3>2, Zenon DEF Listing
  <2> QED BY <1>0, <1>2, <2>4, <2>5, <2>8, <2>10
<1> QED BY <1>3, <1>4

(* So ls goes through the whole directory, if the listing ends. *)
LEMMA LsLists ==
    ASSUME NEW dir \in Inode, IsDirectory(dir), Ends(dir)
    PROVE  GetdentsAll[dir] = Entries(dir)
<1> DEFINE H == Inode \ {0}
           c == Entries(dir)
           L == Len(c)
           x == [at |-> Image[dir].spec, out |-> <<>>]
           Turn(f) == [d \in 0 .. L |-> IF d = 0 THEN x ELSE NextCall(f[d - 1])]
           u == CHOOSE f : f = Turn(f)
           step == [s \in Listing(c) |-> NextCall(s)]
<1>1. GetdentsAll[dir] = IF u[L].at = 0 THEN <<Forever>> ELSE u[L].out
  BY Zenon DEF GetdentsAll, NextCall
<1>2. c \in Seq(H) /\ Image[dir].spec \in H /\ c = Chain[Image[dir].spec]
  BY EntriesFacts, ImageFacts DEF Entries
<1>3. L \in Nat
  <2> HIDE DEF H, c
  <2> QED BY <1>2, LenProperties
<1>4. x \in Listing(c)
  <2>1. Image[dir].spec \notin {0, End}
    BY <1>2, Distinct
  <2>2. <<>> \o c = c /\ <<>> \in Seq(H)
    <3> HIDE DEF H, c
    <3> QED BY <1>2, ConcatEmptySeq
  <2>3. x \in [at : Inode \cup {End}, out : Seq(H)]
    BY <1>2, <2>2
  <2>4. x.at = Image[dir].spec /\ x.out = <<>>
    OBVIOUS
  <2> HIDE DEF x, c
  <2> QED BY <1>2, <2>1, <2>2, <2>3, <2>4 DEF Listing
<1> HIDE DEF x, c, L, H
<1>5. step \in [Listing(c) -> Listing(c)]
  BY <1>2, CallGoesOn DEF H
<1>6. PICK f : IsRun(f, Listing(c), x, step, L)
  <2> HIDE DEF step
  <2> QED BY <1>3, <1>4, <1>5, Iterates
<1>7. /\ f = [d \in 0 .. L |-> f[d]] /\ f[0] = x
      /\ \A d \in 0 .. L : f[d] \in Listing(c)
                           /\ (d # 0 => d - 1 \in 0 .. L /\ f[d] = NextCall(f[d - 1]))
  <2>1. f \in [0 .. L -> Listing(c)] /\ f[0] = x
        /\ \A d \in 1 .. L : d - 1 \in 0 .. L /\ f[d] = step[f[d - 1]]
    <3> HIDE DEF step
    <3> QED BY <1>6 DEF IsRun
  <2>2. \A d \in 0 .. L : d # 0 => d \in 1 .. L
    BY <1>3
  <2>3. \A d \in 0 .. L : f[d] \in Listing(c)
    BY <2>1
  <2>4. \A d \in 1 .. L : f[d] = NextCall(f[d - 1])
    BY <2>1, <2>3
  <2> HIDE DEF step
  <2> QED BY <2>1, <2>2, <2>3, <2>4
<1>8. f = Turn(f)
  BY <1>7
<1>9. u = Turn(u)
  BY <1>8, Zenon
<1> HIDE DEF u
<1>10. \A d \in 0 .. L : u[d] = f[d]
  <2> DEFINE K == {d \in 0 .. L : u[d] = f[d]}
  <2>1. 0 \in K
    BY <1>3, <1>7, <1>9
  <2>2. ASSUME NEW d \in 0 .. (L - 1), d \in K PROVE (d + 1) \in K
    <3>1. d + 1 \in 0 .. L /\ d + 1 # 0 /\ (d + 1) - 1 = d
      BY <1>3
    <3>2. u[d + 1] = NextCall(u[(d + 1) - 1]) /\ f[d + 1] = NextCall(f[(d + 1) - 1])
      BY <1>7, <1>9, <3>1
    <3> QED BY <2>2, <3>1, <3>2
  <2> HIDE DEF K
  <2>3. \A d \in 0 .. L : d \in K
    BY <1>3, <2>1, <2>2, EveryTurn
  <2> QED BY <2>3 DEF K
<1>11. f[L].at \in {0, End} \/ Len(f[L].out) >= L
  <2> DEFINE K == {d \in 0 .. L : f[d].at \in {0, End} \/ Len(f[d].out) >= d}
  <2>1. 0 \in K
    <3>1. Len(f[0].out) = 0
      BY <1>7 DEF x
    <3> QED BY <1>3, <3>1
  <2>2. ASSUME NEW d \in 0 .. (L - 1), d \in K PROVE (d + 1) \in K
    <3>1. d + 1 \in 0 .. L /\ d + 1 # 0 /\ (d + 1) - 1 = d /\ d \in 0 .. L /\ d \in Nat
      BY <1>3
    <3>2. PICK s : s = f[d]
      OBVIOUS
    <3>3. s \in Listing(c) /\ f[d + 1] = NextCall(s)
      BY <1>7, <3>1, <3>2
    <3>4. /\ Len(s.out) \in Nat /\ Len(NextCall(s).out) \in Nat
          /\ NextCall(s).at \in {0, End} \/ Len(NextCall(s).out) >= Len(s.out) + 1
      BY <1>2, <3>3, CallGoesOn DEF H
    <3>5. s.at \in {0, End} \/ Len(s.out) >= d
      BY <2>2, <3>2
    <3>6. s.at \in {0, End} => NextCall(s) = s
      BY DEF NextCall
    <3>7. NextCall(s).at \in {0, End} \/ Len(NextCall(s).out) >= d + 1
      BY <3>1, <3>4, <3>5, <3>6
    <3> QED BY <3>1, <3>3, <3>7
  <2> HIDE DEF K
  <2>3. \A d \in 0 .. L : d \in K
    BY <1>3, <2>1, <2>2, EveryTurn
  <2> QED BY <1>3, <2>3 DEF K
<1>12. u[L].at \in {0, End} /\ u[L].out = c
  <2>1. PICK a, o : a = u[L].at /\ o = u[L].out
    OBVIOUS
  <2>2. /\ a \in Inode \cup {End} /\ o \in Seq(H)
        /\ o \o (IF a \in {0, End} THEN <<>> ELSE Chain[a]) = c
    BY <1>3, <1>7, <1>10, <2>1 DEF Listing, H
  <2>3. a \in {0, End} \/ Len(o) >= L
    BY <1>3, <1>10, <1>11, <2>1
  <2>4. a \in {0, End}
    <3> SUFFICES ASSUME a \notin {0, End} PROVE FALSE
      OBVIOUS
    <3>1. a \in Inode /\ a # 0 /\ o \o Chain[a] = c /\ Len(o) >= L
      BY <2>2, <2>3
    <3>2. Chain[a] \in Seq(H) /\ Len(Chain[a]) \in Nat /\ Len(Chain[a]) # 0
      BY <3>1, ChainFollowsNext DEF H
    <3>3. Len(o \o Chain[a]) = Len(o) + Len(Chain[a]) /\ Len(o) \in Nat
      BY <2>2, <3>2, ConcatProperties, LenProperties
    <3> QED BY <1>3, <3>1, <3>2, <3>3 DEF L
  <2>5. o \o <<>> = o
    BY <2>2, ConcatEmptySeq
  <2> QED BY <2>1, <2>2, <2>4, <2>5
<1>13. u[L].at # 0
  <2> SUFFICES ASSUME u[L].at = 0 PROVE FALSE
    OBVIOUS
  <2>1. GetdentsAll[dir] = <<Forever>>
    BY <1>1
  <2>2. Forever \in ToSet(<<Forever>>)
    BY DEF ToSet
  <2> QED BY <2>1, <2>2 DEF Ends
<1> QED BY <1>1, <1>12, <1>13 DEF c

----------------------------------------------------------------------------
(* In the current directory, stat of an entry's name is that of the entry. *)
LEMMA EntryStat ==
    ASSUME NEW p, current_dir[p] \in Inode, IsDirectory(current_dir[p]),
           NEW k \in DOMAIN Entries(current_dir[p]), NEW buf
    PROVE  StatOf(p, Entries(current_dir[p])[k], buf)
              = Image[FollowLinks(Entries(current_dir[p])[k])]
<1> DEFINE dir == current_dir[p]
           all == Entries(dir)
           named == {m \in DOMAIN all : Image[all[m]].name = Image[all[k]].name}
           found == romfs_get_inode(dir, Image[all[k]].name)
<1>1. DOMAIN all \subseteq Nat /\ all[k] \in Inode \ {0} /\ dir \in Nat
  BY EntriesFacts, InodeNat
<1>2. named = {k}
  <2>1. \A m \in DOMAIN all : Image[all[m]].name = Image[all[k]].name => m = k
    BY NamesAssumption DEF NamesUnique
  <2>2. k \in DOMAIN all
    OBVIOUS
  <2> HIDE DEF all
  <2> QED BY <2>1, <2>2
<1>3. Min(named) = k
  <2>1. named \subseteq Nat /\ named # {}
    BY <1>1, <1>2
  <2> HIDE DEF named
  <2> QED BY <1>2, <2>1, LeastOfNats
<1>4. MayLookIn(dir) /\ named # {} /\ dir \notin {-ENOTDIR, Undefined}
  BY <1>1, <1>2 DEF MayLookIn, ENOTDIR, Undefined
<1>5. found = FollowLinks(all[Min(named)])
  BY <1>4 DEF romfs_get_inode
<1> HIDE DEF found, named, all
<1>6. found = FollowLinks(all[k])
  BY <1>3, <1>5
<1>7. found \in Inode \ {0} /\ ~ IsLink(found)
  BY <1>1, <1>6, FollowLinksFacts
<1>8. Found(found) /\ FollowLinks(found) = found
  BY <1>7, InodeNat DEF Found, FollowLinks
<1>9. StatOf(p, all[k], buf) = romfs_stat(found)
  BY <1>8 DEF StatOf, found
<1> QED BY <1>6, <1>8, <1>9 DEF romfs_stat, all

(* The first pass of ls -l, where every stat fills the buffer anew. *)
LEMMA FirstPass ==
    ASSUME NEW p, current_dir[p] \in Inode, IsDirectory(current_dir[p]), NEW buf
    PROVE  LET all == Entries(current_dir[p])
           IN  Stats(p, all, buf) = [k \in DOMAIN all |-> Image[FollowLinks(all[k])]]
<1> DEFINE all == Entries(current_dir[p])
           n == Len(all)
           Turn(f) == [k \in 0 .. n |-> IF k = 0 THEN buf ELSE StatOf(p, all[k], f[k - 1])]
           u == CHOOSE f : f = Turn(f)
           g == [k \in 0 .. n |-> IF k = 0 THEN buf ELSE Image[FollowLinks(all[k])]]
<1>1. Stats(p, all, buf) = [k \in DOMAIN all |-> u[k]]
  BY Zenon DEF Stats
<1>2. DOMAIN all = 1 .. n /\ n \in Nat
  <2>1. all \in Seq(Inode \ {0})
    BY EntriesFacts
  <2> HIDE DEF all
  <2> QED BY <2>1, LenProperties
<1>3. \A k \in 1 .. n : \A b : StatOf(p, all[k], b) = Image[FollowLinks(all[k])]
  BY <1>2, EntryStat
<1> HIDE DEF all, n
<1>4. \A k \in 0 .. n : k # 0 => k \in 1 .. n
  BY <1>2
<1>5. g = Turn(g)
  BY <1>3, <1>4
<1>6. u = Turn(u)
  <2> HIDE DEF g
  <2> QED BY <1>5, Zenon
<1> HIDE DEF u
<1>7. ASSUME NEW k \in 1 .. n PROVE u[k] = Image[FollowLinks(all[k])]
  <2>1. k \in 0 .. n /\ k # 0
    BY <1>2
  <2>2. u[k] = StatOf(p, all[k], u[k - 1])
    BY <1>6, <2>1
  <2> QED BY <1>3, <2>2
<1> QED BY <1>1, <1>2, <1>7 DEF all

(* As many columns as fit leave each one wide enough. *)
LEMMA ColumnsFit ==
    ASSUME NEW line \in Nat, NEW w \in 1 .. line
    PROVE  LET columns == line \div w
           IN  /\ columns \in Nat /\ columns >= 1
               /\ line \div columns \in Nat /\ w <= line \div columns
               /\ columns * (line \div columns) <= line
<1> DEFINE columns == line \div w
           width == line \div columns
<1>1. columns \in Nat /\ columns * w <= line /\ columns >= 1
  <2>1. columns \in Nat /\ line = columns * w + (line % w) /\ line % w \in 0 .. (w - 1)
    OBVIOUS
  <2> HIDE DEF columns
  <2>2. columns # 0
    <3> SUFFICES ASSUME columns = 0 PROVE FALSE
      OBVIOUS
    <3>1. columns * w = 0
      OBVIOUS
    <3> QED BY <2>1, <3>1
  <2> QED BY <2>1, <2>2
<1> HIDE DEF columns
<1>2. /\ width \in Nat /\ columns * width <= line
      /\ line < columns * (width + 1)
  <2>1. width \in Nat /\ line = columns * width + (line % columns)
        /\ line % columns \in 0 .. (columns - 1)
    BY <1>1
  <2> HIDE DEF width
  <2>2. columns * (width + 1) = columns * width + columns /\ columns * width \in Nat
    BY <1>1, <2>1
  <2> QED BY <1>1, <2>1, <2>2
<1> HIDE DEF width
<1>3. w <= width
  <2> SUFFICES ASSUME w >= width + 1 PROVE FALSE
    BY <1>2
  <2>1. columns * w >= columns * (width + 1)
    BY <1>1, <1>2
  <2> QED BY <1>1, <1>2, <2>1
<1> QED BY <1>1, <1>2, <1>3 DEF columns, width

(* ls shows a directory as it is, in columns that hold its names. *)
LEMMA LsPlain ==
    ASSUME Free \in Nat, Free >= 2, NEW i \in Inode, IsDirectory(i), Ends(i)
    PROVE  LET all == Entries(i)
               plain == ls_plain(i)
           IN  /\ plain.shown = all
               /\ \A k \in DOMAIN all : Length[Image[all[k]].name] < plain.colwidth
               /\ plain.columns * plain.colwidth <= LineSize
<1> DEFINE all == Entries(i)
           lengths == {Length[Image[e].name] : e \in ToSet(all)} \cup {0}
           longest == Max(lengths)
           columns == LineSize \div (longest + 1)
<1>1. Pass(1, i) = all /\ Pass(2, i) = all
  BY LsLists DEF Pass
<1>2. LineSize \in Nat /\ \A e \in Inode : Length[Image[e].name] \in Nat
                                          /\ Length[Image[e].name] < LineSize
  BY ProgramsAssumption, RomfsAssumption DEF WellFormed
<1>3. \A k \in DOMAIN all : all[k] \in Inode /\ all[k] \in ToSet(all)
  BY EntriesFacts DEF ToSet
<1>4. \A e \in ToSet(all) : e \in Inode
  BY EntriesFacts DEF ToSet
<1>5. LineSize >= 1
  BY <1>2
<1> HIDE DEF all
<1>6. lengths \subseteq 0 .. (LineSize - 1) /\ lengths # {} /\ LineSize - 1 \in Nat
  BY <1>2, <1>4, <1>5
<1>7. longest \in 0 .. (LineSize - 1) /\ \A y \in lengths : y <= longest
  <2>1. longest \in lengths /\ \A y \in lengths : y <= longest
    <3> HIDE DEF lengths
    <3> QED BY <1>6, GreatestUpTo
  <2> HIDE DEF lengths, longest
  <2> QED BY <1>6, <2>1
<1>8. \A k \in DOMAIN all : Length[Image[all[k]].name] <= longest
  <2>1. \A k \in DOMAIN all : Length[Image[all[k]].name] \in lengths
    BY <1>3
  <2> HIDE DEF longest, lengths
  <2> QED BY <1>7, <2>1
<1>9. LongestOf(Pass(1, i)) = longest
  BY <1>1 DEF LongestOf
<1>10. Found(i)
  BY InodeNat DEF Found
<1> HIDE DEF longest
<1>11. ls_plain(i) = [shown |-> all, columns |-> columns, colwidth |-> LineSize \div columns]
  BY <1>1, <1>9, <1>10 DEF ls_plain
<1>12. /\ columns \in Nat /\ columns >= 1
       /\ LineSize \div columns \in Nat /\ longest + 1 <= LineSize \div columns
       /\ columns * (LineSize \div columns) <= LineSize
  <2>1. longest + 1 \in 1 .. LineSize
    BY <1>2, <1>7
  <2> QED BY <1>2, <2>1, ColumnsFit
<1> HIDE DEF columns
<1>13. \A k \in DOMAIN all : Length[Image[all[k]].name] < LineSize \div columns
  BY <1>2, <1>3, <1>7, <1>8, <1>12
<1> QED BY <1>11, <1>12, <1>13 DEF all

(* ls -l in the current directory has for each entry what it is, and the   *)
(* greatest size.                                                          *)
LEMMA LsLong ==
    ASSUME Free \in Nat, Free >= 2, NEW p, current_dir[p] \in Inode,
           IsDirectory(current_dir[p]), Ends(current_dir[p])
    PROVE  LET all == Entries(current_dir[p])
               long == ls_long(p, current_dir[p])
           IN  /\ long.lines = [k \in DOMAIN all |-> Image[FollowLinks(all[k])]]
               /\ \A k \in DOMAIN all : long.lines[k].size <= long.maxsize
<1> DEFINE i == current_dir[p]
           all == Entries(i)
           lines == [k \in DOMAIN all |-> Image[FollowLinks(all[k])]]
           sizes == {0} \cup {lines[k].size : k \in DOMAIN lines}
<1>1. Pass(1, i) = all /\ Pass(2, i) = all
  BY LsLists DEF Pass
<1>2. Stats(p, all, romfs_stat(i)) = lines
  BY FirstPass
<1>3. [k \in DOMAIN all |-> StatOf(p, all[k], Unset)] = lines
  BY EntryStat
<1>4. Found(i)
  BY InodeNat DEF Found
<1>5. \A k \in DOMAIN all : FollowLinks(all[k]) \in Inode
  BY EntriesFacts, FollowLinksFacts
<1>6. ls_long(p, i) = [lines |-> lines, maxsize |-> Max(sizes)]
  <2> HIDE DEF all, i, lines
  <2>1. i \in Inode /\ IsDirectory(i)
    BY DEF i
  <2> QED BY <1>1, <1>2, <1>3, <1>4, <2>1 DEF ls_long
<1>7. sizes \subseteq 0 .. (WordSize - 1) /\ sizes # {} /\ WordSize - 1 \in Nat
  <2>1. \A k \in DOMAIN all : Image[FollowLinks(all[k])].size \in 0 .. (WordSize - 1)
    BY <1>5, RomfsAssumption DEF WellFormed
  <2>2. WordSize - 1 \in Nat
    BY FormatAssumption
  <2> HIDE DEF all
  <2> QED BY <2>1, <2>2
<1>8. \A y \in sizes : y <= Max(sizes)
  <2> HIDE DEF sizes
  <2> QED BY <1>7, GreatestUpTo
<1>9. \A k \in DOMAIN all : lines[k].size \in sizes
  <2> HIDE DEF all
  <2> QED OBVIOUS
<1> HIDE DEF sizes
<1> QED BY <1>6, <1>8, <1>9

----------------------------------------------------------------------------
(* Two files one after the other. *)
LEMMA FlattenTwo ==
    ASSUME NEW s, Len(s) = 2
    PROVE  FlattenSeq(s) = s[1] \o s[2]
<1> DEFINE Turn(f) == [k \in 1 .. Len(s) |-> IF k = 1 THEN s[k] ELSE f[k - 1] \o s[k]]
           u == CHOOSE f : f = Turn(f)
           g == [k \in 1 .. 2 |-> IF k = 1 THEN s[1] ELSE s[1] \o s[2]]
<1>1. FlattenSeq(s) = u[2]
  <2>1. Len(s) # 0
    OBVIOUS
  <2>2. FlattenSeq(s) = u[Len(s)]
    BY <2>1, Zenon DEF FlattenSeq
  <2> HIDE DEF u
  <2> QED BY <2>2
<1>2. g = Turn(g)
  OBVIOUS
<1>3. u = Turn(u)
  <2> HIDE DEF g
  <2> QED BY <1>2, Zenon
<1> HIDE DEF u
<1>4. 1 \in 1 .. Len(s) /\ 2 \in 1 .. Len(s) /\ 2 # 1 /\ 2 - 1 = 1
  OBVIOUS
<1>5. u[1] = s[1]
  BY <1>3, <1>4
<1>6. u[2] = u[2 - 1] \o s[2]
  BY <1>3, <1>4
<1> QED BY <1>1, <1>4, <1>5, <1>6

(* cat opens both of its arguments, and writes one after the other. *)
LEMMA CatBoth ==
    ASSUME Free \in Nat, Free >= 2, NEW i \in Inode \ {0}, NEW j \in Inode \ {0}
    PROVE  cat(<<i, j>>) = Bytes(i) \o Bytes(j)
<1> DEFINE found == <<i, j>>
           most == Min({Len(found), Free})
           opened == {n \in 0 .. most : \A k \in 1 .. n : Found(found[k])}
           files == [k \in 1 .. Max(opened) |-> CatFile[found[k]]]
<1>1. Len(found) = 2 /\ found[1] = i /\ found[2] = j
  OBVIOUS
<1>2. most = 2
  <2> DEFINE T == {2, Free}
  <2>1. T \subseteq Nat /\ T # {} /\ 2 \in T
    OBVIOUS
  <2>2. Min(T) \in T /\ Min(T) <= 2
    <3> HIDE DEF T
    <3> QED BY <2>1, LeastOfNats
  <2> QED BY <1>1, <2>2
<1>3. \A k \in 1 .. 2 : Found(found[k])
  <2>1. Found(i) /\ Found(j)
    BY InodeNat DEF Found
  <2> HIDE DEF found
  <2> QED BY <1>1, <2>1
<1> HIDE DEF found, most
<1>4. 2 \in opened /\ opened \subseteq 0 .. 2
  BY <1>2, <1>3
<1>5. Max(opened) = 2
  <2> HIDE DEF opened
  <2>1. Max(opened) \in 0 .. 2 /\ 2 <= Max(opened)
    BY <1>4, GreatestUpTo
  <2> QED BY <2>1
<1>6. cat(<<i, j>>) = FlattenSeq(files)
  BY DEF cat, found, most
<1> HIDE DEF opened
<1>8. files = [k \in 1 .. 2 |-> IF k = 1 THEN Bytes(i) ELSE Bytes(j)]
  <2>1. CatFile[found[1]] = Bytes(i) /\ CatFile[found[2]] = Bytes(j)
    BY <1>1, CatWhole
  <2> QED BY <1>5, <2>1
<1>9. Len(files) = 2 /\ files[1] = Bytes(i) /\ files[2] = Bytes(j)
  <2>1. Len([k \in 1 .. 2 |-> IF k = 1 THEN Bytes(i) ELSE Bytes(j)]) = 2
    OBVIOUS
  <2>2. files[1] = Bytes(i) /\ files[2] = Bytes(j)
    BY <1>8
  <2> QED BY <1>8, <2>1, <2>2, Zenon
<1> HIDE DEF files
<1> QED BY <1>6, <1>9, FlattenTwo

(* From whatever state processes have left the shared table in, if two     *)
(* descriptors are free, ls shows every entry of a directory once, in      *)
(* order and in columns that hold the names, ls -l what each entry of the  *)
(* current directory is, and cat every byte of its files, for every image. *)
THEOREM ProgramsAreTruthful == Spec => []ProgramsTellTruth
<1>1. FilesInv => ProgramsTellTruth
  <2> DEFINE Told(p, i, j) ==
          /\ cat(<<i, j>>) = Bytes(i) \o Bytes(j)
          /\ (IsDirectory(i) /\ Ends(i)) =>
              \A all \in {Entries(i)}, plain \in {ls_plain(i)}, long \in {ls_long(p, i)} :
                  /\ plain.shown = all
                  /\ \A k \in DOMAIN all : Length[Image[all[k]].name] < plain.colwidth
                  /\ plain.columns * plain.colwidth <= LineSize
                  /\ i = current_dir[p] =>
                      /\ long.lines = [k \in DOMAIN all |-> Image[FollowLinks(all[k])]]
                      /\ \A k \in DOMAIN all : long.lines[k].size <= long.maxsize
  <2>0. ProgramsTellTruth <=>
          (Free >= 2 =>
             \A p \in Proc : \A i, j \in {get_inode(p, path) : path \in Paths} :
                (Found(i) /\ Found(j)) => Told(p, i, j))
    BY Zenon DEF ProgramsTellTruth
  <2> HIDE DEF Told
  <2> SUFFICES ASSUME FilesInv, Free >= 2, NEW p \in Proc, NEW q \in Paths, NEW r \in Paths,
                      Found(get_inode(p, q)), Found(get_inode(p, r))
               PROVE  Told(p, get_inode(p, q), get_inode(p, r))
    BY <2>0
  <2>1. PICK i, j : i = get_inode(p, q) /\ j = get_inode(p, r)
    OBVIOUS
  <2>2. i \in Inode \ {0} /\ j \in Inode \ {0}
    <3>1. i \in Answer /\ j \in Answer
      BY <2>1, GetInodeAnswers DEF FilesInv
    <3>2. i >= 0 /\ j >= 0
      BY <2>1 DEF Found
    <3> QED BY <3>1, <3>2, AnswerSign
  <2>3. Free \in Nat
    <3>1. IsFiniteSet(Fd)
      BY FilesAssumption, FS_Interval DEF Fd
    <3>2. IsFiniteSet(Fd \ valid)
      BY <3>1, FS_Subset
    <3> QED BY <3>2, FS_CardinalityType DEF Free
  <2>4. cat(<<i, j>>) = Bytes(i) \o Bytes(j)
    BY <2>2, <2>3, CatBoth
  <2>5. ASSUME IsDirectory(i), Ends(i)
        PROVE  /\ ls_plain(i).shown = Entries(i)
               /\ \A k \in DOMAIN Entries(i) :
                     Length[Image[Entries(i)[k]].name] < ls_plain(i).colwidth
               /\ ls_plain(i).columns * ls_plain(i).colwidth <= LineSize
    BY <2>2, <2>3, <2>5, LsPlain
  <2>6. ASSUME IsDirectory(i), Ends(i), i = current_dir[p]
        PROVE  /\ ls_long(p, i).lines = [k \in DOMAIN Entries(i) |-> Image[FollowLinks(Entries(i)[k])]]
               /\ \A k \in DOMAIN Entries(i) : ls_long(p, i).lines[k].size <= ls_long(p, i).maxsize
    BY <2>2, <2>3, <2>6, LsLong
  <2>7. Told(p, i, j)
    BY <2>4, <2>5, <2>6 DEF Told
  <2> QED BY <2>1, <2>7
<1> QED BY <1>1, FilesAlways, PTL
=============================================================================
