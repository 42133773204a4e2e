----------------------------- MODULE ExecProofs -----------------------------
(***************************************************************************)
(* Proofs about memory.  First the allocator, for every machine size,      *)
(* kernel size and set of request sizes without 0.  (memory_free computes  *)
(* (0-1)/4096+1 chunks, without sign, for a request of 0 bytes, where      *)
(* memory_allocate takes 1: the theorems are false with it.)               *)
(*                                                                         *)
(* Then the memory of processes, for any number of processes and any sizes *)
(* but 0: process_create, execve, process_destroy and MALLOC use the       *)
(* allocator the way Memory assumes, and keep account of every area.       *)
(***************************************************************************)
EXTENDS Exec, NaturalsInduction, WellFoundedInduction, SequenceTheorems, TLAPS

----------------------------------------------------------------------------
(* The allocator. *)

(* What the allocator maintains; MapExact is what makes it inductive: a   *)
(* run of clear bits is a run nobody holds only because the bitmap is     *)
(* exact.                                                                 *)
IInv == TypeOK /\ AreasDisjoint /\ KernelKept /\ MapExact

(* A non-empty set of naturals has a least member, and Min is it. *)
LEMMA MinOfNats ==
    ASSUME NEW T, T \subseteq Nat, T # {}
    PROVE  Min(T) \in T /\ \A y \in T : Min(T) <= y
<1>1. PICK x \in T : \A y \in T : ~ (<<y, x>> \in OpToRel(<, Nat))
  BY NatLessThanWellFounded, WFMin
<1>2. \A y \in T : ~ (y < x)
  BY <1>1, Zenon DEF OpToRel
<1>3. \A y \in T : x =< y
  BY <1>2
<1> QED BY <1>3 DEF Min

(* max_chunk is a natural number. *)
LEMMA MaxChunkNat == max_chunk \in Nat
BY MemoryAssumption DEF max_chunk

(* Sizes round up to at least one chunk, and memory_free counts as many   *)
(* chunks as memory_allocate did, unless the size is 0.                    *)
LEMMA ChunksOfRequest ==
    ASSUME NEW size \in Requests, size # 0
    PROVE  /\ AllocChunks(size) \in Nat \ {0}
           /\ FreeChunks(size) = AllocChunks(size)
<1>1. (size - 1) % WordSize \in Nat
  BY MemoryAssumption
<1>2. ((size - 1) % WordSize) \div ChunkSize \in Nat
  BY <1>1, MemoryAssumption
<1> QED BY <1>2 DEF AllocChunks, FreeChunks, NumChunks

(* find_free returns NULL or the start of a run of clear bits that begins *)
(* below max_chunk; NULL means that there is no such run.                  *)
LEMMA FindFree ==
    ASSUME TypeOK, NEW n \in Nat \ {0}
    PROVE  \/ /\ find_free(n) = NULL
              /\ \A i \in 0 .. (max_chunk - 1) : ~ Fits(i, n)
           \/ /\ find_free(n) \in 0 .. (max_chunk - 1)
              /\ Fits(find_free(n), n)
<1> DEFINE after  == {i \in previous_block .. (max_chunk - 1) : Fits(i, n)}
           before == {i \in 0 .. (previous_block - 1) : Fits(i, n)}
<1>0. max_chunk \in Nat /\ previous_block \in 0 .. max_chunk
  BY MaxChunkNat DEF TypeOK
<1>1. after \subseteq Nat /\ before \subseteq Nat
  BY <1>0
<1>2. CASE after # {}
  <2>1. find_free(n) = Min(after)
    BY <1>2 DEF find_free
  <2>2. Min(after) \in after
    BY <1>1, <1>2, MinOfNats
  <2> QED BY <2>1, <2>2, <1>0
<1>3. CASE after = {} /\ before # {}
  <2>1. find_free(n) = Min(before)
    BY <1>3 DEF find_free
  <2>2. Min(before) \in before
    BY <1>1, <1>3, MinOfNats
  <2> QED BY <2>1, <2>2, <1>0
<1>4. CASE after = {} /\ before = {}
  <2>1. find_free(n) = NULL
    BY <1>4 DEF find_free
  <2>2. ASSUME NEW i \in 0 .. (max_chunk - 1)  PROVE ~ Fits(i, n)
    BY <1>0, <1>4
  <2> QED BY <2>1, <2>2
<1> QED BY <1>2, <1>3, <1>4

(* memory_init establishes the invariant. *)
LEMMA InitIInv == memory_init => IInv
BY MaxChunkNat, MemoryAssumption
   DEF memory_init, IInv, TypeOK, AreasDisjoint, KernelKept, MapExact, OsArea, NULL

(* A successful allocation. *)
LEMMA AllocateStep ==
    ASSUME IInv, 0 \notin Requests, NEW size \in Requests, memory_allocate(size)
    PROVE  IInv'
<1> DEFINE n == AllocChunks(size)
           i == find_free(n)
           a == [first |-> i, size |-> size]
<1>1. n \in Nat \ {0}
  BY ChunksOfRequest
<1>2. CASE i = NULL
  <2>1. UNCHANGED <<memory_map, previous_block, areas>> /\ result' = NULL
    BY <1>2 DEF memory_allocate
  <2> QED
    BY <2>1 DEF IInv, TypeOK, AreasDisjoint, KernelKept, MapExact
<1>3. CASE i # NULL
  <2>1. /\ i \in 0 .. (max_chunk - 1) /\ Run(i, n) \cap memory_map = {}
    BY <1>1, <1>3, FindFree DEF IInv, Fits
  <2>2. /\ result' = i
        /\ memory_map' = memory_map \cup Run(i, n)
        /\ previous_block' = i + 1
        /\ areas' = areas \cup {a}
    BY <1>3 DEF memory_allocate, ResumeAt
  <2>3. Cells(a) = Run(i, n)
    BY DEF Cells
  <2>4. \A b \in areas : Cells(b) \subseteq memory_map
    BY DEF IInv, MapExact
  <2>5. TypeOK'
    <3>1. Run(i, n) \subseteq Nat /\ i \in Nat /\ i + 1 \in 0 .. max_chunk
      BY <1>1, <2>1, MaxChunkNat DEF Run
    <3>2. a \in [first : Nat, size : Requests]
      BY <3>1
    <3> HIDE DEF i, a
    <3> QED BY <2>2, <3>1, <3>2 DEF IInv, TypeOK
  <2>6. AreasDisjoint'
    BY <2>1, <2>2, <2>3, <2>4 DEF IInv, AreasDisjoint
  <2>7. KernelKept'
    <3>1. OsArea \subseteq memory_map
      BY DEF IInv, MapExact
    <3> QED BY <3>1, <2>1, <2>2, <2>3 DEF IInv, KernelKept
  <2>8. MapExact'
    <3>1. UNION {Cells(b) : b \in areas'} = Cells(a) \cup (UNION {Cells(b) : b \in areas})
      BY <2>2
    <3> QED BY <3>1, <2>2, <2>3 DEF IInv, MapExact
  <2> QED BY <2>5, <2>6, <2>7, <2>8 DEF IInv
<1> QED BY <1>2, <1>3

(* A release. *)
LEMMA FreeStep ==
    ASSUME IInv, 0 \notin Requests, NEW a \in areas, memory_free(a)
    PROVE  IInv'
<1>1. a.size \in Requests /\ a.size # 0
  BY DEF IInv, TypeOK
<1>2. Run(a.first, FreeChunks(a.size)) = Cells(a)
  BY <1>1, ChunksOfRequest DEF Cells
<1>3. /\ memory_map' = memory_map \ Cells(a)
      /\ areas' = areas \ {a}
      /\ UNCHANGED <<previous_block, result>>
  BY <1>2 DEF memory_free
<1>4. TypeOK'
  BY <1>3 DEF IInv, TypeOK
<1>5. AreasDisjoint' /\ KernelKept'
  BY <1>3 DEF IInv, AreasDisjoint, KernelKept
<1>6. MapExact'
  <2>1. \A b \in areas \ {a} : Cells(b) \cap Cells(a) = {}
    BY DEF IInv, AreasDisjoint
  <2>2. OsArea \cap Cells(a) = {}
    BY DEF IInv, KernelKept, OsArea
  <2>3. UNION {Cells(b) : b \in areas} = Cells(a) \cup (UNION {Cells(b) : b \in areas \ {a}})
    BY areas = (areas \ {a}) \cup {a}
  <2>4. (UNION {Cells(b) : b \in areas \ {a}}) \cap Cells(a) = {}
    BY <2>1
  <2> QED BY <1>3, <2>2, <2>3, <2>4 DEF IInv, MapExact
<1> QED BY <1>4, <1>5, <1>6 DEF IInv

(* Every step of the allocator preserves its invariant. *)
LEMMA IInvInductive ==
    ASSUME 0 \notin Requests
    PROVE  IInv /\ [Next]_vars => IInv'
<1> SUFFICES ASSUME IInv, [Next]_vars PROVE IInv'
  OBVIOUS
<1>1. CASE Allocate
  BY <1>1, AllocateStep DEF Allocate
<1>2. CASE Free
  BY <1>2, FreeStep DEF Free
<1>3. CASE UNCHANGED vars
  BY <1>3 DEF vars, IInv, TypeOK, AreasDisjoint, KernelKept, MapExact
<1> QED BY <1>1, <1>2, <1>3 DEF Next

(* The allocator keeps its invariant: live areas are disjoint from each   *)
(* other and from the kernel image, and the bitmap says exactly which     *)
(* chunks are held, on every machine and after every sequence of calls.   *)
THEOREM AllocatorSafe ==
    ASSUME 0 \notin Requests
    PROVE  Spec => [](TypeOK /\ AreasDisjoint /\ KernelKept /\ MapExact)
<1>1. IInv => TypeOK /\ AreasDisjoint /\ KernelKept /\ MapExact
  BY DEF IInv
<1> QED BY InitIInv, IInvInductive, <1>1, PTL DEF Spec

(* memory_allocate fails only when no run of free chunks that starts in   *)
(* memory is long enough: the rotating search of find_free is complete.   *)
THEOREM AllocatorComplete ==
    ASSUME 0 \notin Requests
    PROVE  Spec => FailsOnlyWhenFull
<1> DEFINE Complete ==
        \A size \in Requests :
            (memory_allocate(size) /\ result' = NULL)
                => \A i \in 0 .. (max_chunk - 1) : ~ Fits(i, AllocChunks(size))
<1>1. ASSUME IInv  PROVE Complete
  <2> SUFFICES ASSUME NEW size \in Requests, memory_allocate(size), result' = NULL
               PROVE  \A i \in 0 .. (max_chunk - 1) : ~ Fits(i, AllocChunks(size))
    OBVIOUS
  <2>1. AllocChunks(size) \in Nat \ {0}
    BY ChunksOfRequest
  <2>2. find_free(AllocChunks(size)) = NULL
    BY DEF memory_allocate
  <2> QED BY <1>1, <2>1, <2>2, FindFree, MaxChunkNat DEF IInv, NULL
<1> QED BY <1>1, InitIInv, IInvInductive, PTL DEF Spec, FailsOnlyWhenFull

(* The allocator implements the abstract heap: every step of memory.c is  *)
(* an allocation of unheld memory, a release of one area, or invisible.   *)
THEOREM AllocatorRefinesHeap ==
    ASSUME 0 \notin Requests
    PROVE  Spec => HeapSpec
<1>1. memory_init => Promise!Init
  BY DEF memory_init, Promise!Init
<1>2. ASSUME IInv, [Next]_vars  PROVE [Promise!Next]_areas
  <2>1. CASE Allocate
    <3>1. PICK size \in Requests : memory_allocate(size)
      BY <2>1 DEF Allocate
    <3> DEFINE n == AllocChunks(size)
               i == find_free(n)
               a == [first |-> i, size |-> size]
    <3>2. n \in Nat \ {0}
      BY ChunksOfRequest
    <3>3. CASE i = NULL
      BY <3>1, <3>3 DEF memory_allocate
    <3>4. CASE i # NULL
      <4>1. i \in 0 .. (max_chunk - 1) /\ Run(i, n) \cap memory_map = {}
        BY <1>2, <3>2, <3>4, FindFree DEF IInv, Fits
      <4>2. areas' = areas \cup {a}
        BY <3>1, <3>4 DEF memory_allocate
      <4>3. Promise!Cells(a) = Run(i, n) /\ \A b : Promise!Cells(b) = Cells(b)
        BY DEF Promise!Cells, Cells, Run
      <4>4. OsArea \subseteq memory_map /\ \A b \in areas : Cells(b) \subseteq memory_map
        BY <1>2 DEF IInv, MapExact
      <4>5. Promise!Cells(a) \cap OsArea = {}
        BY <4>1, <4>3, <4>4
      <4>6. \A b \in areas : Promise!Cells(a) \cap Promise!Cells(b) = {}
        BY <4>1, <4>3, <4>4
      <4>7. Promise!Allocate
        BY <4>1, <4>2, <4>5, <4>6 DEF Promise!Allocate
      <4> QED BY <4>7 DEF Promise!Next
    <3> QED BY <3>3, <3>4
  <2>2. CASE Free
    BY <2>2 DEF Free, memory_free, Promise!Next, Promise!Release
  <2>3. CASE UNCHANGED vars
    BY <2>3 DEF vars
  <2> QED BY <1>2, <2>1, <2>2, <2>3 DEF Next
<1> QED BY <1>1, <1>2, InitIInv, IInvInductive, PTL DEF Spec, HeapSpec, Promise!Spec

----------------------------------------------------------------------------
(* The memory of processes. *)

Areas == [first : Nat, size : Requests]

(* Types of the pointers; a call that frees has loaded nothing. *)
PointersOK ==
    /\ pcb \in [Proc -> Areas \cup {None}]
    /\ text \in [Proc -> Areas \cup {None}]
    /\ stack \in [Proc -> Areas \cup {None}]
    /\ call \in [binary : Areas \cup {None}, free : Seq(Areas), proc : Proc \cup {NULL}]
    /\ call.free # <<>> => call.binary = None

(* The inductive invariant: the allocator's, and the account. *)
ExecInv == IInv /\ PointersOK /\ Accounted

(* The account of holders H (triples, with the area last), lost areas L   *)
(* and allocated areas A.                                                 *)
Account(H, L, A) ==
    /\ A = {x[3] : x \in H} \cup L
    /\ \A x, y \in H : x[3] = y[3] => x = y
    /\ \A x \in H : x[3] \notin L

----------------------------------------------------------------------------
(* How an account changes. *)

(* Areas nobody has are given to new holders, one each, ... *)
LEMMA AccountAdd ==
    ASSUME NEW H, NEW L, NEW A, Account(H, L, A), NEW G,
           \A x \in G : x[3] \notin A, \A x, y \in G : x[3] = y[3] => x = y
    PROVE  Account(H \cup G, L, A \cup {x[3] : x \in G})
BY DEF Account

(* ... or lost at once. *)
LEMMA AccountLost ==
    ASSUME NEW H, NEW L, NEW A, Account(H, L, A), NEW B, B \cap A = {}
    PROVE  Account(H, L \cup B, A \cup B)
BY DEF Account

(* Some holders give back what they have. *)
LEMMA AccountDrop ==
    ASSUME NEW H, NEW L, NEW A, Account(H, L, A), NEW G, G \subseteq H
    PROVE  Account(H \ G, L, A \ {x[3] : x \in G})
BY DEF Account

(* One area more, one area less. *)
LEMMA AccountOne ==
    ASSUME NEW H, NEW L, NEW A, Account(H, L, A), NEW a, NEW h, h[3] = a
    PROVE  /\ a \notin A => Account(H \cup {h}, L, A \cup {a})
           /\ h \in H => Account(H \ {h}, L, A \ {a})
BY DEF Account

(* None is no area. *)
LEMMA NoneIsNoArea == None \notin Areas
BY DEF None, Areas, NULL

(* An allocation fails and changes nothing, or returns an area that nobody *)
(* has.                                                                    *)
LEMMA AllocateFresh ==
    ASSUME IInv, NEW size \in Requests, memory_allocate(size)
    PROVE  \/ Area(result', size) = None /\ areas' = areas
           \/ /\ Area(result', size) \in Areas \ areas
              /\ areas' = areas \cup {Area(result', size)}
<1> DEFINE n == AllocChunks(size)
           i == find_free(n)
           a == [first |-> i, size |-> size]
<1>1. n \in Nat \ {0}
  BY ChunksOfRequest, ExecAssumption
<1>2. result' = i
  BY DEF memory_allocate
<1>3. CASE i = NULL
  BY <1>2, <1>3 DEF memory_allocate, Area
<1>4. CASE i # NULL
  <2>1. i \in 0 .. (max_chunk - 1) /\ Run(i, n) \cap memory_map = {}
    BY <1>1, <1>4, FindFree DEF IInv, Fits
  <2>2. areas' = areas \cup {a} /\ Area(result', size) = a
    BY <1>2, <1>4 DEF memory_allocate, Area
  <2>3. Cells(a) = Run(i, n) /\ i \in Run(i, n)
    BY <1>1, <2>1, MaxChunkNat DEF Cells, Run
  <2>4. a \notin areas
    BY <2>1, <2>3 DEF IInv, MapExact
  <2>5. a \in Areas
    BY <2>1, MaxChunkNat DEF Areas
  <2> QED BY <2>2, <2>4, <2>5
<1> QED BY <1>3, <1>4

(* Short sequences put together. *)
LEMMA Joined ==
    ASSUME NEW a, NEW b, NEW c
    PROVE  /\ <<>> \o <<c>> = <<c>>
           /\ <<a>> \o <<>> = <<a>>
           /\ <<a>> \o <<c>> = <<a, c>>
           /\ <<a>> \o <<b>> \o <<c>> = <<a, b, c>>
<1> DEFINE S == {a, b, c}
<1>1. <<>> \in Seq(S) /\ <<a>> \in Seq(S) /\ <<c>> \in Seq(S) /\ <<a, b>> \in Seq(S)
  OBVIOUS
<1>2. <<a, c>> \in Seq(S) /\ <<a, b, c>> \in Seq(S)
  OBVIOUS
<1>3. <<>> \o <<c>> = <<c>> /\ <<a>> \o <<>> = <<a>>
  BY <1>1, ConcatEmptySeq
<1>4. <<a>> \o <<c>> = <<a, c>>
  <2>1. Len(<<a>>) = 1 /\ Len(<<c>>) = 1 /\ Len(<<a, c>>) = 2
    OBVIOUS
  <2>2. Len(<<a>> \o <<c>>) = 2 /\ \A i \in 1 .. 2 : (<<a>> \o <<c>>)[i] = <<a, c>>[i]
    BY <1>1, <2>1
  <2> QED BY <1>1, <1>2, <2>1, <2>2, SeqEqual, ConcatProperties
<1>5. <<a, b>> \o <<c>> = <<a, b, c>>
  <2>1. Len(<<a, b>>) = 2 /\ Len(<<c>>) = 1 /\ Len(<<a, b, c>>) = 3
    OBVIOUS
  <2>2. Len(<<a, b>> \o <<c>>) = 3 /\ \A i \in 1 .. 3 : (<<a, b>> \o <<c>>)[i] = <<a, b, c>>[i]
    BY <1>1, <2>1
  <2> QED BY <1>1, <1>2, <2>1, <2>2, SeqEqual, ConcatProperties
<1>6. <<a>> \o <<b>> = <<a, b>>
  <2>1. Len(<<a>> \o <<b>>) = 2 /\ \A i \in 1 .. 2 : (<<a>> \o <<b>>)[i] = <<a, b>>[i]
    OBVIOUS
  <2>2. <<b>> \in Seq(S) /\ Len(<<a, b>>) = 2
    OBVIOUS
  <2> QED BY <1>1, <2>1, <2>2, SeqEqual, ConcatProperties
<1> QED BY <1>3, <1>4, <1>5, <1>6

(* What process_destroy frees are the areas of the process, each once. *)
LEMMA OfProcessFacts ==
    ASSUME PointersOK, NEW p \in Proc, Exists(p),
           stack[p] # None => stack[p] \notin {text[p], pcb[p]},
           text[p] # None => text[p] # pcb[p]
    PROVE  /\ OfProcess(p) \in Seq(Areas) /\ OfProcess(p) # <<>>
           /\ {OfProcess(p)[k] : k \in DOMAIN OfProcess(p)}
                  = {pcb[p], text[p], stack[p]} \ {None}
           /\ \A j, k \in DOMAIN OfProcess(p) : OfProcess(p)[j] = OfProcess(p)[k] => j = k
<1>1. pcb[p] \in Areas /\ text[p] \in Areas \cup {None} /\ stack[p] \in Areas \cup {None}
  BY DEF PointersOK, Exists
<1>2. CASE stack[p] = None /\ text[p] = None
  <2>1. OfProcess(p) = <<pcb[p]>>
    BY <1>1, <1>2 DEF OfProcess, IfAny
  <2> QED BY <1>1, <1>2, <2>1, NoneIsNoArea
<1>3. CASE stack[p] = None /\ text[p] # None
  <2>1. OfProcess(p) = <<text[p], pcb[p]>>
    BY <1>3, Joined DEF OfProcess, IfAny
  <2> QED BY <1>1, <1>3, <2>1, NoneIsNoArea
<1>4. CASE stack[p] # None /\ text[p] = None
  <2>1. OfProcess(p) = <<stack[p], pcb[p]>>
    BY <1>4, Joined DEF OfProcess, IfAny
  <2> QED BY <1>1, <1>4, <2>1, NoneIsNoArea
<1>5. CASE stack[p] # None /\ text[p] # None
  <2>1. OfProcess(p) = <<stack[p], text[p], pcb[p]>>
    BY <1>5, Joined DEF OfProcess, IfAny
  <2> QED BY <1>1, <1>5, <2>1, NoneIsNoArea
<1> QED BY <1>2, <1>3, <1>4, <1>5

----------------------------------------------------------------------------
(* The holders, kind by kind. *)
HeldAs(kind, ptr) == {<<kind, p, ptr[p]>> : p \in {q \in Proc : ptr[q] # None}}
HeldByCall(c) == IF c.binary = None THEN {} ELSE {<<"call", c.proc, c.binary>>}
HeldToFree(c) == {<<"free", k, c.free[k]>> : k \in DOMAIN c.free}
HeldParts ==
    HeldAs("pcb", pcb) \cup HeldAs("text", text) \cup HeldAs("stack", stack)
      \cup HeldByCall(call) \cup HeldToFree(call)

(* Held is made up of them. *)
LEMMA HeldByParts == PointersOK => Held = HeldParts
<1> SUFFICES ASSUME PointersOK PROVE Held = HeldParts
  OBVIOUS
<1>1. \A k \in DOMAIN call.free : call.free[k] # None
  BY NoneIsNoArea DEF PointersOK
<1> QED BY <1>1 DEF Held, Pointers, HeldParts, HeldAs, HeldByCall, HeldToFree

(* The account of the next state, from its holders. *)
LEMMA AccountedNext ==
    (PointersOK /\ Account(HeldParts, lost, areas) => Accounted)'
<1>1. PointersOK /\ Account(HeldParts, lost, areas) => Accounted
  BY HeldByParts DEF Account, Accounted
<1> QED BY <1>1, PTL

(* The account of this state. *)
LEMMA AccountedNow == ExecInv => Account(HeldParts, lost, areas)
BY HeldByParts DEF ExecInv, Account, Accounted

(* A pointer is set. *)
LEMMA HeldAsSet ==
    ASSUME NEW kind, NEW ptr, NEW new, NEW p \in Proc, new[p] # None,
           \A q \in Proc \ {p} : new[q] = ptr[q]
    PROVE  HeldAs(kind, new)
             = (HeldAs(kind, ptr) \ {<<kind, p, ptr[p]>>}) \cup {<<kind, p, new[p]>>}
BY DEF HeldAs

(* Holders of different kinds are different; who holds has something. *)
LEMMA HeldAsKind ==
    ASSUME NEW kind, NEW ptr, NEW p \in Proc
    PROVE  /\ \A x \in HeldAs(kind, ptr) : x[1] = kind
           /\ <<kind, p, ptr[p]>> \in HeldAs(kind, ptr) <=> ptr[p] # None
BY DEF HeldAs

(* Nothing is held by no call. *)
LEMMA NothingHeld ==
    /\ HeldByCall(Nothing) = {} /\ HeldToFree(Nothing) = {}
    /\ Nothing \in [binary : Areas \cup {None}, free : Seq(Areas), proc : Proc \cup {NULL}]
    /\ Nothing.binary = None /\ Nothing.free = <<>>
BY DEF Nothing, HeldByCall, HeldToFree

(* process_create *)
LEMMA CreateStep ==
    ASSUME ExecInv, NEW p \in Proc, process_create(p)
    PROVE  ExecInv'
<1>1. /\ memory_allocate(PcbSize) /\ pcb' = [pcb EXCEPT ![p] = Area(result', PcbSize)]
      /\ UNCHANGED <<text, stack, call, lost>> /\ pcb[p] = None
  BY DEF process_create, Exists
<1>2. PcbSize \in Requests
  BY ExecAssumption
<1>3. IInv'
  BY <1>1, <1>2, AllocateStep, ExecAssumption DEF ExecInv
<1> DEFINE a == Area(result', PcbSize)
<1>4. \/ a = None /\ areas' = areas
      \/ a \in Areas \ areas /\ areas' = areas \cup {a}
  BY <1>1, <1>2, AllocateFresh DEF ExecInv
<1> HIDE DEF a
<1>5. PointersOK'
  BY <1>1, <1>4 DEF ExecInv, PointersOK, a
<1>6. Account(HeldParts, lost, areas)'
  <2>1. Account(HeldParts, lost, areas)
    BY AccountedNow
  <2>2. CASE a = None /\ areas' = areas
    <3>1. pcb' = pcb
      BY <1>1, <2>2 DEF ExecInv, PointersOK, a
    <3> QED BY <1>1, <2>1, <2>2, <3>1 DEF HeldParts
  <2>3. CASE a \in Areas \ areas /\ areas' = areas \cup {a}
    <3>1. /\ HeldAs("pcb", pcb')
               = (HeldAs("pcb", pcb) \ {<<"pcb", p, None>>}) \cup {<<"pcb", p, a>>}
          /\ <<"pcb", p, None>> \notin HeldAs("pcb", pcb)
      <4>1. pcb[p] = None /\ pcb'[p] = a /\ \A q \in Proc \ {p} : pcb'[q] = pcb[q]
        BY <1>1 DEF ExecInv, PointersOK, a
      <4>2. <<"pcb", p, None>> \notin HeldAs("pcb", pcb)
        BY <4>1, HeldAsKind
      <4>3. pcb'[p] # None
        BY <2>3, <4>1, NoneIsNoArea
      <4>4. HeldAs("pcb", pcb')
              = (HeldAs("pcb", pcb) \ {<<"pcb", p, pcb[p]>>}) \cup {<<"pcb", p, pcb'[p]>>}
        BY <4>1, <4>3, HeldAsSet
      <4> QED BY <4>1, <4>2, <4>4
    <3>2. HeldParts' = HeldParts \cup {<<"pcb", p, a>>}
      BY <1>1, <3>1 DEF HeldParts
    <3>3. Account(HeldParts \cup {<<"pcb", p, a>>}, lost, areas \cup {a})
      BY <2>1, <2>3, AccountOne, <<"pcb", p, a>>[3] = a
    <3> QED BY <1>1, <2>3, <3>2, <3>3
  <2> QED BY <1>4, <2>2, <2>3
<1> QED BY <1>3, <1>5, <1>6, AccountedNext DEF ExecInv

(* execve allocates the text. *)
LEMMA LoadTextStep ==
    ASSUME ExecInv, NEW p \in Proc, LoadText(p)
    PROVE  ExecInv'
<1>1. PICK size \in TextSizes :
        /\ memory_allocate(size)
        /\ call' = [Nothing EXCEPT !.proc = p, !.binary = Area(result', size)]
  BY DEF LoadText
<1>2. call = Nothing /\ UNCHANGED <<pcb, text, stack, lost>> /\ size \in Requests
  BY ExecAssumption DEF LoadText, Ready
<1>3. IInv'
  BY <1>1, <1>2, AllocateStep, ExecAssumption DEF ExecInv
<1> DEFINE a == Area(result', size)
<1>4. \/ a = None /\ areas' = areas
      \/ a \in Areas \ areas /\ areas' = areas \cup {a}
  BY <1>1, <1>2, AllocateFresh DEF ExecInv
<1>5. call' = [binary |-> a, free |-> <<>>, proc |-> p]
  BY <1>1 DEF Nothing
<1> HIDE DEF a
<1>6. PointersOK'
  BY <1>2, <1>4, <1>5 DEF ExecInv, PointersOK
<1>7. Account(HeldParts, lost, areas)'
  <2>1. Account(HeldParts, lost, areas)
    BY AccountedNow
  <2>2. /\ HeldToFree(call') = {} /\ HeldByCall(call) = {} /\ HeldToFree(call) = {}
        /\ HeldByCall(call') = IF a = None THEN {} ELSE {<<"call", p, a>>}
    BY <1>2, <1>5, NothingHeld DEF HeldToFree, HeldByCall
  <2>3. CASE a = None /\ areas' = areas
    BY <1>2, <2>1, <2>2, <2>3 DEF HeldParts
  <2>4. CASE a \in Areas \ areas /\ areas' = areas \cup {a}
    <3>1. HeldParts' = HeldParts \cup {<<"call", p, a>>}
      BY <1>2, <2>2, <2>4, NoneIsNoArea DEF HeldParts
    <3>2. Account(HeldParts \cup {<<"call", p, a>>}, lost, areas \cup {a})
      BY <2>1, <2>4, AccountOne, <<"call", p, a>>[3] = a
    <3> QED BY <1>2, <2>4, <3>1, <3>2
  <2> QED BY <1>4, <2>3, <2>4
<1> QED BY <1>3, <1>6, <1>7, AccountedNext DEF ExecInv

(* Nothing that is not an area is lost. *)
LEMMA LostAreAreas == ExecInv => lost \subseteq areas /\ areas \subseteq Areas /\ None \notin areas
BY NoneIsNoArea DEF ExecInv, Accounted, IInv, TypeOK, Areas

(* MALLOC *)
LEMMA MallocStep ==
    ASSUME ExecInv, Malloc
    PROVE  ExecInv'
<1>1. PICK size \in MallocSizes :
        memory_allocate(size) /\ lost' = (lost \cup {Area(result', size)}) \ {None}
  BY DEF Malloc
<1>2. UNCHANGED <<pcb, text, stack, call>> /\ size \in Requests
  BY ExecAssumption DEF Malloc
<1>3. IInv'
  BY <1>1, <1>2, AllocateStep, ExecAssumption DEF ExecInv
<1> DEFINE a == Area(result', size)
<1>4. \/ a = None /\ areas' = areas
      \/ a \in Areas \ areas /\ areas' = areas \cup {a}
  BY <1>1, <1>2, AllocateFresh DEF ExecInv
<1> HIDE DEF a
<1>5. PointersOK' /\ HeldParts' = HeldParts
  BY <1>2 DEF ExecInv, PointersOK, HeldParts
<1>6. Account(HeldParts, lost, areas)'
  <2>1. Account(HeldParts, lost, areas)
    BY AccountedNow
  <2>2. CASE a = None /\ areas' = areas
    <3>1. lost' = lost
      BY <1>1, <2>2, LostAreAreas DEF a
    <3> QED BY <1>5, <2>1, <2>2, <3>1
  <2>3. CASE a \in Areas \ areas /\ areas' = areas \cup {a}
    <3>1. lost' = lost \cup {a}
      BY <1>1, <2>3, LostAreAreas, NoneIsNoArea DEF a
    <3> QED BY <1>5, <2>1, <2>3, <3>1, AccountLost
  <2> QED BY <1>4, <2>2, <2>3
<1> QED BY <1>3, <1>5, <1>6, AccountedNext DEF ExecInv

(* process_destroy takes the process off the list. *)
LEMMA DestroyStep ==
    ASSUME ExecInv, NEW p \in Proc, process_destroy(p)
    PROVE  ExecInv'
<1>1. /\ call = Nothing /\ pcb[p] # None
      /\ pcb' = [pcb EXCEPT ![p] = None] /\ text' = [text EXCEPT ![p] = None]
      /\ stack' = [stack EXCEPT ![p] = None]
      /\ UNCHANGED <<vars, lost>>
      /\ call' = [Nothing EXCEPT !.proc = p, !.free = OfProcess(p)]
  BY DEF process_destroy, Ready, Exists
<1> DEFINE f == OfProcess(p)
           G == ({<<"pcb", p, pcb[p]>>, <<"text", p, text[p]>>, <<"stack", p, stack[p]>>})
                    \cap HeldParts
           F == {<<"free", k, f[k]>> : k \in DOMAIN f}
           R == {pcb[p], text[p], stack[p]} \ {None}
<1>2. IInv'
  BY <1>1 DEF ExecInv, IInv, TypeOK, AreasDisjoint, KernelKept, MapExact, vars
<1>3. Account(HeldParts, lost, areas)
  BY AccountedNow
<1>4. /\ HeldByCall(call) = {} /\ HeldToFree(call) = {}
      /\ HeldParts = HeldAs("pcb", pcb) \cup HeldAs("text", text) \cup HeldAs("stack", stack)
  BY <1>1, NothingHeld DEF HeldParts
<1>5. /\ <<"pcb", p, pcb[p]>> \in HeldParts
      /\ text[p] # None => <<"text", p, text[p]>> \in HeldParts
      /\ stack[p] # None => <<"stack", p, stack[p]>> \in HeldParts
  BY <1>1, <1>4, HeldAsKind
<1>6. \A x \in HeldParts : x[3] # None
  BY <1>3, LostAreAreas DEF Account
<1>7. /\ stack[p] # None => stack[p] \notin {text[p], pcb[p]}
      /\ text[p] # None => text[p] # pcb[p]
  <2>1. /\ <<"pcb", p, pcb[p]>>[3] = pcb[p] /\ <<"text", p, text[p]>>[3] = text[p]
        /\ <<"stack", p, stack[p]>>[3] = stack[p]
    OBVIOUS
  <2>2. \A x, y \in HeldParts : x[3] = y[3] => x = y
    BY <1>3 DEF Account
  <2> QED BY <1>1, <1>5, <2>1, <2>2
<1>8. /\ f \in Seq(Areas) /\ f # <<>> /\ {f[k] : k \in DOMAIN f} = R
      /\ \A j, k \in DOMAIN f : f[j] = f[k] => j = k
  BY <1>1, <1>7, OfProcessFacts DEF ExecInv, Exists
<1> HIDE DEF f
<1>9. call' = [binary |-> None, free |-> f, proc |-> p]
  BY <1>1 DEF Nothing, f
<1>10. PointersOK'
  <2>1. /\ pcb' \in [Proc -> Areas \cup {None}] /\ text' \in [Proc -> Areas \cup {None}]
        /\ stack' \in [Proc -> Areas \cup {None}]
    BY <1>1 DEF ExecInv, PointersOK
  <2>2. /\ call' \in [binary : Areas \cup {None}, free : Seq(Areas), proc : Proc \cup {NULL}]
        /\ call'.binary = None
    BY <1>8, <1>9
  <2> QED BY <2>1, <2>2 DEF PointersOK
<1>11. HeldParts' = (HeldParts \ G) \cup F
  <2>1. /\ pcb'[p] = None /\ text'[p] = None /\ stack'[p] = None
        /\ \A q \in Proc \ {p} : pcb'[q] = pcb[q] /\ text'[q] = text[q] /\ stack'[q] = stack[q]
    BY <1>1 DEF ExecInv, PointersOK
  <2>2. HeldAs("pcb", pcb') = HeldAs("pcb", pcb) \ {<<"pcb", p, pcb[p]>>}
    <3>1. pcb'[p] = None /\ \A q \in Proc \ {p} : pcb'[q] = pcb[q]
      BY <2>1
    <3> QED BY <3>1 DEF HeldAs
  <2>3. HeldAs("text", text') = HeldAs("text", text) \ {<<"text", p, text[p]>>}
    <3>1. text'[p] = None /\ \A q \in Proc \ {p} : text'[q] = text[q]
      BY <2>1
    <3> QED BY <3>1 DEF HeldAs
  <2>4. HeldAs("stack", stack') = HeldAs("stack", stack) \ {<<"stack", p, stack[p]>>}
    <3>1. stack'[p] = None /\ \A q \in Proc \ {p} : stack'[q] = stack[q]
      BY <2>1
    <3> QED BY <3>1 DEF HeldAs
  <2>5. HeldByCall(call') = {} /\ HeldToFree(call') = F
    BY <1>9 DEF HeldByCall, HeldToFree
  <2>6. /\ \A x \in HeldAs("pcb", pcb) : x[1] = "pcb"
        /\ \A x \in HeldAs("text", text) : x[1] = "text"
        /\ \A x \in HeldAs("stack", stack) : x[1] = "stack"
    BY HeldAsKind
  <2>7. /\ HeldAs("pcb", pcb) \ G = HeldAs("pcb", pcb) \ {<<"pcb", p, pcb[p]>>}
        /\ HeldAs("text", text) \ G = HeldAs("text", text) \ {<<"text", p, text[p]>>}
        /\ HeldAs("stack", stack) \ G = HeldAs("stack", stack) \ {<<"stack", p, stack[p]>>}
    BY <1>4, <2>6
  <2> QED BY <1>4, <2>2, <2>3, <2>4, <2>5, <2>7 DEF HeldParts
<1>12. {x[3] : x \in G} = R
  BY <1>5, <1>6
<1>13. {x[3] : x \in F} = R
  <2>1. ASSUME NEW k \in DOMAIN f  PROVE f[k] \in {x[3] : x \in F}
    <3>1. <<"free", k, f[k]>> \in F /\ <<"free", k, f[k]>>[3] = f[k]
      OBVIOUS
    <3> QED BY <3>1
  <2>2. ASSUME NEW x \in F  PROVE x[3] \in {f[k] : k \in DOMAIN f}
    OBVIOUS
  <2>3. {x[3] : x \in F} = {f[k] : k \in DOMAIN f}
    <3> HIDE DEF F
    <3> QED BY <2>1, <2>2
  <2> QED BY <1>8, <2>3
<1>14. R \subseteq areas
  BY <1>3, <1>12 DEF Account
<1>15. Account((HeldParts \ G) \cup F, lost, areas)
  <2>1. G \subseteq HeldParts
    OBVIOUS
  <2>2. \A x, y \in F : x[3] = y[3] => x = y
    BY <1>8
  <2> HIDE DEF G, F, R
  <2>3. Account(HeldParts \ G, lost, areas \ R)
    BY <1>3, <1>12, <2>1, AccountDrop
  <2>4. \A x \in F : x[3] \notin areas \ R
    BY <1>13
  <2>5. Account((HeldParts \ G) \cup F, lost, (areas \ R) \cup R)
    BY <1>13, <2>2, <2>3, <2>4, AccountAdd
  <2>6. (areas \ R) \cup R = areas
    BY <1>14
  <2> QED BY <2>5, <2>6
<1>16. Account(HeldParts, lost, areas)'
  BY <1>1, <1>11, <1>15 DEF vars
<1> QED BY <1>2, <1>10, <1>16, AccountedNext DEF ExecInv

(* One of the areas of a process is freed. *)
LEMMA FreeNextStep ==
    ASSUME ExecInv, FreeNext
    PROVE  ExecInv' /\ Head(call.free) \in areas
<1> DEFINE f == call.free
           n == Len(f)
           G == {<<"free", k, f[k]>> : k \in DOMAIN f}
           F == {<<"free", k, f[k + 1]>> : k \in 1 .. (n - 1)}
           K == HeldAs("pcb", pcb) \cup HeldAs("text", text) \cup HeldAs("stack", stack)
<1>1. /\ memory_free(Head(f)) /\ f # <<>>
      /\ call' = IF Len(f) = 1 THEN Nothing ELSE [call EXCEPT !.free = Tail(@)]
      /\ UNCHANGED <<pcb, text, stack, lost>>
  BY DEF FreeNext
<1>2. /\ f \in Seq(Areas) /\ n \in Nat /\ n > 0 /\ DOMAIN f = 1 .. n /\ Head(f) = f[1]
      /\ call.binary = None
      /\ call \in [binary : Areas \cup {None}, free : Seq(Areas), proc : Proc \cup {NULL}]
  BY <1>1 DEF ExecInv, PointersOK
<1>3. Account(HeldParts, lost, areas)
  BY AccountedNow
<1>4. HeldParts = K \cup G /\ G \subseteq HeldParts
  BY <1>2 DEF HeldParts, HeldByCall, HeldToFree
<1>5. K \cap G = {}
  BY HeldAsKind DEF HeldAs
<1>6. \A k \in 1 .. n : <<"free", k, f[k]>> \in G /\ <<"free", k, f[k]>>[3] = f[k]
  BY <1>2
<1>7. \A j, k \in 1 .. n : f[j] = f[k] => j = k
  <2> SUFFICES ASSUME NEW j \in 1 .. n, NEW k \in 1 .. n, f[j] = f[k] PROVE j = k
    OBVIOUS
  <2>1. <<"free", j, f[j]>> = <<"free", k, f[k]>>
    BY <1>3, <1>4, <1>6 DEF Account
  <2> QED BY <2>1
<1>8. \A k \in 1 .. n : f[k] \in areas
  <2>1. \A x \in HeldParts : x[3] \in areas
    BY <1>3 DEF Account
  <2> SUFFICES ASSUME NEW k \in 1 .. n PROVE f[k] \in areas
    OBVIOUS
  <2>2. <<"free", k, f[k]>> \in HeldParts /\ <<"free", k, f[k]>>[3] = f[k]
    BY <1>4, <1>6
  <2> QED BY <2>1, <2>2
<1>9. IInv' /\ areas' = areas \ {f[1]}
  BY <1>1, <1>2, <1>8, FreeStep, ExecAssumption DEF ExecInv, memory_free
<1>10. /\ call'.binary = None /\ call'.free \in Seq(Areas) /\ Len(call'.free) = n - 1
       /\ \A k \in 1 .. (n - 1) : call'.free[k] = f[k + 1]
       /\ call' \in [binary : Areas \cup {None}, free : Seq(Areas), proc : Proc \cup {NULL}]
  <2>1. CASE n = 1
    BY <1>1, <2>1, NothingHeld
  <2>2. CASE n # 1
    <3>1. /\ Tail(f) \in Seq(Areas) /\ Len(Tail(f)) = n - 1
          /\ \A k \in 1 .. (n - 1) : Tail(f)[k] = f[k + 1]
      BY <1>1, <1>2, HeadTailProperties
    <3>2. call' = [call EXCEPT !.free = Tail(f)]
      BY <1>1, <2>2
    <3>3. /\ call'.free = Tail(f) /\ call'.binary = None
          /\ call' \in [binary : Areas \cup {None}, free : Seq(Areas), proc : Proc \cup {NULL}]
      BY <1>2, <3>1, <3>2
    <3> QED BY <3>1, <3>3
  <2> QED BY <2>1, <2>2
<1>11. PointersOK'
  BY <1>1, <1>10 DEF ExecInv, PointersOK
<1>12. HeldParts' = K \cup F
  <2>1. DOMAIN call'.free = 1 .. (n - 1)
    BY <1>2, <1>10
  <2>2. HeldToFree(call') = F /\ HeldByCall(call') = {}
    BY <1>10, <2>1 DEF HeldToFree, HeldByCall
  <2> QED BY <1>1, <2>2 DEF HeldParts
<1>13. {x[3] : x \in G} = {f[k] : k \in 1 .. n}
  <2>1. ASSUME NEW k \in 1 .. n  PROVE f[k] \in {x[3] : x \in G}
    BY <1>6
  <2>2. ASSUME NEW x \in G  PROVE x[3] \in {f[k] : k \in 1 .. n}
    BY <1>2
  <2> HIDE DEF G
  <2> QED BY <2>1, <2>2
<1>14. {x[3] : x \in F} = {f[k] : k \in 2 .. n}
  <2>1. ASSUME NEW k \in 2 .. n  PROVE f[k] \in {x[3] : x \in F}
    <3>1. k - 1 \in 1 .. (n - 1) /\ (k - 1) + 1 = k
      BY <1>2
    <3>2. <<"free", k - 1, f[(k - 1) + 1]>> \in F
      BY <3>1
    <3> QED BY <3>1, <3>2, <<"free", k - 1, f[(k - 1) + 1]>>[3] = f[(k - 1) + 1]
  <2>2. ASSUME NEW x \in F  PROVE x[3] \in {f[k] : k \in 2 .. n}
    BY <1>2
  <2> HIDE DEF F
  <2> QED BY <2>1, <2>2
<1>15. \A x, y \in F : x[3] = y[3] => x = y
  BY <1>2, <1>7
<1>16. Account(K \cup F, lost, areas \ {f[1]})
  <2> DEFINE R == {f[k] : k \in 1 .. n}
             T == {f[k] : k \in 2 .. n}
  <2>1. R \subseteq areas /\ T = R \ {f[1]} /\ f[1] \in R
    <3>1. R \subseteq areas
      BY <1>8
    <3>2. ASSUME NEW k \in 1 .. n  PROVE k # 1 <=> k \in 2 .. n
      BY <1>2
    <3>3. 1 \in 1 .. n /\ \A k \in 2 .. n : k \in 1 .. n /\ k # 1
      BY <1>2
    <3> QED BY <1>7, <3>1, <3>2, <3>3
  <2>2. HeldParts \ G = K
    BY <1>4, <1>5
  <2> HIDE DEF K, F, G, R, T, f
  <2>3. Account(K, lost, areas \ R)
    <3>1. Account(HeldParts \ G, lost, areas \ {x[3] : x \in G})
      BY <1>3, <1>4, AccountDrop
    <3> QED BY <1>13, <2>2, <3>1 DEF R
  <2>4. \A x \in F : x[3] \notin areas \ R
    BY <1>14, <2>1 DEF T
  <2>5. Account(K \cup F, lost, (areas \ R) \cup T)
    BY <1>14, <1>15, <2>3, <2>4, AccountAdd DEF T
  <2>6. (areas \ R) \cup T = areas \ {f[1]}
    BY <2>1
  <2> QED BY <2>5, <2>6
<1>17. Account(HeldParts, lost, areas)'
  BY <1>1, <1>9, <1>12, <1>16
<1> QED BY <1>2, <1>8, <1>9, <1>11, <1>17, AccountedNext DEF ExecInv

(* execve allocates the stack, and succeeds or not. *)
LEMMA LoadStackStep ==
    ASSUME ExecInv, LoadStack
    PROVE  ExecInv'
<1> DEFINE p == call.proc
           b == call.binary
           a == Area(result', StackSize)
           h == <<"call", p, b>>
           K == HeldAs("pcb", pcb) \cup HeldAs("text", text) \cup HeldAs("stack", stack)
<1>1. /\ p \in Proc /\ call.free = <<>> /\ memory_allocate(StackSize)
      /\ call' = Nothing /\ UNCHANGED pcb
      /\ \/ /\ b = None \/ a = None
            /\ lost' = (lost \cup {b, a}) \ {None}
            /\ UNCHANGED <<text, stack>>
         \/ /\ b # None /\ a # None
            /\ lost' = (lost \cup {text[p], stack[p]}) \ {None}
            /\ text' = [text EXCEPT ![p] = b]
            /\ stack' = [stack EXCEPT ![p] = a]
  BY DEF LoadStack
<1>2. StackSize \in Requests
  BY ExecAssumption
<1>3. IInv'
  BY <1>1, <1>2, AllocateStep, ExecAssumption DEF ExecInv
<1>4. \/ a = None /\ areas' = areas
      \/ a \in Areas \ areas /\ areas' = areas \cup {a}
  BY <1>1, <1>2, AllocateFresh DEF ExecInv
<1> HIDE DEF a
<1>5. b \in Areas \cup {None}
  BY DEF ExecInv, PointersOK
<1>6. PointersOK'
  <2>1. text' \in [Proc -> Areas \cup {None}] /\ stack' \in [Proc -> Areas \cup {None}]
    <3> HIDE DEF b, p
    <3> QED BY <1>1, <1>4, <1>5 DEF ExecInv, PointersOK
  <2> QED BY <1>1, <2>1, NothingHeld DEF ExecInv, PointersOK
<1>7. Account(HeldParts, lost, areas)
  BY AccountedNow
<1>8. /\ HeldParts = K \cup HeldByCall(call)
      /\ HeldByCall(call) = IF b = None THEN {} ELSE {h}
      /\ h \notin K /\ h[3] = b
  <2>1. HeldToFree(call) = {}
    BY <1>1 DEF HeldToFree
  <2>2. h \notin K
    BY DEF HeldAs
  <2> QED BY <2>1, <2>2 DEF HeldParts, HeldByCall
<1>9. HeldByCall(call') = {} /\ HeldToFree(call') = {}
  BY <1>1, NothingHeld
<1>10. Account(K, lost, areas \ {b}) /\ (b # None => b \in areas /\ b \notin lost)
  <2>1. CASE b = None
    BY <1>7, <1>8, <2>1, LostAreAreas
  <2>2. CASE b # None
    <3>1. h \in HeldParts /\ HeldParts \ {h} = K
      BY <1>8, <2>2
    <3>2. b \in areas /\ b \notin lost
      BY <1>7, <1>8, <3>1 DEF Account
    <3> HIDE DEF h, b, K
    <3> QED BY <1>7, <1>8, <3>1, <3>2, AccountOne
  <2> QED BY <2>1, <2>2
<1> HIDE DEF b, h
<1>11. CASE /\ b = None \/ a = None
            /\ lost' = (lost \cup {b, a}) \ {None}
            /\ UNCHANGED <<text, stack>>
  <2>1. HeldParts' = K
    BY <1>1, <1>9, <1>11 DEF HeldParts
  <2> DEFINE B == {b, a} \ {None}
  <2>2. lost' = lost \cup B /\ B \cap (areas \ {b}) = {} /\ areas' = (areas \ {b}) \cup B
    BY <1>4, <1>10, <1>11, LostAreAreas, NoneIsNoArea
  <2> HIDE DEF B, K
  <2>3. Account(K, lost \cup B, (areas \ {b}) \cup B)
    BY <1>10, <2>2, AccountLost
  <2>4. Account(HeldParts, lost, areas)'
    BY <2>1, <2>2, <2>3
  <2> QED BY <1>3, <1>6, <2>4, AccountedNext DEF ExecInv
<1>12. CASE /\ b # None /\ a # None
            /\ lost' = (lost \cup {text[p], stack[p]}) \ {None}
            /\ text' = [text EXCEPT ![p] = b]
            /\ stack' = [stack EXCEPT ![p] = a]
  <2>1. a \in Areas \ areas /\ areas' = areas \cup {a} /\ b \in areas \ lost
    BY <1>4, <1>10, <1>12
  <2> HIDE DEF p
  <2> DEFINE tx == <<"text", p, text[p]>>
             st == <<"stack", p, stack[p]>>
             G == K \cap {tx, st}
             R == {text[p], stack[p]} \ {None}
             gb == <<"text", p, b>>
             ga == <<"stack", p, a>>
  <2>2. G \subseteq K /\ {x[3] : x \in G} = R
    <3>1. /\ text[p] # None <=> tx \in K
          /\ stack[p] # None <=> st \in K
      BY <1>1 DEF HeldAs
    <3> QED BY <3>1
  <2>3. HeldParts' = (K \ G) \cup {gb} \cup {ga}
    <3>1. /\ text'[p] = b /\ \A q \in Proc \ {p} : text'[q] = text[q]
          /\ stack'[p] = a /\ \A q \in Proc \ {p} : stack'[q] = stack[q]
      BY <1>1, <1>12 DEF ExecInv, PointersOK
    <3>2. HeldAs("text", text') = (HeldAs("text", text) \ {tx}) \cup {gb}
      BY <1>1, <1>12, <3>1 DEF HeldAs
    <3>3. HeldAs("stack", stack') = (HeldAs("stack", stack) \ {st}) \cup {ga}
      BY <1>1, <1>12, <3>1 DEF HeldAs
    <3>4. /\ HeldAs("pcb", pcb) \ G = HeldAs("pcb", pcb)
          /\ HeldAs("text", text) \ G = HeldAs("text", text) \ {tx}
          /\ HeldAs("stack", stack) \ G = HeldAs("stack", stack) \ {st}
      BY <1>1 DEF HeldAs
    <3> QED BY <1>1, <1>9, <3>2, <3>3, <3>4 DEF HeldParts
  <2>4. lost' = lost \cup R /\ R \subseteq areas \ {b} /\ gb[3] = b /\ ga[3] = a
    <3>1. R \subseteq areas \ {b}
      BY <1>10, <2>2 DEF Account
    <3> QED BY <1>12, <3>1, LostAreAreas
  <2> HIDE DEF G, R, K, gb, ga
  <2>5. Account(K \ G, lost, (areas \ {b}) \ R)
    BY <1>10, <2>2, AccountDrop
  <2>6. Account(K \ G, lost \cup R, areas \ {b})
    <3>1. Account(K \ G, lost \cup R, ((areas \ {b}) \ R) \cup R)
      BY <2>5, AccountLost
    <3>2. ((areas \ {b}) \ R) \cup R = areas \ {b}
      BY <2>4
    <3> QED BY <3>1, <3>2
  <2>7. Account((K \ G) \cup {gb}, lost \cup R, areas)
    <3>1. Account((K \ G) \cup {gb}, lost \cup R, (areas \ {b}) \cup {b})
      BY <2>4, <2>6, AccountOne
    <3>2. (areas \ {b}) \cup {b} = areas
      BY <2>1
    <3> QED BY <3>1, <3>2
  <2>8. Account((K \ G) \cup {gb} \cup {ga}, lost \cup R, areas \cup {a})
    BY <2>1, <2>4, <2>7, AccountOne
  <2>9. Account(HeldParts, lost, areas)'
    BY <2>1, <2>3, <2>4, <2>8
  <2> QED BY <1>3, <1>6, <2>9, AccountedNext DEF ExecInv
<1> QED BY <1>1, <1>11, <1>12

----------------------------------------------------------------------------
(* Booting. *)
LEMMA ExecInitInv == ExecInit => ExecInv
<1> SUFFICES ASSUME ExecInit PROVE ExecInv
  OBVIOUS
<1>1. IInv
  BY InitIInv DEF ExecInit
<1>2. PointersOK
  BY NothingHeld DEF ExecInit, PointersOK
<1>3. Held = {} /\ lost = {} /\ areas = {}
  BY NothingHeld DEF ExecInit, memory_init, Held, Pointers
<1> QED BY <1>1, <1>2, <1>3 DEF ExecInv, Accounted

(* Every step keeps the invariant, and is to the allocator an allocation,  *)
(* a release of an area that is held, or nothing.                          *)
LEMMA ExecStep ==
    ASSUME ExecInv, [ExecNext]_execVars
    PROVE  ExecInv' /\ [Next]_vars
<1>1. ASSUME NEW p \in Proc, process_create(p)  PROVE ExecInv' /\ [Next]_vars
  BY <1>1, CreateStep, ExecAssumption DEF process_create, Next, Allocate
<1>2. ASSUME NEW p \in Proc, LoadText(p)  PROVE ExecInv' /\ [Next]_vars
  BY <1>2, LoadTextStep, ExecAssumption DEF LoadText, Next, Allocate
<1>3. ASSUME NEW p \in Proc, process_destroy(p)  PROVE ExecInv' /\ [Next]_vars
  BY <1>3, DestroyStep DEF process_destroy
<1>4. CASE LoadStack
  BY <1>4, LoadStackStep, ExecAssumption DEF LoadStack, Next, Allocate
<1>5. CASE FreeNext
  BY <1>5, FreeNextStep DEF FreeNext, Next, Free
<1>6. CASE Malloc
  BY <1>6, MallocStep, ExecAssumption DEF Malloc, Next, Allocate
<1>7. CASE UNCHANGED execVars
  <2>1. UNCHANGED vars /\ UNCHANGED <<pcb, text, stack, call, lost>>
    BY <1>7 DEF execVars, procVars
  <2>2. IInv'
    BY <2>1, IInvInductive, ExecAssumption DEF ExecInv
  <2>3. PointersOK' /\ Accounted'
    BY <2>1 DEF ExecInv, PointersOK, Accounted, Held, Pointers, vars
  <2> QED BY <2>1, <2>2, <2>3 DEF ExecInv
<1> QED BY <1>1, <1>2, <1>3, <1>4, <1>5, <1>6, <1>7 DEF ExecNext

(* All memory is accounted for, whatever is created, loaded and destroyed, *)
(* and whichever allocation fails: every area has one owner or is one of   *)
(* those the code is known to lose.                                        *)
THEOREM MemoryAccounted == ExecSpec => []Accounted
<1>1. ExecInv => Accounted
  BY DEF ExecInv
<1>2. ExecInv /\ [ExecNext]_execVars => ExecInv'
  BY ExecStep
<1> QED BY ExecInitInv, <1>1, <1>2, PTL DEF ExecSpec

(* The kernel is a proper caller of the allocator: it frees only what is   *)
(* allocated, with the size it asked for, so that its behaviours are among *)
(* those AllocatorSafe, AllocatorComplete and AllocatorRefinesHeap are     *)
(* about.                                                                  *)
THEOREM ExecUsesMemory == ExecSpec => Spec
<1>1. ExecInit => memory_init
  BY DEF ExecInit
<1>2. ExecInv /\ [ExecNext]_execVars => ExecInv' /\ [Next]_vars
  BY ExecStep
<1> QED BY ExecInitInv, <1>1, <1>2, PTL DEF ExecSpec, Spec

(* What the allocator promises, it promises to the processes. *)
THEOREM ExecMemorySafe ==
    ExecSpec => [](AreasDisjoint /\ KernelKept /\ MapExact) /\ FailsOnlyWhenFull /\ HeapSpec
BY ExecUsesMemory, AllocatorSafe, AllocatorComplete, AllocatorRefinesHeap, ExecAssumption, PTL
=============================================================================
