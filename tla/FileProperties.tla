--------------------------- MODULE FileProperties ---------------------------
(***************************************************************************)
(* FileData implements FileTape, while no data block is missing; what      *)
(* becomes of it when the disk is full; and where it is not what comments  *)
(* and the README say of it.                                               *)
(***************************************************************************)
EXTENDS FileData

Created == {i \in File : node[i] # NoNode}

\* The inode of file i as the write under way sees it.
Current(i) == IF job # Idle /\ fd_map[job.fd].file = i THEN job.node ELSE node[i]

Offsets(n) == 0 .. n.cap * DSize - 1
AddrOf(n, off) == CalcDiskAddr(mem, n, off)
Addresses(i) == {AddrOf(Current(i), off) : off \in Offsets(Current(i))}

\* Every variable keeps its type.
NodeT  == [size : Nat, cap : Nat, addr_0 : Addr, addr_1 : Addr]
TypeOK == /\ taken \subseteq Blocks
          /\ mem \in [Addr -> Int]
          /\ node \in [File -> NodeT]
          /\ named \subseteq File
          /\ fd_cnt \in -1 .. MaxFd
          /\ DOMAIN fd_map \subseteq 0 .. fd_cnt
          /\ \A fd \in DOMAIN fd_map : fd_map[fd] \in [file : File, off : 0 .. MaxOffset]
          /\ \/ job = Idle
             \/ job \in [fd : DOMAIN fd_map, node : NodeT, at : 0 .. MaxOffset,
                         left : Seq(Nat), got : Blocks \cup {NoId, NotYet},
                         closes : BOOLEAN, ends : BOOLEAN]

-----------------------------------------------------------------------------
(* The mapping *)

\* "given a file offset, the offset should be mapped to a physical address on
\* disk" (README): every offset within a file's capacity lies in a data block
\* whose bit is set.
OffsetsMapped ==
    \A i \in Created : \A off \in Offsets(Current(i)) : BlockOf(AddrOf(Current(i), off)) \in taken

\* No two offsets, of one file or of two, removed files included, have one
\* address, and none lies in a block that holds addresses.
AddressesApart ==
    \A i, j \in Created :
        /\ Cardinality(Addresses(i)) = Cardinality(Offsets(Current(i)))
        /\ i # j => Addresses(i) \cap Addresses(j) = {}
        /\ Current(j).addr_1 # NoAddr =>
              Current(j).addr_1 \notin {DataOffset(BlockOf(a)) : a \in Addresses(i)}

\* A block that is handed out holds zeros: nothing clears it, so nothing may
\* have been written to it, and what a hole of a file reads is 0.
FreeIsZero == \A a \in Addr : BlockOf(a) \in Blocks \ taken => mem[a] = 0

-----------------------------------------------------------------------------
(* The inductive invariant behind all of these *)

\* The blocks of an inode: those of its capacity are 0, 1, ..., the level 1
\* block is -1.
Held(n) == (IF n.addr_1 = NoAddr THEN 0 ELSE -1) .. n.cap - 1

\* Where such a block is.
StartOf(m, n, k) == IF k = -1 THEN n.addr_1 ELSE IF k = 0 THEN n.addr_0 ELSE m[n.addr_1 + k - 1]

\* An inode with more than its direct block has a level 1 block, in which the
\* addresses of the others fit, and its capacity covers its size.
WellShaped(n) == /\ n.cap \in 1 .. DSize + 1
                 /\ n.size <= n.cap * DSize
                 /\ IF n.addr_1 = NoAddr THEN n.cap = 1
                    ELSE \E b \in Blocks \cup {NoId} : n.addr_1 = DataOffset(b)

\* A write works on a copy that has grown and is otherwise the inode on the disk.
CopyExtends(n, copy) == /\ copy.addr_0 = n.addr_0
                        /\ copy.size = n.size
                        /\ n.cap <= copy.cap
                        /\ n.addr_1 \in {NoAddr, copy.addr_1}

Shapes == /\ \A i \in Created : WellShaped(node[i])
          /\ named \subseteq Created
          /\ \A fd \in DOMAIN fd_map : fd_map[fd].file \in Created
          /\ job # Idle => /\ WellShaped(job.node)
                           /\ CopyExtends(node[fd_map[job.fd].file], job.node)
                           /\ job.at + Len(job.left) <= MaxOffset
                           /\ job.ends => job.left = <<>> /\ job.at <= job.node.cap * DSize
                           /\ job.got # NotYet => Growing /\ job.node.addr_1 # NoAddr

\* Of disk words m and inodes ns: each block that is held is taken, no block is
\* held twice, and those that are not taken hold zeros.
Layout(used, m, ns) ==
    /\ \A i \in File : \A k \in Held(ns[i]) : \E b \in used : StartOf(m, ns[i], k) = DataOffset(b)
    /\ \A i, j \in File : \A k \in Held(ns[i]), l \in Held(ns[j]) :
          StartOf(m, ns[i], k) = StartOf(m, ns[j], l) => i = j /\ k = l
    /\ \A a \in Addr : BlockOf(a) \in Blocks \ used => m[a] = 0

CurrentNodes == [i \in File |-> Current(i)]

\* A block whose bit the write has taken, and whose address it has not yet put
\* down, is taken, held by no inode, and zero.
Pending(used, m, ns, b) == /\ b \in used
                           /\ \A i \in File : \A k \in Held(ns[i]) : StartOf(m, ns[i], k) # DataOffset(b)
                           /\ \A a \in Addr : BlockOf(a) = b => m[a] = 0

PendingSound == job # Idle /\ job.got # NotYet => Pending(taken, mem, CurrentNodes, job.got)

\* The write under way finds the blocks that it still needs.
Counted == IF job.got = NotYet THEN job.node ELSE [job.node EXCEPT !.cap = @ + 1]
Roomy   == job # Idle => HasRoom(taken, Counted, job.at + Len(job.left))

\* While no block is missing; the shapes hold on a full disk too.
FileInv == Shapes /\ (RunsDry \/ (Layout(taken, mem, CurrentNodes) /\ PendingSound /\ Roomy))

-----------------------------------------------------------------------------
(* readData *)

\* The offsets that readData, asked for len words from off on, reads: block by
\* block, it looks for the end of the file before each block and, in the last
\* block only, within it.
ReachedBy(size, off, len) ==
    {p \in off .. off + len - 1 :
        /\ (IF p - Inner(p) > off THEN p - Inner(p) ELSE off) < size
        /\ BlockOf(p) = BlockOf(off + len - 1) => p < size}

Reached(i, off, len) == ReachedBy(node[i].size, off, len)

\* A read reaches every offset that was asked for and is in the file; beyond the
\* file's end it does not leave its blocks.
ReadsFile ==
    Ready => \A i \in Created : \A off \in 0 .. MaxOffset, len \in ReadLen :
        /\ \A p \in off .. off + len - 1 : p < node[i].size => p \in Reached(i, off, len)
        /\ \A p \in Reached(i, off, len) : p \in Offsets(node[i])

-----------------------------------------------------------------------------
(* The files as tapes *)

TapeOf(i) == [p \in 0 .. MaxOffset - 1 |->
                IF p \in Offsets(Current(i)) THEN mem[AddrOf(Current(i), p)] ELSE 0]

Tape == INSTANCE FileTape WITH
           Fd <- 0 .. MaxFd,
           size <- [i \in File |-> node[i].size],
           tape <- [i \in File |-> TapeOf(i)],
           fds <- fd_map,
           writing <- IF job = Idle THEN Idle
                      ELSE [fd |-> job.fd, at |-> job.at, left |-> job.left, closes |-> job.closes]

\* Files are tapes: each offset reads what was last written to it through any
\* descriptor, 0 if nothing was, and a write, a removal or the end of the
\* process changes no other file.
FilesAreTapes == Tape!Spec

\* A write that has begun ends, or the process does.
WriteEnds == (job # Idle) ~> (job = Idle)

-----------------------------------------------------------------------------
(* What a comment and the README say, and the code does not do *)

\* "open existing file for writing: end of file": the offset of the descriptor
\* that open gives.
OpensAtEnd ==
    [][\A i \in named : Open(i) => fd_map'[fd_cnt'].off = node[i].size]_vars

\* "Diff the original file and the one exported": when an import has ended, its
\* file is as long as what was imported.
ImportedIsWhole ==
    [][EndWrite /\ job.closes => node'[fd_map[job.fd].file].size = job.at]_vars
=============================================================================
