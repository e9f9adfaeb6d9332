------------------------------ MODULE FileData ------------------------------
(***************************************************************************)
(* What regular files hold (src/src/fs/vsfs.cpp): the address mapping of a *)
(* direct block and one level of indirection, the blocks that a write      *)
(* allocates, and the descriptors of open files.  writeData calls itself   *)
(* once per block that it writes or allocates; each of its writes to the   *)
(* disk is a step, and the process may end between two of them.  The inode *)
(* that a write works on is a copy, which reaches the disk with the last   *)
(* step.  (The writes of createFile one by one are in module VSCrash.)     *)
(*                                                                         *)
(* The unit is the word of sizeof(Address) bytes, so that a block holds as *)
(* many addresses as words.  Addresses count from the start of the data    *)
(* region.  A file is its inode id; the names are those of VSFileSystem.   *)
(***************************************************************************)
EXTENDS Integers, Sequences, FiniteSets, FiniteSetsExt

CONSTANTS DSize,      \* dsize: the words of a block
          DNum,       \* dnum, the number of data blocks
          INum,       \* the number of files that can be created
          Data,       \* what is written by one command: sequences of words
          SeekTo,     \* the offsets of seek
          ReadLen,    \* the lengths of read
          MaxFd,      \* bound: the largest descriptor of a session
          MaxOffset,  \* bound: no offset goes beyond it
          RunsDry     \* FALSE: bound: a write begins only if the blocks it needs are free

File   == 0 .. INum - 1
Blocks == 0 .. DNum - 1
NoId   == -1
NotYet == -2          \* the block of a write that has not taken its bit
NoAddr == -1          \* addr_1 of an inode without a level 1 block

Cap0 == DSize         \* what addr_0 can address, and
Cap1 == DSize * DSize \* what calcDiskAddr computes an address for

ASSUME FileAssumption == /\ DSize \in Nat \ {0, 1}
                         /\ DNum \in Nat
                         /\ INum \in Nat
                         /\ Data \subseteq Seq(Nat)
                         /\ SeekTo \subseteq 0 .. MaxOffset
                         /\ ReadLen \subseteq Nat
                         /\ MaxFd \in Nat
                         /\ MaxOffset \in 0 .. Cap1
                         /\ RunsDry \in BOOLEAN

\* allocDataBlock's -1 is used like the id of a block, the one in front of the region.
Addr   == -DSize .. DNum * DSize - 1
NoNode == [size |-> 0, cap |-> 0, addr_0 |-> NoAddr, addr_1 |-> NoAddr]

VARIABLES taken,      \* the data map: the blocks whose bit is set
          mem,        \* the words of the data blocks
          node,       \* the inodes
          named,      \* the files that have a directory entry
          fd_cnt,     \* the last descriptor given out
          fd_map,     \* descriptor -> inode id and offset
          job         \* the write under way

vars == <<taken, mem, node, named, fd_cnt, fd_map, job>>

Idle == [idle |-> TRUE]

-----------------------------------------------------------------------------
(* Blocks and addresses *)

DataOffset(b) == b * DSize
BlockOf(a)    == a \div DSize

\* getDataIdByOffset divides as C does, towards 0.
DataIdByOffset(a) == IF a < 0 THEN -(-a \div DSize) ELSE a \div DSize
Inner(off)    == off % DSize

AllocDataBlock(used) == IF Blocks \subseteq used THEN NoId ELSE Min(Blocks \ used)

\* Taking the bit of no block sets none.
Taking(used, b) == used \cup (Blocks \cap {b})

\* Fault: the block number is not reduced by the direct block.
CalcDiskAddr_CountsDirect(m, n, off) ==
    IF off < Cap0 THEN n.addr_0 + off
    ELSE m[n.addr_1 + off \div DSize] + Inner(off)

\* Below Cap1: what is behind it has no address, and the bounds keep away from it.
CalcDiskAddr(m, n, off) ==
    IF off < Cap0 THEN n.addr_0 + off
    ELSE m[n.addr_1 + (off - Cap0) \div DSize] + Inner(off)

\* dwrite.  What would go outside the words of Addr is not kept.
Written(m, a, data) == [x \in DOMAIN m |-> IF x \in a .. a + Len(data) - 1 THEN data[x - a + 1] ELSE m[x]]

-----------------------------------------------------------------------------
(* Descriptors *)

Init == /\ taken = {}
        /\ mem = [a \in Addr |-> 0]
        /\ node = [i \in File |-> NoNode]
        /\ named = {}
        /\ fd_cnt = -1
        /\ fd_map = [fd \in {} |-> 0]
        /\ job = Idle

Ready == job = Idle

\* The inode createFile takes next.
NextFile == {i \in File : node[i] = NoNode /\ \A j \in File : j < i => node[j] # NoNode}

\* Fault: the halves of the pair are swapped.
SetFD_Swapped(fd, i, off) ==
    [g \in DOMAIN fd_map \cup {fd} |-> IF g = fd THEN [file |-> off, off |-> i] ELSE fd_map[g]]

SetFD(fd, i, off) == [g \in DOMAIN fd_map \cup {fd} |-> IF g = fd THEN [file |-> i, off |-> off] ELSE fd_map[g]]
DropFD(fd)        == [g \in DOMAIN fd_map \ {fd} |-> fd_map[g]]

\* open for writing: an existing file keeps what it holds, and its offset is 0.
Opening(i) ==
    LET b == AllocDataBlock(taken)
    IN  /\ Ready
        /\ fd_cnt < MaxFd
        /\ fd_cnt' = fd_cnt + 1
        /\ fd_map' = SetFD(fd_cnt + 1, i, 0)
        /\ \/ i \in named /\ UNCHANGED <<taken, node, named>>
           \/ /\ i \in NextFile
              /\ b # NoId
              /\ taken' = Taking(taken, b)
              /\ node' = [node EXCEPT ![i] = [size |-> 0, cap |-> 1,
                                              addr_0 |-> DataOffset(b), addr_1 |-> NoAddr]]
              /\ named' = named \cup {i}

\* Also import when the host has no such file: it returns with the descriptor open.
Open(i) == Opening(i) /\ UNCHANGED <<mem, job>>

Close(fd) == /\ Ready
             /\ fd_map' = DropFD(fd)
             /\ UNCHANGED <<taken, mem, node, named, fd_cnt, job>>

Seek(fd, off) == /\ Ready
                 /\ fd_map' = SetFD(fd, fd_map[fd].file, off)
                 /\ UNCHANGED <<taken, mem, node, named, fd_cnt, job>>

\* read moves the offset by what was asked for, also past the end of the file.
Read(fd, len) == /\ fd_map[fd].off + len <= MaxOffset
                 /\ Seek(fd, fd_map[fd].off + len)

\* export opens, reads and closes.
Export(i) == /\ Ready
             /\ i \in named
             /\ fd_cnt < MaxFd
             /\ fd_cnt' = fd_cnt + 1
             /\ UNCHANGED <<taken, mem, node, named, fd_map, job>>

\* rm: the name goes, and freeFile writes 1 to the bits of the file's blocks, of
\* one of them again and again when there is a level 1 block.
FreedBlocks(n) ==
    IF n.addr_1 = NoAddr THEN {DataIdByOffset(n.addr_0)}
    ELSE {DataIdByOffset(mem[n.addr_1] + k) : k \in 0 .. n.cap - 2}

Remove_ClearsBits(i) ==
    /\ Ready
    /\ i \in named
    /\ named' = named \ {i}
    /\ taken' = taken \ FreedBlocks(node[i])
    /\ UNCHANGED <<mem, node, fd_cnt, fd_map, job>>

Remove(i) == /\ Ready
             /\ i \in named
             /\ named' = named \ {i}
             /\ taken' = taken \cup (Blocks \cap FreedBlocks(node[i]))
             /\ UNCHANGED <<mem, node, fd_cnt, fd_map, job>>

-----------------------------------------------------------------------------
(* write and import *)

\* No fewer than the blocks that a write up to offset end allocates.
Needs(n, end) == IF end < n.cap * DSize THEN 0
                 ELSE (IF n.addr_1 = NoAddr THEN 1 ELSE 0) + end \div DSize + 1 - n.cap
HasRoom(used, n, end) == RunsDry \/ Cardinality(Blocks \ used) >= Needs(n, end)

BeginWrite(fd, data) ==
    /\ Ready
    /\ fd_map[fd].off + Len(data) <= MaxOffset
    /\ HasRoom(taken, node[fd_map[fd].file], fd_map[fd].off + Len(data))
    /\ job' = [fd |-> fd, node |-> node[fd_map[fd].file], at |-> fd_map[fd].off,
               left |-> data, got |-> NotYet, closes |-> FALSE, ends |-> FALSE]
    /\ UNCHANGED <<taken, mem, node, named, fd_cnt, fd_map>>

\* import writes from offset 0 and closes; a longer file keeps its tail.
Import(i, data) ==
    /\ Opening(i)
    /\ Len(data) <= MaxOffset
    /\ HasRoom(taken', node'[i], Len(data))
    /\ job' = [fd |-> fd_cnt', node |-> node'[i], at |-> 0,
               left |-> data, got |-> NotYet, closes |-> TRUE, ends |-> FALSE]
    /\ UNCHANGED mem

Writing == job # Idle /\ ~job.ends
Left    == job.node.cap * DSize - job.at

\* writeData within the capacity: what fits the current block.
WriteBlock ==
    /\ Writing
    /\ Left > 0
    /\ LET room == DSize - Inner(job.at)
           len  == IF Len(job.left) <= room THEN Len(job.left) ELSE room
       IN  /\ mem' = Written(mem, CalcDiskAddr(mem, job.node, job.at), SubSeq(job.left, 1, len))
           /\ job' = [job EXCEPT !.at = @ + len,
                                 !.left = SubSeq(@, len + 1, Len(@)),
                                 !.ends = Len(job.left) <= room]
    /\ UNCHANGED <<taken, node, named, fd_cnt, fd_map>>

\* Behind the capacity writeData allocates: first the level 1 block, if there is
\* none.  No failure is noticed.
Growing == Writing /\ Left <= 0

AllocAddr1 ==
    /\ Growing
    /\ job.node.addr_1 = NoAddr
    /\ LET b == AllocDataBlock(taken)
       IN  /\ taken' = Taking(taken, b)
           /\ job' = [job EXCEPT !.node.addr_1 = DataOffset(b)]
    /\ UNCHANGED <<mem, node, named, fd_cnt, fd_map>>

\* The first write of allocLevel1Block: the bit of a block more.
TakeBlock ==
    /\ Growing
    /\ job.node.addr_1 # NoAddr
    /\ job.got = NotYet
    /\ LET b == AllocDataBlock(taken)
       IN  /\ taken' = Taking(taken, b)
           /\ job' = [job EXCEPT !.got = b]
    /\ UNCHANGED <<mem, node, named, fd_cnt, fd_map>>

\* Faults: the capacity is not counted up; the index of the block in the level 1
\* block counts the direct block.
PutAddress_KeepsCapacity ==
    /\ Growing
    /\ job.got # NotYet
    /\ mem' = [mem EXCEPT ![job.node.addr_1 + job.node.cap - 1] = DataOffset(job.got)]
    /\ job' = [job EXCEPT !.got = NotYet]
    /\ UNCHANGED <<taken, node, named, fd_cnt, fd_map>>
PutAddress_IndexOffByOne ==
    /\ Growing
    /\ job.got # NotYet
    /\ mem' = [mem EXCEPT ![job.node.addr_1 + job.node.cap] = DataOffset(job.got)]
    /\ job' = [job EXCEPT !.node.cap = @ + 1, !.got = NotYet]
    /\ UNCHANGED <<taken, node, named, fd_cnt, fd_map>>

\* The second: its address, in the level 1 block.  The capacity is in memory.
PutAddress ==
    /\ Growing
    /\ job.got # NotYet
    /\ mem' = [mem EXCEPT ![job.node.addr_1 + job.node.cap - 1] = DataOffset(job.got)]
    /\ job' = [job EXCEPT !.node.cap = @ + 1, !.got = NotYet]
    /\ UNCHANGED <<taken, node, named, fd_cnt, fd_map>>

\* Fault: of the inode, only the size is written back.
EndWrite_SizeOnly ==
    LET i == fd_map[job.fd].file
    IN  /\ job # Idle
        /\ job.ends
        /\ node' = [node EXCEPT ![i].size = IF job.at <= @ THEN @ ELSE job.at]
        /\ fd_map' = IF job.closes THEN DropFD(job.fd) ELSE SetFD(job.fd, i, job.at)
        /\ job' = Idle
        /\ UNCHANGED <<taken, mem, named, fd_cnt>>

\* The rest of write_: the size, the inode, the offset.
EndWrite ==
    LET i == fd_map[job.fd].file
    IN  /\ job # Idle
        /\ job.ends
        /\ node' = [node EXCEPT ![i] = [job.node EXCEPT !.size = IF job.at <= @ THEN @ ELSE job.at]]
        /\ fd_map' = IF job.closes THEN DropFD(job.fd) ELSE SetFD(job.fd, i, job.at)
        /\ job' = Idle
        /\ UNCHANGED <<taken, mem, named, fd_cnt>>

\* The process ends, at any point of a write, and is started again.
Restart == /\ fd_cnt' = -1
           /\ fd_map' = [fd \in {} |-> 0]
           /\ job' = Idle
           /\ UNCHANGED <<taken, mem, node, named>>

Continue == WriteBlock \/ AllocAddr1 \/ TakeBlock \/ PutAddress \/ EndWrite

Next == \/ \E i \in File : Open(i) \/ Export(i) \/ Remove(i)
        \/ \E fd \in DOMAIN fd_map : \/ Close(fd)
                                     \/ \E off \in SeekTo : Seek(fd, off)
                                     \/ \E len \in ReadLen : Read(fd, len)
                                     \/ \E data \in Data : BeginWrite(fd, data)
        \/ \E i \in File, data \in Data : Import(i, data)
        \/ Continue
        \/ Restart

\* The program keeps running the command it has begun; the end of the process
\* is not fair.
Spec == Init /\ [][Next]_vars /\ WF_vars(Continue)
=============================================================================
