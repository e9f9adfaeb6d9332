---------------------------- MODULE VSDiskProofs ----------------------------
(***************************************************************************)
(* Lemmas about the operators of VSDisk: what each of them returns when it *)
(* is given a disk, and what it keeps of the inductive invariant DiskInv   *)
(* of VSProperties.                                                        *)
(***************************************************************************)
EXTENDS VSProperties, SequenceTheorems, WellFoundedInduction, TLAPS

USE DEF NoId, NoBlock, RegularFile, Directory, Root

-----------------------------------------------------------------------------
(* Types *)

\* A set of naturals that is not empty has a smallest element.
LEMMA MinExists ==
    ASSUME NEW S \in SUBSET Nat, S # {}
    PROVE  \E k \in S : \A j \in S : k <= j
<1>1. \E k \in S : \A j \in S : ~(<<j, k>> \in OpToRel(<, Nat))
  BY WFMin, NatLessThanWellFounded
<1>2. PICK k \in S : \A j \in S : ~(<<j, k>> \in OpToRel(<, Nat))
  BY <1>1
<1>3. \A j \in S : ~(j < k)
  BY <1>2 DEF OpToRel
<1> QED
  BY <1>3

LEMMA RootIsInode == Root \in Inodes /\ 0 \in Blocks
BY DiskAssumption DEF Inodes, Blocks

\* Min of such a set is its smallest element.
LEMMA MinIsSmallest ==
    ASSUME NEW S \in SUBSET Nat, S # {}
    PROVE  Min(S) \in S /\ \A j \in S : Min(S) <= j
BY MinExists DEF Min

\* allocBit returns a position whose byte is 0, and none before it is, or -1.
LEMMA AllocBitProperties ==
    ASSUME NEW S \in SUBSET Nat, NEW map \in [S -> {0, 1}], AllocBit(map) # NoId
    PROVE  /\ AllocBit(map) \in S
           /\ map[AllocBit(map)] = 0
           /\ \A j \in S : map[j] = 0 => AllocBit(map) <= j
BY MinIsSmallest DEF AllocBit, Free

LEMMA DiskFields ==
    ASSUME NEW d \in Disk
    PROVE  /\ d.imap \in [Inodes -> {0, 1}]
           /\ d.dmap \in [Blocks -> {0, 1}]
           /\ d.node \in [Ids -> InodeT]
           /\ d.data \in [Blocks -> Content]
           /\ \A b \in Blocks : d.data[b].cnt \in Nat /\ d.data[b].slots \in Seq(Entry)
           /\ \A i \in Ids : d.node[i].addr_0 \in Blocks \cup {NoBlock}
BY DEF Disk, Content, InodeT

\* What the two callers of allocBit get.
LEMMA AllocatedFree ==
    ASSUME NEW d \in Disk
    PROVE  /\ AllocBit(d.imap) # NoId =>
                 /\ AllocBit(d.imap) \in Inodes
                 /\ d.imap[AllocBit(d.imap)] = 0
                 /\ \A j \in Inodes : j < AllocBit(d.imap) => d.imap[j] = 1
           /\ AllocBit(d.dmap) # NoId =>
                 /\ AllocBit(d.dmap) \in Blocks
                 /\ d.dmap[AllocBit(d.dmap)] = 0
<1>1. Inodes \in SUBSET Nat /\ Blocks \in SUBSET Nat
  BY DEF Inodes, Blocks
<1>2. /\ AllocBit(d.imap) # NoId =>
            /\ AllocBit(d.imap) \in Inodes
            /\ d.imap[AllocBit(d.imap)] = 0
            /\ \A j \in Inodes : d.imap[j] = 0 => AllocBit(d.imap) <= j
      /\ AllocBit(d.dmap) # NoId =>
            /\ AllocBit(d.dmap) \in Blocks
            /\ d.dmap[AllocBit(d.dmap)] = 0
  BY <1>1, DiskFields, AllocBitProperties
<1>3. \A j \in Inodes : d.imap[j] = 0 \/ d.imap[j] = 1
  BY DiskFields
<1>4. ASSUME AllocBit(d.imap) # NoId, NEW j \in Inodes, j < AllocBit(d.imap)
      PROVE  d.imap[j] = 1
  <2>1. AllocBit(d.imap) \in Nat /\ j \in Nat
    BY <1>1, <1>2, <1>4
  <2>2. ~(AllocBit(d.imap) <= j)
    BY <2>1, <1>4
  <2> QED
    BY <2>2, <1>2, <1>3, <1>4
<1> QED
  BY <1>2, <1>4

-----------------------------------------------------------------------------
(* The single writes *)

LEMMA TakeInodeType ==
    ASSUME NEW d \in Disk, NEW i \in Inodes
    PROVE  /\ TakeInode(d, i) \in Disk
           /\ TakeInode(d, i).imap = [d.imap EXCEPT ![i] = 1]
           /\ TakeInode(d, i).dmap = d.dmap
           /\ TakeInode(d, i).node = d.node
           /\ TakeInode(d, i).data = d.data
BY DEF TakeInode, Disk

LEMMA TakeBlockType ==
    ASSUME NEW d \in Disk, NEW b \in Blocks
    PROVE  /\ TakeBlock(d, b) \in Disk
           /\ TakeBlock(d, b).imap = d.imap
           /\ TakeBlock(d, b).dmap = [d.dmap EXCEPT ![b] = 1]
           /\ TakeBlock(d, b).node = d.node
           /\ TakeBlock(d, b).data = d.data
BY DEF TakeBlock, Disk

LEMMA WriteInodeType ==
    ASSUME NEW d \in Disk, NEW i \in Ids, NEW node \in InodeT
    PROVE  /\ WriteInode(d, i, node) \in Disk
           /\ WriteInode(d, i, node).imap = d.imap
           /\ WriteInode(d, i, node).dmap = d.dmap
           /\ WriteInode(d, i, node).node = [d.node EXCEPT ![i] = node]
           /\ WriteInode(d, i, node).data = d.data
BY DEF WriteInode, Disk

\* A write to addr_0 of an inode never written, NoBlock, changes no block.
LEMMA WriteContentType ==
    ASSUME NEW d \in Disk, NEW b \in Blocks \cup {NoBlock}, NEW c,
           b \in Blocks => c \in Content
    PROVE  /\ WriteContent(d, b, c) \in Disk
           /\ WriteContent(d, b, c).imap = d.imap
           /\ WriteContent(d, b, c).dmap = d.dmap
           /\ WriteContent(d, b, c).node = d.node
           /\ WriteContent(d, b, c).data = [d.data EXCEPT ![b] = c]
<1>1. [d.data EXCEPT ![b] = c] \in [Blocks -> Content]
  BY DEF Disk
<1> QED
  BY <1>1 DEF WriteContent, Disk

-----------------------------------------------------------------------------
(* The operators that change the disk return a disk *)

LEMMA WriteFileType ==
    ASSUME NEW d \in Disk, NEW i \in Inodes, NEW b \in Blocks
    PROVE  WriteFile(d, i, b) \in Disk
<1> DEFINE node == [type |-> RegularFile, addr_0 |-> b]
           c == [cnt |-> d.data[b].cnt, slots |-> <<>>]
<1>1. node \in InodeT /\ i \in Ids
  BY DEF InodeT, Ids
<1>2. c \in Content
  BY DiskFields, EmptySeq DEF Content
<1> HIDE DEF node, c
<1>3. WriteInode(d, i, node) \in Disk
  BY <1>1, WriteInodeType
<1>4. WriteContent(WriteInode(d, i, node), b, c) \in Disk
  BY <1>2, <1>3, WriteContentType
<1> QED
  BY <1>4 DEF WriteFile, node, c

\* createFile returns an inode id or -1, and a disk.
LEMMA CreateFileType ==
    ASSUME NEW d \in Disk
    PROVE  CreateFile(d).id \in Ids /\ CreateFile(d).disk \in Disk
<1> DEFINE i == AllocBit(d.imap)
           b == AllocBit(d.dmap)
<1>1. (i = NoId \/ i \in Inodes) /\ (b = NoId \/ b \in Blocks)
  BY AllocatedFree
<1>2. CASE i = NoId
  BY <1>2 DEF CreateFile, Created, Ids
<1>3. CASE i \in Inodes /\ b = NoId
  BY <1>3, TakeInodeType DEF CreateFile, Created, Ids, Inodes
<1>4. CASE i \in Inodes /\ b \in Blocks
  <2>1. CreateFile(d) = Created(i, WriteFile(TakeBlock(TakeInode(d, i), b), i, b))
    BY <1>4 DEF CreateFile, Inodes, Blocks
  <2>2. WriteFile(TakeBlock(TakeInode(d, i), b), i, b) \in Disk
    BY <1>4, TakeInodeType, TakeBlockType, WriteFileType
  <2> QED
    BY <1>4, <2>1, <2>2 DEF Ids, Created
<1> QED
  BY <1>1, <1>2, <1>3, <1>4

LEMMA FreeFileType ==
    ASSUME NEW d \in Disk, NEW i \in Ids
    PROVE  FreeFile(d, i) \in Disk
BY DEF FreeFile, FreeBit, Disk, Ids

\* addEntryToDir, whatever directory it is given.
LEMMA AddEntryType ==
    ASSUME NEW d \in Disk, NEW f \in Ids, NEW n \in Name, NEW dir \in Ids
    PROVE  AddEntry(d, f, n, dir) \in Disk
<1> DEFINE b == d.node[dir].addr_0
           c == [cnt |-> d.data[b].cnt + 1,
                 slots |-> Append(d.data[b].slots, [id |-> f, name |-> n])]
<1>1. b \in Blocks \cup {NoBlock}
  BY DiskFields
<1>2. ASSUME b \in Blocks PROVE c \in Content
  <2>1. d.data[b].slots \in Seq(Entry) /\ d.data[b].cnt \in Nat
    BY <1>2, DiskFields
  <2>2. [id |-> f, name |-> n] \in Entry
    BY DEF Entry
  <2>3. Append(d.data[b].slots, [id |-> f, name |-> n]) \in Seq(Entry)
    BY <2>1, <2>2, AppendProperties
  <2> QED
    BY <2>1, <2>3 DEF Content
<1> HIDE DEF c
<1>3. WriteContent(d, b, c) \in Disk
  BY <1>1, <1>2, WriteContentType
<1> QED
  BY <1>3 DEF AddEntry, c

LEMMA MakeDirectoryType ==
    ASSUME NEW d \in Disk, NEW i \in Ids, NEW count \in Nat
    PROVE  MakeDirectory(d, i, count) \in Disk
<1> DEFINE b == d.node[i].addr_0
           node == [type |-> Directory, addr_0 |-> b]
           c == [cnt |-> count, slots |-> d.data[b].slots]
<1>1. b \in Blocks \cup {NoBlock}
  BY DiskFields
<1>2. node \in InodeT
  BY <1>1 DEF InodeT
<1>3. b \in Blocks => c \in Content
  BY DiskFields DEF Content
<1> HIDE DEF node, c
<1>4. WriteInode(d, i, node) \in Disk
  BY <1>2, WriteInodeType
<1>5. WriteContent(WriteInode(d, i, node), b, c) \in Disk
  BY <1>1, <1>3, <1>4, WriteContentType
<1> QED
  BY <1>5 DEF MakeDirectory, node, c

LEMMA NewDirType ==
    ASSUME NEW d \in Disk, NEW i \in Ids, NEW parent \in Ids
    PROVE  NewDir(d, i, parent) \in Disk
BY MakeDirectoryType, AddEntryType DEF NewDir, Name

LEMMA NewDirFailedType ==
    ASSUME NEW d \in Disk
    PROVE  NewDirFailed(d) \in Disk
<1> DEFINE b == AllocBit(d.dmap)
           node == [type |-> Directory, addr_0 |-> NoBlock]
<1>1. b = NoId \/ b \in Blocks
  BY AllocatedFree
<1>2. node \in InodeT /\ NoId \in Ids
  BY DEF InodeT, Ids
<1> HIDE DEF node
<1>3. WriteInode(d, NoId, node) \in Disk
  BY <1>2, WriteInodeType
<1> QED
  BY <1>1, <1>3, TakeBlockType DEF NewDirFailed, node

LEMMA ZeroDiskType == ZeroDisk \in Disk
<1>1. Zeros \in Content
  BY EmptySeq DEF Zeros, Content
<1> QED
  BY <1>1 DEF ZeroDisk, Disk, InodeT

LEMMA FormattedDiskType == FormattedDisk \in Disk
BY ZeroDiskType, CreateFileType, NewDirType, RootIsInode DEF FormattedDisk, Ids

LEMMA DeleteEntryType ==
    ASSUME NEW d \in Disk, NEW dir \in Ids, d.node[dir].addr_0 \in Blocks, NEW n,
           NEW k \in Match(d.data[d.node[dir].addr_0], n)
    PROVE  DeleteEntry(d, dir, k) \in Disk
<1> DEFINE b == d.node[dir].addr_0
           old == d.data[b]
           c == [cnt |-> old.cnt - 1,
                 slots |-> [old.slots EXCEPT ![k] = [id |-> NoId, name |-> old.slots[k].name]]]
<1>1. old.cnt \in Nat /\ old.slots \in Seq(Entry)
  BY DiskFields
<1>2. k \in 1 .. Len(old.slots) /\ k <= old.cnt
  BY <1>1, LenProperties DEF Match, Scanned
<1>3. [id |-> NoId, name |-> old.slots[k].name] \in Entry
  BY <1>1, <1>2, ElementOfSeq DEF Entry, Ids
<1>4. c \in Content
  <2>1. c.cnt \in Nat
    BY <1>1, <1>2
  <2>2. c.slots \in Seq(Entry)
    <3> DEFINE gone == [id |-> NoId, name |-> old.slots[k].name]
    <3>1. gone \in Entry
      BY <1>3
    <3> HIDE DEF gone, old
    <3>2. [old.slots EXCEPT ![k] = gone] \in Seq(Entry)
      BY <1>1, <1>2, <3>1, ExceptSeq
    <3> QED
      BY <3>2 DEF gone, old
  <2> QED
    BY <2>1, <2>2 DEF Content
<1> HIDE DEF c
<1>5. WriteContent(d, b, c) \in Disk
  BY <1>4, WriteContentType
<1> QED
  BY <1>5 DEF DeleteEntry, c

-----------------------------------------------------------------------------
(* The single writes *)

LEMMA InitialisedFields ==
    ASSUME NEW d \in Disk, NEW i \in Initialised(d)
    PROVE  /\ i \in Inodes
           /\ i \in Ids
           /\ d.node[i].addr_0 \in Blocks
           /\ d.data[d.node[i].addr_0] \in Content
BY DiskFields DEF Initialised, Ids

LEMMA TakeInodeInv ==
    ASSUME NEW d \in Disk, DiskInv(d), NEW i \in Inodes, \A j \in Inodes : j < i => d.imap[j] = 1
    PROVE  DiskInv(TakeInode(d, i)) /\ Initialised(TakeInode(d, i)) = Initialised(d)
<1> DEFINE e == TakeInode(d, i)
<1>1. /\ e \in Disk
      /\ e.imap = [d.imap EXCEPT ![i] = 1]
      /\ e.dmap = d.dmap
      /\ e.node = d.node
      /\ e.data = d.data
  BY TakeInodeType
<1> HIDE DEF e
<1>2. Initialised(e) = Initialised(d)
  BY <1>1 DEF Initialised
<1>3. \A j \in Inodes : e.imap[j] = IF j = i THEN 1 ELSE d.imap[j]
  BY <1>1, DiskFields
<1>4. WrittenAllocated(e)
  BY <1>1, <1>2, <1>3, InitialisedFields DEF DiskInv, WrittenAllocated
<1>5. TakenInOrder(e)
  <2>1. Inodes \subseteq Nat
    BY DEF Inodes
  <2> QED
    BY <1>3, <2>1 DEF DiskInv, TakenInOrder
<1>6. BlocksDistinct(e) /\ EntriesWritten(e) /\ EntriesYounger(e)
  BY <1>1, <1>2 DEF DiskInv, BlocksDistinct, EntriesWritten, EntriesYounger
<1> QED
  BY <1>2, <1>4, <1>5, <1>6 DEF DiskInv, e

LEMMA TakeBlockInv ==
    ASSUME NEW d \in Disk, DiskInv(d), NEW b \in Blocks
    PROVE  DiskInv(TakeBlock(d, b)) /\ Initialised(TakeBlock(d, b)) = Initialised(d)
<1> DEFINE e == TakeBlock(d, b)
<1>1. /\ e \in Disk
      /\ e.imap = d.imap
      /\ e.dmap = [d.dmap EXCEPT ![b] = 1]
      /\ e.node = d.node
      /\ e.data = d.data
  BY TakeBlockType
<1> HIDE DEF e
<1>2. Initialised(e) = Initialised(d)
  BY <1>1 DEF Initialised
<1>3. \A x \in Blocks : e.dmap[x] = IF x = b THEN 1 ELSE d.dmap[x]
  BY <1>1, DiskFields
<1>4. WrittenAllocated(e)
  BY <1>1, <1>2, <1>3, InitialisedFields DEF DiskInv, WrittenAllocated
<1>5. TakenInOrder(e)
  BY <1>1 DEF DiskInv, TakenInOrder
<1>6. BlocksDistinct(e) /\ EntriesWritten(e) /\ EntriesYounger(e)
  BY <1>1, <1>2 DEF DiskInv, BlocksDistinct, EntriesWritten, EntriesYounger
<1> QED
  BY <1>2, <1>4, <1>5, <1>6 DEF DiskInv, e

LEMMA WriteFileFields ==
    ASSUME NEW d \in Disk, NEW i \in Inodes, NEW b \in Blocks
    PROVE  /\ WriteFile(d, i, b).imap = d.imap
           /\ WriteFile(d, i, b).dmap = d.dmap
           /\ \A j \in Ids : WriteFile(d, i, b).node[j].addr_0 =
                                IF j = i THEN b ELSE d.node[j].addr_0
           /\ \A x \in Blocks : WriteFile(d, i, b).data[x].slots =
                                   IF x = b THEN <<>> ELSE d.data[x].slots
<1> DEFINE node == [type |-> RegularFile, addr_0 |-> b]
           c == [cnt |-> d.data[b].cnt, slots |-> <<>>]
           e == WriteInode(d, i, node)
<1>1. node \in InodeT /\ i \in Ids /\ c \in Content
  BY DiskFields, EmptySeq DEF InodeT, Ids, Content
<1>2. node.addr_0 = b /\ c.slots = <<>>
  OBVIOUS
<1> HIDE DEF node, c
<1>3. /\ e \in Disk /\ e.imap = d.imap /\ e.dmap = d.dmap /\ e.data = d.data
      /\ e.node = [d.node EXCEPT ![i] = node]
  BY <1>1, WriteInodeType
<1> HIDE DEF e
<1>4. /\ WriteContent(e, b, c).imap = d.imap
      /\ WriteContent(e, b, c).dmap = d.dmap
      /\ WriteContent(e, b, c).node = e.node
      /\ WriteContent(e, b, c).data = [d.data EXCEPT ![b] = c]
  BY <1>1, <1>3, WriteContentType
<1>5. WriteFile(d, i, b) = WriteContent(e, b, c)
  BY DEF WriteFile, e, node, c
<1> QED
  BY <1>1, <1>2, <1>3, <1>4, <1>5, DiskFields

\* An empty sequence of entries has no live one.
LEMMA NoneLive ==
    ASSUME NEW c, c.slots = <<>>
    PROVE  Live(c) = {}
BY DEF Live

-----------------------------------------------------------------------------
(* createFile *)

\* A file is written to an inode and a block that are taken and not in use.
LEMMA WriteFileInv ==
    ASSUME NEW d \in Disk, DiskInv(d),
           NEW i \in Inodes, d.imap[i] = 1, i \notin Initialised(d),
           NEW b \in Blocks, d.dmap[b] = 1,
           \A j \in Initialised(d) : d.node[j].addr_0 # b
    PROVE  /\ DiskInv(WriteFile(d, i, b))
           /\ Initialised(WriteFile(d, i, b)) = Initialised(d) \cup {i}
           /\ WriteFile(d, i, b).node[i].addr_0 = b
           /\ WriteFile(d, i, b).data[b].slots = <<>>
<1> DEFINE e == WriteFile(d, i, b)
<1>1. /\ e.imap = d.imap
      /\ e.dmap = d.dmap
      /\ \A j \in Ids : e.node[j].addr_0 = IF j = i THEN b ELSE d.node[j].addr_0
      /\ \A x \in Blocks : e.data[x].slots = IF x = b THEN <<>> ELSE d.data[x].slots
  BY WriteFileFields
<1>2. Inodes \subseteq Ids /\ b # NoBlock
  BY DEF Ids, Blocks
<1> HIDE DEF e
<1>3. Initialised(e) = Initialised(d) \cup {i}
  BY <1>1, <1>2 DEF Initialised
<1>4. \A x \in Blocks : Live(e.data[x]) = IF x = b THEN {} ELSE Live(d.data[x])
  BY <1>1, NoneLive DEF Live
<1>5. \A j \in Initialised(e) : e.node[j].addr_0 = IF j = i THEN b ELSE d.node[j].addr_0
  BY <1>1, <1>2, <1>3, InitialisedFields
<1>6. WrittenAllocated(e)
  BY <1>1, <1>3, <1>5 DEF DiskInv, WrittenAllocated
<1>7. BlocksDistinct(e)
  BY <1>3, <1>5 DEF DiskInv, BlocksDistinct
<1>8. TakenInOrder(e)
  BY <1>1 DEF DiskInv, TakenInOrder
<1>9. EntriesWritten(e)
  BY <1>1, <1>3, <1>4 DEF DiskInv, EntriesWritten
<1>10. EntriesYounger(e)
  <2>1. ASSUME NEW j \in Initialised(e), NEW k \in Live(e.data[e.node[j].addr_0]), k > 2
        PROVE  e.data[e.node[j].addr_0].slots[k].id > j
    <3>1. CASE j = i
      BY <1>1, <1>4, <1>5, <2>1, <3>1
    <3>2. CASE j # i
      <4>1. j \in Initialised(d) /\ e.node[j].addr_0 = d.node[j].addr_0
        BY <1>3, <1>5, <3>2
      <4>2. d.node[j].addr_0 \in Blocks /\ d.node[j].addr_0 # b
        BY <4>1, InitialisedFields
      <4> QED
        BY <1>1, <1>4, <2>1, <4>1, <4>2 DEF DiskInv, EntriesYounger
    <3> QED
      BY <3>1, <3>2
  <2> QED
    BY <2>1 DEF EntriesYounger
<1> QED
  BY <1>1, <1>2, <1>3, <1>6, <1>7, <1>8, <1>9, <1>10 DEF DiskInv, e

\* createFile fails, or returns an inode that was not written and that is
\* larger than all that are taken, with no entries.
LEMMA CreateFileInv ==
    ASSUME NEW d \in Disk, DiskInv(d)
    PROVE  LET c == CreateFile(d)
           IN  /\ DiskInv(c.disk)
               /\ Initialised(d) \subseteq Initialised(c.disk)
               /\ c.id # NoId =>
                     /\ c.id \in Initialised(c.disk)
                     /\ c.disk.data[c.disk.node[c.id].addr_0].slots = <<>>
                     /\ \A j \in Initialised(d) : c.id > j
<1> DEFINE i == AllocBit(d.imap)
           b == AllocBit(d.dmap)
           d1 == TakeInode(d, i)
           d2 == TakeBlock(d1, b)
<1>1. i = NoId \/ (i \in Inodes /\ d.imap[i] = 0 /\ \A j \in Inodes : j < i => d.imap[j] = 1)
  BY AllocatedFree
<1>2. b = NoId \/ (b \in Blocks /\ d.dmap[b] = 0)
  BY AllocatedFree
<1>3. NoId \notin Inodes /\ NoId \notin Blocks
  BY DEF Inodes, Blocks
<1>4. CASE i = NoId
  BY <1>4 DEF CreateFile, Created
<1>5. CASE i # NoId /\ b = NoId
  <2>1. CreateFile(d) = Created(NoId, d1)
    BY <1>5 DEF CreateFile
  <2>2. DiskInv(d1) /\ Initialised(d1) = Initialised(d)
    BY <1>1, <1>5, TakeInodeInv
  <2> QED
    BY <2>1, <2>2 DEF Created
<1>6. CASE i # NoId /\ b # NoId
  <2>1. CreateFile(d) = Created(i, WriteFile(d2, i, b))
    BY <1>6 DEF CreateFile
  <2>2. DiskInv(d1) /\ Initialised(d1) = Initialised(d)
    BY <1>1, <1>6, TakeInodeInv
  <2>3. d1 \in Disk /\ d1.imap = [d.imap EXCEPT ![i] = 1] /\ d1.node = d.node
    BY <1>1, <1>6, TakeInodeType
  <2> HIDE DEF d1
  <2>4. d1.imap[i] = 1
    BY <1>1, <1>6, <2>3, DiskFields
  <2>5. DiskInv(d2) /\ Initialised(d2) = Initialised(d)
    BY <1>2, <1>6, <2>2, <2>3, TakeBlockInv
  <2>6. d2 \in Disk /\ d2.imap = d1.imap /\ d2.node = d.node
         /\ d2.dmap = [d1.dmap EXCEPT ![b] = 1]
    BY <1>2, <1>6, <2>3, TakeBlockType
  <2>7. d2.dmap[b] = 1
    BY <1>2, <1>6, <2>3, <2>6, DiskFields
  <2>8. d2.imap[i] = 1
    BY <2>4, <2>6
  <2>9. i \notin Initialised(d) /\ \A j \in Initialised(d) : d.node[j].addr_0 # b
    BY <1>1, <1>2, <1>6 DEF DiskInv, WrittenAllocated
  <2> HIDE DEF d2
  <2> DEFINE e == WriteFile(d2, i, b)
  <2>10. /\ DiskInv(e)
        /\ Initialised(e) = Initialised(d) \cup {i}
        /\ e.node[i].addr_0 = b
        /\ e.data[b].slots = <<>>
    <3>1. i \in Inodes /\ b \in Blocks
      BY <1>1, <1>2, <1>6
    <3>2. i \notin Initialised(d2) /\ \A j \in Initialised(d2) : d2.node[j].addr_0 # b
      BY <2>5, <2>6, <2>9
    <3>3. d2 \in Disk /\ DiskInv(d2) /\ d2.imap[i] = 1 /\ d2.dmap[b] = 1
      BY <2>5, <2>6, <2>7, <2>8
    <3> HIDE DEF i, b
    <3>4. /\ DiskInv(e)
          /\ Initialised(e) = Initialised(d2) \cup {i}
          /\ e.node[i].addr_0 = b
          /\ e.data[b].slots = <<>>
      BY <3>1, <3>2, <3>3, WriteFileInv
    <3> QED
      BY <2>5, <3>4
  <2>11. \A j \in Initialised(d) : i > j
    <3>1. \A j \in Initialised(d) : j \in Inodes /\ d.imap[j] = 1
      BY InitialisedFields DEF DiskInv, WrittenAllocated
    <3>2. \A j \in Inodes : d.imap[j] = 1 => ~(i < j)
      BY <1>1, <1>6 DEF DiskInv, TakenInOrder
    <3>3. \A j \in Initialised(d) : i # j
      BY <2>9
    <3> QED
      BY <1>1, <1>6, <3>1, <3>2, <3>3 DEF Inodes
  <2> HIDE DEF e
  <2>12. CreateFile(d).id = i /\ CreateFile(d).disk = e
    BY <2>1 DEF Created, e
  <2> QED
    BY <2>10, <2>11, <2>12
<1> QED
  BY <1>4, <1>5, <1>6

-----------------------------------------------------------------------------
(* Directories *)

\* The parts of the invariant that are not about entries depend on the maps and
\* on the blocks of the inodes.
LEMMA MapsKept ==
    ASSUME NEW d, NEW e, DiskInv(d),
           e.imap = d.imap, e.dmap = d.dmap,
           \A i \in Inodes : e.node[i].addr_0 = d.node[i].addr_0
    PROVE  /\ Initialised(e) = Initialised(d)
           /\ WrittenAllocated(e)
           /\ BlocksDistinct(e)
           /\ TakenInOrder(e)
<1>1. Initialised(e) = Initialised(d)
  BY DEF Initialised
<1>2. \A i \in Initialised(d) : i \in Inodes
  BY DEF Initialised
<1>3. WrittenAllocated(e)
  BY <1>1, <1>2 DEF DiskInv, WrittenAllocated
<1>4. BlocksDistinct(e)
  BY <1>1, <1>2 DEF DiskInv, BlocksDistinct
<1>5. TakenInOrder(e)
  BY DEF DiskInv, TakenInOrder
<1> QED
  BY <1>1, <1>3, <1>4, <1>5

\* A write that leaves every block's entries as they are, but for entries that
\* it deletes, keeps the invariant.
LEMMA EntriesKept ==
    ASSUME NEW d \in Disk, NEW e \in Disk, DiskInv(d),
           e.imap = d.imap, e.dmap = d.dmap,
           \A i \in Inodes : e.node[i].addr_0 = d.node[i].addr_0,
           \A x \in Blocks : \A k \in Live(e.data[x]) :
               k \in Live(d.data[x]) /\ e.data[x].slots[k].id = d.data[x].slots[k].id
    PROVE  DiskInv(e) /\ Initialised(e) = Initialised(d)
<1>1. /\ Initialised(e) = Initialised(d)
      /\ WrittenAllocated(e)
      /\ BlocksDistinct(e)
      /\ TakenInOrder(e)
  BY MapsKept
<1>2. EntriesWritten(e)
  BY <1>1 DEF DiskInv, EntriesWritten
<1>3. EntriesYounger(e)
  <2>1. ASSUME NEW i \in Initialised(e)
        PROVE  d.node[i].addr_0 \in Blocks /\ e.node[i].addr_0 = d.node[i].addr_0
               /\ i \in Initialised(d)
    BY <1>1, InitialisedFields
  <2>2. SUFFICES ASSUME NEW i \in Initialised(e),
                        NEW k \in Live(e.data[e.node[i].addr_0]), k > 2
                 PROVE  e.data[e.node[i].addr_0].slots[k].id > i
    BY DEF EntriesYounger
  <2> DEFINE x == d.node[i].addr_0
  <2>3. x \in Blocks /\ e.node[i].addr_0 = x /\ i \in Initialised(d)
    BY <2>1
  <2>4. k \in Live(d.data[x]) /\ e.data[x].slots[k].id = d.data[x].slots[k].id
    BY <2>3
  <2>5. d.data[x].slots[k].id > i
    BY <2>2, <2>3, <2>4 DEF DiskInv, EntriesYounger
  <2> QED
    BY <2>3, <2>4, <2>5
<1> QED
  BY <1>1, <1>2, <1>3 DEF DiskInv

\* addEntryToDir in a directory that is written: one entry more, at the end.
LEMMA AddEntryFields ==
    ASSUME NEW d \in Disk, NEW f \in Ids, NEW n \in Name, NEW dir \in Initialised(d)
    PROVE  LET e == AddEntry(d, f, n, dir)
               b == d.node[dir].addr_0
           IN  /\ e.imap = d.imap
               /\ e.dmap = d.dmap
               /\ e.node = d.node
               /\ \A x \in Blocks : x # b => e.data[x] = d.data[x]
               /\ e.data[b].slots = Append(d.data[b].slots, [id |-> f, name |-> n])
<1> DEFINE b == d.node[dir].addr_0
           c == [cnt |-> d.data[b].cnt + 1,
                 slots |-> Append(d.data[b].slots, [id |-> f, name |-> n])]
<1>1. b \in Blocks /\ d.data[b].slots \in Seq(Entry) /\ d.data[b].cnt \in Nat
  BY InitialisedFields, DiskFields
<1>2. [id |-> f, name |-> n] \in Entry
  BY DEF Entry
<1>3. c \in Content
  BY <1>1, <1>2, AppendProperties DEF Content
<1>4. c.slots = Append(d.data[b].slots, [id |-> f, name |-> n])
  OBVIOUS
<1> HIDE DEF c
<1>5. /\ WriteContent(d, b, c).imap = d.imap
      /\ WriteContent(d, b, c).dmap = d.dmap
      /\ WriteContent(d, b, c).node = d.node
      /\ WriteContent(d, b, c).data = [d.data EXCEPT ![b] = c]
  BY <1>1, <1>3, WriteContentType
<1>6. AddEntry(d, f, n, dir) = WriteContent(d, b, c)
  BY DEF AddEntry, c
<1>7. \A x \in Blocks : x # b => [d.data EXCEPT ![b] = c][x] = d.data[x]
  BY <1>1, DiskFields
<1>8. [d.data EXCEPT ![b] = c][b] = c
  BY <1>1, DiskFields
<1> QED
  BY <1>1, <1>4, <1>5, <1>6, <1>7, <1>8

\* It grows the directory by one.
LEMMA AddEntryLength ==
    ASSUME NEW d \in Disk, NEW f \in Ids, NEW n \in Name, NEW dir \in Initialised(d)
    PROVE  Len(AddEntry(d, f, n, dir).data[d.node[dir].addr_0].slots) =
              Len(d.data[d.node[dir].addr_0].slots) + 1
<1> DEFINE b == d.node[dir].addr_0
           en == [id |-> f, name |-> n]
<1>1. AddEntry(d, f, n, dir).data[b].slots = Append(d.data[b].slots, en)
  BY AddEntryFields
<1>2. en \in Entry
  BY DEF Entry
<1>3. d.data[b].slots \in Seq(Entry)
  BY InitialisedFields, DiskFields
<1> HIDE DEF en, b
<1>4. Len(Append(d.data[b].slots, en)) = Len(d.data[b].slots) + 1
  BY <1>2, <1>3, AppendProperties
<1> QED
  BY <1>1, <1>4 DEF b

\* The live entries of a directory that has got one entry more.
LEMMA AppendLive ==
    ASSUME NEW c \in Content, NEW e, NEW en \in Entry, e.slots = Append(c.slots, en),
           NEW k \in Live(e)
    PROVE  \/ k \in Live(c) /\ e.slots[k] = c.slots[k]
           \/ k = Len(c.slots) + 1 /\ e.slots[k] = en
<1>1. c.slots \in Seq(Entry)
  BY DEF Content
<1>2. /\ Len(e.slots) = Len(c.slots) + 1
      /\ \A j \in 1 .. Len(c.slots) : e.slots[j] = c.slots[j]
      /\ e.slots[Len(c.slots) + 1] = en
      /\ e.slots \in Seq(Entry)
  BY <1>1, AppendProperties
<1>3. DOMAIN e.slots = 1 .. Len(e.slots) /\ DOMAIN c.slots = 1 .. Len(c.slots)
  BY <1>1, <1>2, LenProperties
<1>4. Len(c.slots) \in Nat
  BY <1>1, LenProperties
<1>5. k \in 1 .. Len(c.slots) + 1 /\ e.slots[k].id # NoId
  BY <1>2, <1>3 DEF Live
<1>6. CASE k \in 1 .. Len(c.slots)
  BY <1>2, <1>3, <1>5, <1>6 DEF Live
<1>7. CASE k = Len(c.slots) + 1
  BY <1>2, <1>7
<1> QED
  BY <1>4, <1>5, <1>6, <1>7

\* The entry may be that of a failed createFile, ".", "..", or of a younger inode.
LEMMA AddEntryInv ==
    ASSUME NEW d \in Disk, DiskInv(d), NEW n \in Name, NEW dir \in Initialised(d),
           NEW f \in Ids,
           f # NoId => /\ f \in Initialised(d)
                       /\ f > dir \/ Len(d.data[d.node[dir].addr_0].slots) < 2
    PROVE  DiskInv(AddEntry(d, f, n, dir)) /\ Initialised(AddEntry(d, f, n, dir)) = Initialised(d)
<1> DEFINE e == AddEntry(d, f, n, dir)
           b == d.node[dir].addr_0
           en == [id |-> f, name |-> n]
<1>1. /\ e.imap = d.imap
      /\ e.dmap = d.dmap
      /\ e.node = d.node
      /\ \A x \in Blocks : x # b => e.data[x] = d.data[x]
      /\ e.data[b].slots = Append(d.data[b].slots, en)
  BY AddEntryFields
<1>2. en \in Entry /\ en.id = f
  BY DEF Entry
<1>3. b \in Blocks /\ d.data[b] \in Content /\ d.data[b].slots \in Seq(Entry)
  BY InitialisedFields, DiskFields
<1> HIDE DEF e, b, en
<1>4. \A k \in Live(e.data[b]) :
         \/ k \in Live(d.data[b]) /\ e.data[b].slots[k] = d.data[b].slots[k]
         \/ k = Len(d.data[b].slots) + 1 /\ e.data[b].slots[k] = en
  BY <1>1, <1>2, <1>3, AppendLive
<1>5. \A k \in Live(e.data[b]) : e.data[b].slots[k].id # NoId
  BY DEF Live
<1>6. /\ Initialised(e) = Initialised(d)
      /\ WrittenAllocated(e)
      /\ BlocksDistinct(e)
      /\ TakenInOrder(e)
  BY <1>1, MapsKept
<1>7. EntriesWritten(e)
  <2>1. ASSUME NEW x \in Blocks, NEW k \in Live(e.data[x])
        PROVE  e.data[x].slots[k].id \in Initialised(d)
    <3>1. CASE x # b
      BY <1>1, <2>1, <3>1 DEF DiskInv, EntriesWritten
    <3>2. CASE x = b
      BY <1>2, <1>3, <1>4, <1>5, <2>1, <3>2 DEF DiskInv, EntriesWritten
    <3> QED
      BY <3>1, <3>2
  <2> QED
    BY <1>6, <2>1 DEF EntriesWritten
<1>8. EntriesYounger(e)
  <2>1. ASSUME NEW i \in Initialised(d), NEW k \in Live(e.data[d.node[i].addr_0]), k > 2
        PROVE  e.data[d.node[i].addr_0].slots[k].id > i
    <3>1. d.node[i].addr_0 \in Blocks
      BY InitialisedFields
    <3>2. CASE i # dir
      <4>1. d.node[i].addr_0 # b
        BY <3>2 DEF b, DiskInv, BlocksDistinct
      <4> QED
        BY <1>1, <2>1, <3>1, <4>1 DEF DiskInv, EntriesYounger
    <3>3. CASE i = dir
      <4>1. d.node[i].addr_0 = b
        BY <3>3 DEF b
      <4>2. k \in Live(e.data[b])
        BY <2>1, <4>1
      <4>3. CASE k \in Live(d.data[b]) /\ e.data[b].slots[k] = d.data[b].slots[k]
        BY <2>1, <4>1, <4>3 DEF DiskInv, EntriesYounger
      <4>4. CASE k = Len(d.data[b].slots) + 1 /\ e.data[b].slots[k] = en
        <5>1. Len(d.data[b].slots) \in Nat
          BY <1>3, LenProperties
        <5>2. ~(Len(d.data[b].slots) < 2)
          BY <2>1, <4>4, <5>1
        <5>3. f # NoId
          BY <1>2, <1>5, <4>2, <4>4
        <5>4. f > dir
          BY <5>2, <5>3 DEF b
        <5> QED
          BY <1>2, <3>3, <4>1, <4>4, <5>4
      <4> QED
        BY <1>4, <4>2, <4>3, <4>4
    <3> QED
      BY <3>2, <3>3
  <2> QED
    BY <1>1, <1>6, <2>1 DEF EntriesYounger
<1> QED
  BY <1>6, <1>7, <1>8 DEF DiskInv, e

LEMMA MakeDirectoryFields ==
    ASSUME NEW d \in Disk, NEW i \in Initialised(d), NEW count \in Nat
    PROVE  LET e == MakeDirectory(d, i, count)
           IN  /\ e.imap = d.imap
               /\ e.dmap = d.dmap
               /\ \A j \in Ids : e.node[j].addr_0 = d.node[j].addr_0
               /\ \A x \in Blocks : e.data[x].slots = d.data[x].slots
<1> DEFINE b == d.node[i].addr_0
           node == [type |-> Directory, addr_0 |-> b]
           c == [cnt |-> count, slots |-> d.data[b].slots]
           w == WriteInode(d, i, node)
<1>1. i \in Ids /\ b \in Blocks /\ d.data[b].slots \in Seq(Entry)
  BY InitialisedFields, DiskFields
<1>2. node \in InodeT /\ c \in Content
  BY <1>1 DEF InodeT, Content
<1>3. node.addr_0 = b /\ c.slots = d.data[b].slots
  OBVIOUS
<1> HIDE DEF node, c
<1>4. /\ w \in Disk /\ w.imap = d.imap /\ w.dmap = d.dmap /\ w.data = d.data
      /\ w.node = [d.node EXCEPT ![i] = node]
  BY <1>1, <1>2, WriteInodeType
<1> HIDE DEF w
<1>5. /\ WriteContent(w, b, c).imap = d.imap
      /\ WriteContent(w, b, c).dmap = d.dmap
      /\ WriteContent(w, b, c).node = w.node
      /\ WriteContent(w, b, c).data = [d.data EXCEPT ![b] = c]
  BY <1>1, <1>2, <1>4, WriteContentType
<1>6. MakeDirectory(d, i, count) = WriteContent(w, b, c)
  BY DEF MakeDirectory, w, node, c
<1> DEFINE e == WriteContent(w, b, c)
<1> HIDE DEF e
<1>7. \A j \in Ids : e.node[j].addr_0 = d.node[j].addr_0
  BY <1>1, <1>3, <1>4, <1>5, DiskFields DEF e
<1>8. \A x \in Blocks : e.data[x].slots = d.data[x].slots
  BY <1>1, <1>3, <1>4, <1>5, DiskFields DEF e
<1> QED
  BY <1>4, <1>5, <1>6, <1>7, <1>8 DEF e

\* newDir fills a file that was just created with its "." and "..".
LEMMA NewDirInv ==
    ASSUME NEW d \in Disk, DiskInv(d), NEW i \in Initialised(d), NEW parent \in Initialised(d),
           d.data[d.node[i].addr_0].slots = <<>>
    PROVE  DiskInv(NewDir(d, i, parent)) /\ Initialised(NewDir(d, i, parent)) = Initialised(d)
<1> DEFINE d1 == MakeDirectory(d, i, 0)
           d2 == AddEntry(d1, i, ".", i)
           b == d.node[i].addr_0
<1>1. "." \in Name /\ ".." \in Name
  BY DEF Name
<1>2. i \in Ids /\ parent \in Ids /\ b \in Blocks /\ i # NoId /\ parent # NoId
  BY InitialisedFields DEF Inodes
<1>3. d1 \in Disk
  BY <1>2, MakeDirectoryType
<1>4. /\ d1.imap = d.imap
      /\ d1.dmap = d.dmap
      /\ \A j \in Ids : d1.node[j].addr_0 = d.node[j].addr_0
      /\ \A x \in Blocks : d1.data[x].slots = d.data[x].slots
  BY MakeDirectoryFields
<1> HIDE DEF d1
<1>5. /\ Inodes \subseteq Ids
      /\ \A x \in Blocks : Live(d1.data[x]) = Live(d.data[x])
  BY <1>4 DEF Live, Ids
<1>6. DiskInv(d1) /\ Initialised(d1) = Initialised(d)
  BY <1>3, <1>4, <1>5, EntriesKept
<1>7. d1.node[i].addr_0 = b /\ Len(d1.data[b].slots) = 0
  BY <1>2, <1>4, EmptySeq
<1>8. d2 \in Disk
  BY <1>2, <1>3, AddEntryType DEF Name
<1>9. DiskInv(d2) /\ Initialised(d2) = Initialised(d)
  <2>1. i \in Initialised(d1) /\ Len(d1.data[d1.node[i].addr_0].slots) < 2
    BY <1>6, <1>7
  <2> QED
    BY <1>2, <1>3, <1>6, <1>1, <2>1, AddEntryInv
<1>10. d2.node[i].addr_0 = b /\ Len(d2.data[b].slots) = 1
  <2>1. i \in Initialised(d1)
    BY <1>6
  <2>2. d2.node = d1.node
    BY <1>2, <1>3, <1>1, <2>1, AddEntryFields
  <2>3. Len(d2.data[d1.node[i].addr_0].slots) = Len(d1.data[d1.node[i].addr_0].slots) + 1
    BY <1>2, <1>3, <1>1, <2>1, AddEntryLength
  <2> HIDE DEF d2
  <2>4. d2.node[i].addr_0 = b
    BY <1>7, <2>2
  <2>5. Len(d2.data[b].slots) = 0 + 1
    BY <1>7, <2>3
  <2> QED
    BY <2>4, <2>5
<1> HIDE DEF d2
<1>11. /\ DiskInv(AddEntry(d2, parent, "..", i))
       /\ Initialised(AddEntry(d2, parent, "..", i)) = Initialised(d)
  <2>1. i \in Initialised(d2) /\ parent \in Initialised(d2)
        /\ Len(d2.data[d2.node[i].addr_0].slots) < 2
    BY <1>9, <1>10
  <2> QED
    BY <1>2, <1>8, <1>9, <1>1, <2>1, AddEntryInv
<1> QED
  BY <1>11 DEF NewDir, d1, d2

\* newDir on inode -1 writes no inode and no entry.
LEMMA NewDirFailedInv ==
    ASSUME NEW d \in Disk, DiskInv(d)
    PROVE  DiskInv(NewDirFailed(d)) /\ Initialised(NewDirFailed(d)) = Initialised(d)
<1> DEFINE b == AllocBit(d.dmap)
           node == [type |-> Directory, addr_0 |-> NoBlock]
           w == WriteInode(d, NoId, node)
<1>1. b = NoId \/ b \in Blocks
  BY AllocatedFree
<1>2. node \in InodeT /\ NoId \in Ids /\ NoId \notin Inodes
  BY DEF InodeT, Ids, Inodes
<1> HIDE DEF node
<1>3. /\ w \in Disk /\ w.imap = d.imap /\ w.dmap = d.dmap /\ w.data = d.data
      /\ w.node = [d.node EXCEPT ![NoId] = node]
  BY <1>2, WriteInodeType
<1> HIDE DEF w
<1>4. \A j \in Inodes : w.node[j].addr_0 = d.node[j].addr_0
  BY <1>2, <1>3, DiskFields DEF Ids
<1>5. DiskInv(w) /\ Initialised(w) = Initialised(d)
  BY <1>3, <1>4, EntriesKept
<1>6. NewDirFailed(d) = IF b = NoId THEN w ELSE TakeBlock(w, b)
  BY DEF NewDirFailed, w, node
<1>7. CASE b = NoId
  BY <1>5, <1>6, <1>7
<1>8. CASE b \in Blocks
  BY <1>3, <1>5, <1>6, <1>8, TakeBlockInv DEF Blocks
<1> QED
  BY <1>1, <1>7, <1>8

-----------------------------------------------------------------------------
(* rm *)

\* rmDirEntry puts -1 for the inode of one entry, and counts down.
LEMMA DeleteEntryInv ==
    ASSUME NEW d \in Disk, DiskInv(d), NEW dir \in Initialised(d), NEW n,
           NEW k \in Match(d.data[d.node[dir].addr_0], n)
    PROVE  /\ DiskInv(DeleteEntry(d, dir, k))
           /\ Initialised(DeleteEntry(d, dir, k)) = Initialised(d)
<1> DEFINE b == d.node[dir].addr_0
           old == d.data[b]
           c == [cnt |-> old.cnt - 1,
                 slots |-> [old.slots EXCEPT ![k] = [id |-> NoId, name |-> old.slots[k].name]]]
           e == DeleteEntry(d, dir, k)
<1>1. dir \in Ids /\ b \in Blocks
  BY InitialisedFields
<1>2. old.cnt \in Nat /\ old.slots \in Seq(Entry)
  BY <1>1, DiskFields
<1>3. k \in 1 .. Len(old.slots) /\ k <= old.cnt
  BY <1>2, LenProperties DEF Match, Scanned
<1>4. [id |-> NoId, name |-> old.slots[k].name] \in Entry
  BY <1>2, <1>3, ElementOfSeq DEF Entry, Ids
<1>5. c \in Content
  <2>1. c.cnt \in Nat
    BY <1>2, <1>3
  <2>2. c.slots \in Seq(Entry)
    <3> DEFINE gone == [id |-> NoId, name |-> old.slots[k].name]
    <3>1. gone \in Entry
      BY <1>4
    <3> HIDE DEF gone, old
    <3>2. [old.slots EXCEPT ![k] = gone] \in Seq(Entry)
      BY <1>2, <1>3, <3>1, ExceptSeq
    <3> QED
      BY <3>2 DEF gone, old
  <2> QED
    BY <2>1, <2>2 DEF Content
<1>6. \A j \in Live(c) : j \in Live(old) /\ c.slots[j].id = old.slots[j].id
  BY <1>2, <1>3, LenProperties DEF Live
<1>7. e = WriteContent(d, b, c)
  BY DEF DeleteEntry
<1> HIDE DEF c
<1>8. /\ e \in Disk /\ e.imap = d.imap /\ e.dmap = d.dmap /\ e.node = d.node
      /\ e.data = [d.data EXCEPT ![b] = c]
  BY <1>1, <1>5, <1>7, WriteContentType
<1> HIDE DEF e
<1>9. \A x \in Blocks : \A j \in Live(e.data[x]) :
         j \in Live(d.data[x]) /\ e.data[x].slots[j].id = d.data[x].slots[j].id
  BY <1>1, <1>6, <1>8, DiskFields
<1>10. DiskInv(e) /\ Initialised(e) = Initialised(d)
  BY <1>8, <1>9, EntriesKept
<1> QED
  BY <1>10 DEF e

\* freeFile changes nothing: the bytes it writes are 1 already.
LEMMA FreeFileKeeps ==
    ASSUME NEW d \in Disk, DiskInv(d), NEW i \in Initialised(d) \cup {NoId}
    PROVE  FreeFile(d, i) = d
<1>1. CASE i = NoId
  BY <1>1 DEF FreeFile
<1>2. CASE i \in Initialised(d)
  <2> DEFINE b == d.node[i].addr_0
  <2>1. i \in Inodes /\ b \in Blocks
    BY <1>2, InitialisedFields
  <2>2. d.imap[i] = 1 /\ d.dmap[b] = 1
    BY <1>2 DEF DiskInv, WrittenAllocated
  <2>3. i # NoId /\ b # NoBlock
    BY <2>1 DEF Inodes, Blocks
  <2>4. FreeFile(d, i) = [d EXCEPT !.imap = FreeBit(d.imap, i), !.dmap = FreeBit(d.dmap, b)]
    BY <2>3 DEF FreeFile
  <2>5. FreeBit(d.imap, i) = d.imap /\ FreeBit(d.dmap, b) = d.dmap
    BY <2>1, <2>2, DiskFields DEF FreeBit
  <2>6. [d EXCEPT !.imap = d.imap, !.dmap = d.dmap] = d
    BY DEF Disk
  <2> QED
    BY <2>4, <2>5, <2>6
<1> QED
  BY <1>1, <1>2

-----------------------------------------------------------------------------
(* mkfs *)

LEMMA ZeroDiskInv == DiskInv(ZeroDisk) /\ Initialised(ZeroDisk) = {}
<1>1. /\ \A i \in Inodes : ZeroDisk.imap[i] = 0 /\ ZeroDisk.node[i].addr_0 = NoBlock
      /\ \A b \in Blocks : Live(ZeroDisk.data[b]) = {}
  BY DEF ZeroDisk, Zeros, Live, Ids
<1>2. Initialised(ZeroDisk) = {}
  BY <1>1 DEF Initialised
<1> QED
  BY <1>1, <1>2 DEF DiskInv, WrittenAllocated, BlocksDistinct, TakenInOrder,
                    EntriesWritten, EntriesYounger

\* On a disk of zeros createFile returns the root.
LEMMA CreateRoot == CreateFile(ZeroDisk).id = Root
<1> DEFINE i == AllocBit(ZeroDisk.imap)
           b == AllocBit(ZeroDisk.dmap)
<1>1. Root \in Free(ZeroDisk.imap) /\ 0 \in Free(ZeroDisk.dmap)
  BY RootIsInode DEF ZeroDisk, Free
<1>2. Free(ZeroDisk.imap) \subseteq Nat /\ Free(ZeroDisk.dmap) \subseteq Nat
  BY DEF ZeroDisk, Free, Inodes, Blocks
<1>3. /\ i \in Free(ZeroDisk.imap) /\ i <= Root
      /\ b \in Free(ZeroDisk.dmap)
  BY <1>1, <1>2, MinIsSmallest DEF AllocBit
<1>4. i = Root /\ i # NoId /\ b # NoId
  BY <1>2, <1>3
<1> QED
  BY <1>4 DEF CreateFile, Created

\* mkfs leaves a disk whose root is a directory.
LEMMA FormattedDiskInv == DiskInv(FormattedDisk) /\ Root \in Initialised(FormattedDisk)
<1> DEFINE c == CreateFile(ZeroDisk)
<1>1. c.disk \in Disk /\ c.id = Root /\ c.id # NoId
  BY ZeroDiskType, CreateFileType, CreateRoot
<1>2. /\ DiskInv(c.disk)
      /\ c.id \in Initialised(c.disk)
      /\ c.disk.data[c.disk.node[c.id].addr_0].slots = <<>>
  BY <1>1, ZeroDiskType, ZeroDiskInv, CreateFileInv
<1> HIDE DEF c
<1>3. /\ DiskInv(NewDir(c.disk, c.id, Root))
      /\ Initialised(NewDir(c.disk, c.id, Root)) = Initialised(c.disk)
  BY <1>1, <1>2, NewDirInv
<1> QED
  BY <1>1, <1>2, <1>3 DEF FormattedDisk, c
=============================================================================
