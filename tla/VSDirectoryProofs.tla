-------------------------- MODULE VSDirectoryProofs --------------------------
(***************************************************************************)
(* What the commands do to the directories: rm changes no other directory, *)
(* the loaded table is the disk's, the counter of a directory does not     *)
(* exceed its entries, deleted ones included, and the directories form a   *)
(* tree: an inode is entered once, and .. leads back to where it is.  No   *)
(* command but rm and mkfs takes a name away, rm takes one, and only after *)
(* a failed allocation is a counter above the entries that are left.       *)
(***************************************************************************)
EXTENDS VSProofs, FiniteSetTheorems

USE DEF NoId, NoBlock, RegularFile, Directory, Root

-----------------------------------------------------------------------------
(* rm *)

\* What is written into a block is in it, and the maps are left alone.
LEMMA WriteContentFields ==
    ASSUME NEW d \in Disk, NEW b \in Blocks, NEW c
    PROVE  /\ WriteContent(d, b, c).imap = d.imap
           /\ WriteContent(d, b, c).dmap = d.dmap
           /\ WriteContent(d, b, c).data[b] = c
BY DiskFields DEF WriteContent, Disk

\* rmDirEntry writes to one block: an entry's id, and the counter.
LEMMA DeleteEntryWrites ==
    ASSUME NEW d \in Disk, NEW dir \in Initialised(d), NEW k
    PROVE  LET e   == DeleteEntry(d, dir, k)
               b   == d.node[dir].addr_0
               old == d.data[b]
           IN  /\ e.imap = d.imap
               /\ e.dmap = d.dmap
               /\ e.data[b] = [cnt |-> old.cnt - 1,
                               slots |-> [old.slots EXCEPT ![k] = [id |-> NoId, name |-> @.name]]]
<1> DEFINE b == d.node[dir].addr_0
           c == [cnt |-> d.data[b].cnt - 1,
                 slots |-> [d.data[b].slots EXCEPT ![k] = [id |-> NoId, name |-> @.name]]]
<1>1. b \in Blocks
  BY InitialisedFields
<1>2. DeleteEntry(d, dir, k) = WriteContent(d, b, c)
  BY DEF DeleteEntry
<1>3. WriteContent(d, b, c).imap = d.imap /\ WriteContent(d, b, c).dmap = d.dmap
      /\ WriteContent(d, b, c).data[b] = c
  <2> HIDE DEF b, c
  <2> QED
    BY <1>1, WriteContentFields
<1> QED
  BY <1>2, <1>3

LEMMA DeleteEntryFields ==
    ASSUME NEW d \in Disk, NEW dir \in Initialised(d), NEW n,
           NEW k \in Match(d.data[d.node[dir].addr_0], n)
    PROVE  LET e == DeleteEntry(d, dir, k)
               b == d.node[dir].addr_0
           IN  /\ e.node = d.node
               /\ \A x \in Blocks : x # b => e.data[x] = d.data[x]
               /\ e.data[b].cnt = d.data[b].cnt - 1
               /\ Len(e.data[b].slots) = Len(d.data[b].slots)
               /\ \A j \in 1 .. Len(d.data[b].slots) :
                     e.data[b].slots[j].id \in {d.data[b].slots[j].id, NoId}
<1> DEFINE b == d.node[dir].addr_0
           old == d.data[b]
           gone == [id |-> NoId, name |-> old.slots[k].name]
           rest == [old.slots EXCEPT ![k] = gone]
           c == [cnt |-> old.cnt - 1, slots |-> rest]
<1>1. dir \in Ids /\ b \in Blocks
  BY InitialisedFields
<1>2. old.cnt \in Nat /\ old.slots \in Seq(Entry)
  BY <1>1, DiskFields
<1>3. k \in 1 .. Len(old.slots) /\ k <= old.cnt
  BY <1>2, LenProperties DEF Match, Scanned
<1>4. gone \in Entry
  BY <1>2, <1>3, ElementOfSeq DEF Entry, Ids
<1>5. gone.id = NoId
  OBVIOUS
<1> HIDE DEF gone
<1>6. /\ rest \in Seq(Entry)
      /\ Len(rest) = Len(old.slots)
      /\ \A j \in 1 .. Len(old.slots) : rest[j].id \in {old.slots[j].id, NoId}
  <2> HIDE DEF old
  <2> QED
    BY <1>2, <1>3, <1>4, <1>5, ExceptSeq
<1> HIDE DEF rest
<1>7. c.cnt = old.cnt - 1 /\ c.slots = rest /\ c \in Content
  <2>1. rest \in Seq(Entry)
    BY <1>6
  <2>2. old.cnt - 1 \in Nat
    BY <1>2, <1>3
  <2> QED
    BY <2>1, <2>2 DEF Content
<1>8. DeleteEntry(d, dir, k) = WriteContent(d, b, c)
  BY DEF DeleteEntry, gone, rest
<1> HIDE DEF c
<1>9. /\ WriteContent(d, b, c).node = d.node
      /\ WriteContent(d, b, c).data = [d.data EXCEPT ![b] = c]
  BY <1>1, <1>7, WriteContentType
<1>10. \A x \in Blocks : [d.data EXCEPT ![b] = c][x] = IF x = b THEN c ELSE d.data[x]
  BY <1>1, DiskFields
<1> QED
  BY <1>1, <1>6, <1>7, <1>8, <1>9, <1>10, ZenonT(60)

\* A deleted entry keeps its name.
LEMMA DeleteEntryNames ==
    ASSUME NEW d \in Disk, NEW dir \in Initialised(d), NEW n,
           NEW k \in Match(d.data[d.node[dir].addr_0], n),
           NEW j \in 1 .. Len(d.data[d.node[dir].addr_0].slots)
    PROVE  DeleteEntry(d, dir, k).data[d.node[dir].addr_0].slots[j].name
             = d.data[d.node[dir].addr_0].slots[j].name
<1> DEFINE b == d.node[dir].addr_0
           slots == d.data[b].slots
           gone == [id |-> NoId, name |-> slots[k].name]
<1>1. dir \in Ids /\ b \in Blocks
  BY InitialisedFields
<1>2. slots \in Seq(Entry) /\ j \in DOMAIN slots
  BY <1>1, DiskFields, LenProperties
<1>3. DeleteEntry(d, dir, k).data[b].slots = [slots EXCEPT ![k] = gone]
  <2> DEFINE rest == [slots EXCEPT ![k] = gone]
             cnt == d.data[b].cnt - 1
  <2>1. DeleteEntry(d, dir, k).data[b] = [cnt |-> cnt, slots |-> rest]
    BY DeleteEntryWrites, ZenonT(60)
  <2> HIDE DEF cnt, rest
  <2>2. DeleteEntry(d, dir, k).data[b].slots = rest
    BY <2>1
  <2> QED
    BY <2>2 DEF rest
<1>4. [slots EXCEPT ![k] = gone][j].name = slots[j].name
  <2> HIDE DEF slots
  <2> QED
    BY <1>2
<1> QED
  BY <1>3, <1>4

\* rm changes one directory: the entries of all the others are as they were.
THEOREM LocalCorrect == Spec => RmIsLocal
<1> DEFINE Local == Removal => \A i \in Inodes \ {cwd} : DirOf(i)' = DirOf(i)
<1>1. ASSUME TypeOK, Inv, [Next]_vars PROVE Local
  <2> SUFFICES ASSUME Removal, NEW i \in Inodes, i # cwd PROVE DirOf(i)' = DirOf(i)
    BY DEF Local
  <2>1. PICK n \in Name : Rm(n)
    BY DEF Removal
  <2>2. PICK k \in Match(Here, n) : disk' = DeleteEntry(disk, cwd, k)
    BY <1>1, <2>1, RmDisk
  <2>3. disk \in Disk /\ DiskInv(disk) /\ cwd \in Initialised(disk)
    BY <1>1, <2>1 DEF TypeOK, Inv, Rm, Ready, Idle, Adrift
  <2> DEFINE b == disk.node[cwd].addr_0
  <2>4. Here = disk.data[b]
    BY <2>3 DEF Here, ContentOf, Initialised
  <2>5. disk'.node = disk.node /\ \A x \in Blocks : x # b => disk'.data[x] = disk.data[x]
    BY <2>2, <2>3, <2>4, DeleteEntryFields
  <2>6. CASE disk.node[i].addr_0 = NoBlock
    BY <2>5, <2>6 DEF DirOf, ContentOf
  <2>7. CASE disk.node[i].addr_0 # NoBlock
    <3>1. i \in Initialised(disk)
      BY <2>7 DEF Initialised
    <3>2. disk.node[i].addr_0 \in Blocks /\ disk.node[i].addr_0 # b
      BY <2>3, <3>1, InitialisedFields DEF DiskInv, BlocksDistinct
    <3> QED
      BY <2>5, <2>7, <3>2 DEF DirOf, ContentOf
  <2> QED
    BY <2>6, <2>7
<1>2. TypeOK /\ Inv /\ [Next]_vars => [Local]_vars
  BY <1>1
<1> QED
  BY <1>2, TypeCorrect, InvCorrect, PTL DEF Spec, RmIsLocal

-----------------------------------------------------------------------------
(* The loaded table *)

\* A load that stays in its directory gives the directory's table.
LEMMA LoadFresh ==
    ASSUME NEW d, NEW g, NEW i, NEW r \in Loads(d, g, i), r.up, ~r.lost, InRange(d, i)
    PROVE  r.table = TableOf(ContentOf(d, i))
<1>1. ContentOf(d, i).cnt # 0
  BY DEF InRange
<1>2. r \notin {Crashed, Lost}
  BY DEF Crashed, Lost
<1>3. r = Loaded(TableOf(ContentOf(d, i)))
  BY <1>1, <1>2 DEF Loads
<1> QED
  BY <1>3 DEF Loaded

\* The table is what a load of the current directory has just given.
Reloaded == \E r \in Loads(disk', good', cwd') : r.up /\ ~r.lost /\ cwd_table' = r.table

\* A process that goes on has loaded its directory, or the table it had and all
\* that the table was loaded from are as before; a mkdir that fails returns
\* without a load.
LEMMA TableSteps ==
    ASSUME TypeOK, Inv, [Next]_vars, up', job' # Adrift
    PROVE  \/ Reloaded
           \/ up /\ job # Adrift /\ UNCHANGED <<disk, good, cwd, cwd_table>>
           \/ MkdirFailed
<1> DEFINE Kept == up /\ job # Adrift /\ UNCHANGED <<disk, good, cwd, cwd_table>>
<1>0. Ready \/ Busy => up /\ job # Adrift
  BY CwdInitialised
<1>1. ASSUME NEW d, NEW i, NEW j, LoadTable(d, i, j), d = disk', i = cwd' PROVE Reloaded
  BY <1>1 DEF LoadTable, Reloaded
<1>2. ASSUME NEW d, NEW i, NEW k, NEW j, LoadTables(d, i, k, j), d = disk', k = cwd'
      PROVE  Reloaded
  BY <1>2 DEF LoadTables, Reloaded
<1>3. ASSUME NEW p, NEW op, NEW n, NEW flag, Begin(p, op, n, flag) PROVE Reloaded \/ Kept
  BY <1>0, <1>1, <1>3 DEF Begin
<1>4. CASE Start \/ Mkfs \/ OpenExisting
  BY <1>1, <1>4 DEF Start, Mkfs, OpenExisting
<1>5. ASSUME NEW n \in RmTarget, Rm(n) PROVE Reloaded
  <2>1. PICK k \in Match(Here, n) :
            disk' = DeleteEntry(disk, cwd, k) /\ LoadTable(DeleteEntry(disk, cwd, k), cwd, Idle)
    BY <1>5, RmDisk
  <2> QED
    BY <1>1, <1>5, <2>1 DEF Rm
<1>6. CASE OpenNew \/ Mkdir
  BY <1>2, <1>6 DEF OpenNew, Mkdir
<1>7. CASE GiveUp \/ EndCd \/ OpenRefused \/ CreateOnDeadStream
  BY <1>0, <1>7 DEF GiveUp, EndCd, OpenRefused, CreateOnDeadStream, Walking, Arrived
<1>8. ASSUME NEW fd, Close(fd) PROVE Kept
  BY <1>0, <1>8 DEF Close
<1>9. CASE UNCHANGED vars
  BY <1>9 DEF vars
<1>10. CASE Descend
  <2> DEFINE i == cwd_table[Head(job.rest)]
             j == [job EXCEPT !.rest = Tail(@)]
  <2>1. /\ LoadTable(disk, i, j) /\ disk' = disk
        /\ cwd' = IF i \in Inodes THEN i ELSE cwd
        /\ i \in AnyId
        /\ disk \in Disk /\ good' \in BOOLEAN
    BY <1>10 DEF Descend, TypeOK, IsTable
  <2> HIDE DEF i, j
  <2>2. i \in Initialised(disk)
    BY <2>1, LoadTableType
  <2> QED
    BY <1>1, <2>1, <2>2 DEF Initialised
<1>11. CASE RmUndefined
  BY <1>0, <1>11 DEF RmUndefined
<1> QED
  BY <1>3, <1>4, <1>5, <1>6, <1>7, <1>8, <1>9, <1>10, <1>11
     DEF Next, Command, Continue, Stop, MkfsOnDeadStream, RmAborts,
         BeginCd, BeginOpen, BeginMkdir

\* The table that names are looked up in is the one of the disk: every command
\* that has changed the directory, or gone to another one, has loaded it since.
THEOREM TableCorrect == Spec => []TableFresh
<1>1. Init => TableFresh
  BY DEF Init, TableFresh
<1>2. TypeOK /\ Inv /\ TableFresh /\ [Next]_vars => TableFresh'
  <2> SUFFICES ASSUME TypeOK, Inv, TableFresh, [Next]_vars,
                      up', job' # Adrift, good', InRange(disk', cwd')
               PROVE  cwd_table' = TableOf(ContentOf(disk', cwd'))
    BY DEF TableFresh, DirOf
  <2>1. CASE Reloaded
    BY <2>1, LoadFresh DEF Reloaded
  <2>2. CASE up /\ job # Adrift /\ UNCHANGED <<disk, good, cwd, cwd_table>>
    BY <2>2 DEF TableFresh, DirOf
  <2>3. CASE MkdirFailed
    BY <2>3 DEF MkdirFailed
  <2> QED
    BY <2>1, <2>2, <2>3, TableSteps
<1> QED
  BY <1>1, <1>2, TypeCorrect, InvCorrect, PTL DEF Spec

-----------------------------------------------------------------------------
(* The counters *)

\* No counter of a directory exceeds its entries, deleted ones included.
CountsFit(d) ==
    \A i \in Initialised(d) :
        d.node[i].type = Directory =>
            d.data[d.node[i].addr_0].cnt <= Len(d.data[d.node[i].addr_0].slots)

\* The four fields of a file, its inode and its block, and what is left alone.
LEMMA WriteFileWrites ==
    ASSUME NEW d \in Disk, NEW i \in Inodes, NEW b \in Blocks
    PROVE  LET e == WriteFile(d, i, b)
           IN  /\ e.node = [d.node EXCEPT ![i] = [type |-> RegularFile, addr_0 |-> b]]
               /\ \A x \in Blocks : x # b => e.data[x] = d.data[x]
<1> DEFINE node == [type |-> RegularFile, addr_0 |-> b]
           c == [cnt |-> d.data[b].cnt, slots |-> <<>>]
           e == WriteInode(d, i, node)
<1>1. node \in InodeT /\ i \in Ids /\ c \in Content
  BY DiskFields, EmptySeq DEF InodeT, Ids, Content
<1> HIDE DEF node, c
<1>2. e \in Disk /\ e.data = d.data /\ e.node = [d.node EXCEPT ![i] = node]
  BY <1>1, WriteInodeType
<1> HIDE DEF e
<1>3. WriteContent(e, b, c).node = e.node /\ WriteContent(e, b, c).data = [d.data EXCEPT ![b] = c]
  BY <1>1, <1>2, WriteContentType
<1>4. WriteFile(d, i, b) = WriteContent(e, b, c)
  BY DEF WriteFile, e, node, c
<1>5. \A x \in Blocks : x # b => [d.data EXCEPT ![b] = c][x] = d.data[x]
  BY DiskFields
<1> QED
  BY <1>2, <1>3, <1>4, <1>5 DEF node

\* createFile leaves the inodes that are written alone, and their blocks; what it
\* creates is a file without entries.
LEMMA CreateFileWrites ==
    ASSUME NEW d \in Disk, DiskInv(d)
    PROVE  LET c == CreateFile(d)
           IN  /\ \A j \in Initialised(d) : /\ c.disk.node[j] = d.node[j]
                                            /\ c.disk.data[d.node[j].addr_0] = d.data[d.node[j].addr_0]
               /\ \A j \in Initialised(c.disk) :
                     \/ j \in Initialised(d)
                     \/ /\ j = c.id
                        /\ j \notin Initialised(d)
                        /\ c.disk.node[j].type = RegularFile
                        /\ c.disk.data[c.disk.node[j].addr_0].slots = <<>>
<1> DEFINE i == AllocBit(d.imap)
           b == AllocBit(d.dmap)
           d1 == TakeInode(d, i)
           d2 == TakeBlock(d1, b)
           e == WriteFile(d2, i, b)
<1>1. CASE i = NoId
  BY <1>1 DEF CreateFile, Created
<1>2. ASSUME i # NoId PROVE d1 \in Disk /\ d1.node = d.node /\ d1.data = d.data
  BY <1>2, AllocatedFree, TakeInodeType
<1>3. CASE i # NoId /\ b = NoId
  <2>1. CreateFile(d).disk = d1
    BY <1>3 DEF CreateFile, Created
  <2> HIDE DEF d1
  <2> QED
    BY <1>2, <1>3, <2>1 DEF Initialised
<1>4. CASE i # NoId /\ b # NoId
  <2>1. CreateFile(d).disk = e /\ CreateFile(d).id = i
    BY <1>4 DEF CreateFile, Created
  <2>2. i \in Inodes /\ b \in Blocks /\ d.imap[i] = 0 /\ d.dmap[b] = 0
    BY <1>4, AllocatedFree
  <2> HIDE DEF d1, i, b
  <2>3. d2 \in Disk /\ d2.node = d.node /\ d2.data = d.data
    BY <1>2, <1>4, <2>2, TakeBlockType
  <2> HIDE DEF d2
  <2>4. /\ e.node = [d.node EXCEPT ![i] = [type |-> RegularFile, addr_0 |-> b]]
        /\ \A x \in Blocks : x # b => e.data[x] = d.data[x]
        /\ e.data[b].slots = <<>>
    BY <2>2, <2>3, WriteFileWrites, WriteFileFields
  <2> HIDE DEF e
  <2>5. \A j \in Ids : e.node[j] = IF j = i THEN [type |-> RegularFile, addr_0 |-> b]
                                  ELSE d.node[j]
    BY <2>4, DiskFields
  <2>6. i \notin Initialised(d) /\ \A j \in Initialised(d) : d.node[j].addr_0 # b
    BY <2>2 DEF DiskInv, WrittenAllocated
  <2>7. \A j \in Initialised(d) : e.node[j] = d.node[j] /\ e.data[d.node[j].addr_0] = d.data[d.node[j].addr_0]
    BY <2>4, <2>5, <2>6, InitialisedFields
  <2>8. \A j \in Initialised(e) : j \in Initialised(d) \/ j = i
    BY <2>5 DEF Initialised, Ids
  <2>9. e.node[i].type = RegularFile /\ e.data[e.node[i].addr_0].slots = <<>>
    BY <2>2, <2>4, <2>5 DEF Ids
  <2> QED
    BY <2>1, <2>6, <2>7, <2>8, <2>9
<1> QED
  BY <1>1, <1>3, <1>4

LEMMA CreateFileFits ==
    ASSUME NEW d \in Disk, DiskInv(d), CountsFit(d)
    PROVE  CountsFit(CreateFile(d).disk)
<1> DEFINE e == CreateFile(d).disk
<1>1. /\ \A j \in Initialised(d) : /\ e.node[j] = d.node[j]
                                   /\ e.data[d.node[j].addr_0] = d.data[d.node[j].addr_0]
      /\ \A j \in Initialised(e) : j \in Initialised(d) \/ e.node[j].type = RegularFile
  BY CreateFileWrites
<1> HIDE DEF e
<1>2. CountsFit(e)
  <2> SUFFICES ASSUME NEW j \in Initialised(e), e.node[j].type = Directory
               PROVE  e.data[e.node[j].addr_0].cnt <= Len(e.data[e.node[j].addr_0].slots)
    BY DEF CountsFit
  <2>1. /\ j \in Initialised(d)
        /\ e.node[j] = d.node[j]
        /\ e.data[e.node[j].addr_0] = d.data[d.node[j].addr_0]
    BY <1>1
  <2> QED
    BY <2>1 DEF CountsFit
<1> QED
  BY <1>2 DEF e

\* An entry more, and one more in the counter.
LEMMA AddEntryFits ==
    ASSUME NEW d \in Disk, DiskInv(d), CountsFit(d), NEW f \in Ids, NEW n \in Name,
           NEW dir \in Initialised(d)
    PROVE  CountsFit(AddEntry(d, f, n, dir))
<1> DEFINE e == AddEntry(d, f, n, dir)
           b == d.node[dir].addr_0
<1>1. e.node = d.node /\ \A x \in Blocks : x # b => e.data[x] = d.data[x]
  BY AddEntryFields
<1>2. Len(e.data[b].slots) = Len(d.data[b].slots) + 1
  BY AddEntryLength
<1>3. e.data[b].cnt = d.data[b].cnt + 1
  BY InitialisedFields, DiskFields DEF AddEntry, WriteContent
<1>4. b \in Blocks /\ d.data[b].cnt \in Nat /\ Len(d.data[b].slots) \in Nat
  BY InitialisedFields, DiskFields, LenProperties
<1> HIDE DEF e, b
<1>5. ASSUME NEW j \in Initialised(d), d.node[j].type = Directory
      PROVE  e.data[d.node[j].addr_0].cnt <= Len(e.data[d.node[j].addr_0].slots)
  <2>1. d.node[j].addr_0 \in Blocks
    BY InitialisedFields
  <2>2. CASE d.node[j].addr_0 # b
    BY <1>1, <1>5, <2>1, <2>2 DEF CountsFit
  <2>3. CASE d.node[j].addr_0 = b
    <3>1. d.data[b].cnt <= Len(d.data[b].slots)
      BY <1>5, <2>3 DEF CountsFit
    <3> QED
      BY <1>2, <1>3, <1>4, <2>3, <3>1
  <2> QED
    BY <2>2, <2>3
<1> QED
  BY <1>1, <1>5 DEF CountsFit, Initialised, e

\* A file without entries becomes a directory with none, and then has two.
LEMMA NewDirFits ==
    ASSUME NEW d \in Disk, DiskInv(d), CountsFit(d),
           NEW i \in Initialised(d), NEW parent \in Initialised(d),
           d.data[d.node[i].addr_0].slots = <<>>
    PROVE  CountsFit(NewDir(d, i, parent))
<1> DEFINE d1 == MakeDirectory(d, i, 0)
           d2 == AddEntry(d1, i, ".", i)
           b == d.node[i].addr_0
           node == [type |-> Directory, addr_0 |-> b]
           c == [cnt |-> 0, slots |-> d.data[b].slots]
           w == WriteInode(d, i, node)
<1>1. "." \in Name /\ ".." \in Name
  BY DEF Name
<1>2. i \in Ids /\ parent \in Ids /\ b \in Blocks /\ i # NoId
  BY InitialisedFields DEF Inodes
<1>3. d1 \in Disk
  BY <1>2, MakeDirectoryType
<1>4. /\ d1.imap = d.imap
      /\ d1.dmap = d.dmap
      /\ \A j \in Ids : d1.node[j].addr_0 = d.node[j].addr_0
      /\ \A x \in Blocks : d1.data[x].slots = d.data[x].slots
  BY MakeDirectoryFields
<1>5. /\ d1.data[b].cnt = 0
      /\ \A x \in Blocks : x # b => d1.data[x] = d.data[x]
      /\ \A j \in Ids : j # i => d1.node[j] = d.node[j]
  BY <1>2, DiskFields DEF MakeDirectory, WriteContent, WriteInode
<1> HIDE DEF d1
<1>6. DiskInv(d1) /\ Initialised(d1) = Initialised(d)
  <2>1. /\ Inodes \subseteq Ids
        /\ \A x \in Blocks : Live(d1.data[x]) = Live(d.data[x])
    BY <1>4 DEF Live, Ids
  <2> QED
    BY <1>3, <1>4, <2>1, EntriesKept
<1>7. CountsFit(d1)
  <2> SUFFICES ASSUME NEW j \in Initialised(d), d1.node[j].type = Directory
               PROVE  d1.data[d1.node[j].addr_0].cnt <= Len(d1.data[d1.node[j].addr_0].slots)
    BY <1>6 DEF CountsFit
  <2>1. j \in Ids /\ d1.node[j].addr_0 = d.node[j].addr_0 /\ d.node[j].addr_0 \in Blocks
    BY <1>4, InitialisedFields
  <2>2. CASE j = i
    <3>1. Len(d1.data[b].slots) = 0
      BY <1>2, <1>4, EmptySeq
    <3> QED
      BY <1>5, <2>1, <2>2, <3>1
  <2>3. CASE j # i
    <3>1. d.node[j].addr_0 # b
      BY <2>3 DEF DiskInv, BlocksDistinct
    <3> QED
      BY <1>5, <2>1, <2>3, <3>1 DEF CountsFit
  <2> QED
    BY <2>2, <2>3
<1>8. d2 \in Disk
  BY <1>1, <1>2, <1>3, AddEntryType
<1>9. DiskInv(d2) /\ Initialised(d2) = Initialised(d)
  <2>1. Len(d1.data[d1.node[i].addr_0].slots) < 2
    BY <1>2, <1>4, EmptySeq
  <2> QED
    BY <1>1, <1>2, <1>3, <1>6, <2>1, AddEntryInv
<1>10. CountsFit(d2)
  BY <1>1, <1>2, <1>3, <1>6, <1>7, AddEntryFits
<1> HIDE DEF d2
<1>11. CountsFit(AddEntry(d2, parent, "..", i))
  BY <1>1, <1>2, <1>8, <1>9, <1>10, AddEntryFits
<1> QED
  BY <1>11 DEF NewDir, d1, d2

LEMMA NewDirFailedFits ==
    ASSUME NEW d \in Disk, DiskInv(d), CountsFit(d)
    PROVE  CountsFit(NewDirFailed(d))
<1>1. /\ NewDirFailed(d).data = d.data
      /\ \A j \in Inodes : NewDirFailed(d).node[j] = d.node[j]
  BY DiskFields DEF NewDirFailed, WriteInode, TakeBlock, Ids, Inodes
<1>2. Initialised(NewDirFailed(d)) = Initialised(d)
  BY NewDirFailedInv
<1> QED
  BY <1>1, <1>2, InitialisedFields DEF CountsFit

\* An entry is deleted in place, and counted out.
LEMMA DeleteEntryFits ==
    ASSUME NEW d \in Disk, DiskInv(d), CountsFit(d), NEW dir \in Initialised(d), NEW n,
           NEW k \in Match(d.data[d.node[dir].addr_0], n)
    PROVE  CountsFit(DeleteEntry(d, dir, k))
<1> DEFINE e == DeleteEntry(d, dir, k)
           b == d.node[dir].addr_0
<1>1. /\ e.node = d.node
      /\ \A x \in Blocks : x # b => e.data[x] = d.data[x]
      /\ e.data[b].cnt = d.data[b].cnt - 1
      /\ Len(e.data[b].slots) = Len(d.data[b].slots)
      /\ \A j \in 1 .. Len(d.data[b].slots) :
            e.data[b].slots[j].id \in {d.data[b].slots[j].id, NoId}
  BY DeleteEntryFields
<1>2. b \in Blocks /\ d.data[b].cnt \in Nat /\ Len(d.data[b].slots) \in Nat
  BY InitialisedFields, DiskFields, LenProperties
<1> HIDE DEF e, b
<1>3. ASSUME NEW j \in Initialised(d), d.node[j].type = Directory
      PROVE  e.data[d.node[j].addr_0].cnt <= Len(e.data[d.node[j].addr_0].slots)
  <2>1. d.node[j].addr_0 \in Blocks
    BY InitialisedFields
  <2>2. CASE d.node[j].addr_0 # b
    BY <1>1, <1>3, <2>1, <2>2 DEF CountsFit
  <2>3. CASE d.node[j].addr_0 = b
    <3>1. e.data[b].cnt = d.data[b].cnt - 1 /\ Len(e.data[b].slots) = Len(d.data[b].slots)
      BY <1>1
    <3>2. d.data[b].cnt <= Len(d.data[b].slots)
      BY <1>3, <2>3 DEF CountsFit
    <3> QED
      BY <1>2, <2>3, <3>1, <3>2
  <2> QED
    BY <2>2, <2>3
<1> QED
  BY <1>1, <1>3 DEF CountsFit, Initialised, e

LEMMA FormattedDiskFits == CountsFit(ZeroDisk) /\ CountsFit(FormattedDisk)
<1> DEFINE c == CreateFile(ZeroDisk)
<1>1. CountsFit(ZeroDisk)
  BY ZeroDiskInv DEF CountsFit
<1>2. c.disk \in Disk /\ c.id = Root /\ c.id # NoId
  BY ZeroDiskType, CreateFileType, CreateRoot
<1>3. /\ DiskInv(c.disk)
      /\ c.id \in Initialised(c.disk)
      /\ c.disk.data[c.disk.node[c.id].addr_0].slots = <<>>
  BY <1>2, ZeroDiskType, ZeroDiskInv, CreateFileInv
<1>4. CountsFit(c.disk)
  BY <1>1, ZeroDiskType, ZeroDiskInv, CreateFileFits
<1> HIDE DEF c
<1>5. CountsFit(NewDir(c.disk, c.id, Root))
  BY <1>2, <1>3, <1>4, NewDirFits
<1> QED
  BY <1>1, <1>5 DEF FormattedDisk, c

LEMMA OpenNewFits ==
    ASSUME TypeOK, Inv, CountsFit(disk), OpenNew
    PROVE  CountsFit(disk')
<1> DEFINE c == CreateFile(disk)
<1>1. disk \in Disk /\ DiskInv(disk) /\ cwd \in Initialised(disk) /\ job.file \in Name
  BY JobType DEF TypeOK, Inv, OpenNew, Arrived, Busy
<1>2. disk' = AddEntry(c.disk, c.id, job.file, cwd)
  BY DEF OpenNew
<1>3. c.id \in Ids /\ c.disk \in Disk
  BY <1>1, CreateFileType
<1>4. DiskInv(c.disk) /\ cwd \in Initialised(c.disk)
  BY <1>1, CreateFileInv
<1>5. CountsFit(c.disk)
  BY <1>1, CreateFileFits
<1> HIDE DEF c
<1> QED
  BY <1>1, <1>2, <1>3, <1>4, <1>5, AddEntryFits

LEMMA MkdirFits ==
    ASSUME TypeOK, Inv, CountsFit(disk), Mkdir
    PROVE  CountsFit(disk')
<1> DEFINE c == CreateFile(disk)
           d == NewDir(c.disk, c.id, cwd)
<1>1. disk \in Disk /\ DiskInv(disk) /\ cwd \in Initialised(disk) /\ job.file \in Name
  BY JobType DEF TypeOK, Inv, Mkdir, Arrived, Busy
<1>2. c.id # NoId /\ disk' = AddEntry(d, c.id, job.file, cwd)
  BY DEF Mkdir
<1>3. c.id \in Ids /\ c.disk \in Disk
  BY <1>1, CreateFileType
<1>4. /\ DiskInv(c.disk)
      /\ cwd \in Initialised(c.disk)
      /\ c.id \in Initialised(c.disk)
      /\ c.disk.data[c.disk.node[c.id].addr_0].slots = <<>>
  BY <1>1, <1>2, CreateFileInv
<1>5. CountsFit(c.disk)
  BY <1>1, CreateFileFits
<1> HIDE DEF c
<1>6. d \in Disk
  BY <1>3, <1>4, InitialisedFields, NewDirType
<1>7. DiskInv(d) /\ cwd \in Initialised(d) /\ CountsFit(d)
  BY <1>3, <1>4, <1>5, NewDirInv, NewDirFits
<1> HIDE DEF d
<1> QED
  BY <1>1, <1>2, <1>3, <1>6, <1>7, AddEntryFits

\* The steps that change the disk.
LEMMA DiskSteps ==
    [Next]_vars => \/ Mkfs \/ OpenNew \/ Mkdir \/ MkdirFailed
                   \/ \E n \in RmTarget : Rm(n)
                   \/ disk' = disk
BY DEF Next, Command, Continue, Start, Stop, MkfsOnDeadStream, Begin, BeginCd, BeginOpen,
       BeginMkdir, Close, RmAborts, RmUndefined, Descend, GiveUp, EndCd, OpenExisting,
       OpenRefused, CreateOnDeadStream, vars

\* rm scans the first cnt entries without looking for the directory's end: there
\* are that many, however often names are removed and created again.
THEOREM ScanCorrect == Spec => []ScanInRange
<1>1. Init => CountsFit(disk)
  BY FormattedDiskFits DEF Init
<1>2. TypeOK /\ Inv /\ CountsFit(disk) /\ [Next]_vars => CountsFit(disk)'
  <2> SUFFICES ASSUME TypeOK, Inv, CountsFit(disk), [Next]_vars PROVE CountsFit(disk')
    OBVIOUS
  <2>1. CASE Mkfs
    BY <2>1, FormattedDiskFits DEF Mkfs
  <2>2. ASSUME NEW n \in RmTarget, Rm(n) PROVE CountsFit(disk')
    <3>1. PICK k \in Match(Here, n) : disk' = DeleteEntry(disk, cwd, k)
      BY <2>2, RmDisk
    <3>2. disk \in Disk /\ DiskInv(disk) /\ cwd \in Initialised(disk)
      BY <2>2 DEF TypeOK, Inv, Rm, Ready, Idle, Adrift
    <3>3. Here = disk.data[disk.node[cwd].addr_0]
      BY <3>2 DEF Here, ContentOf, Initialised
    <3> QED
      BY <3>1, <3>2, <3>3, DeleteEntryFits
  <2>3. CASE OpenNew
    BY <2>3, OpenNewFits
  <2>4. CASE Mkdir
    BY <2>4, MkdirFits
  <2>5. CASE MkdirFailed
    <3>1. disk \in Disk /\ DiskInv(disk) /\ disk' = NewDirFailed(CreateFile(disk).disk)
      BY <2>5 DEF TypeOK, Inv, MkdirFailed
    <3>2. CreateFile(disk).disk \in Disk /\ DiskInv(CreateFile(disk).disk)
      BY <3>1, CreateFileType, CreateFileInv
    <3>3. CountsFit(CreateFile(disk).disk)
      BY <3>1, CreateFileFits
    <3> QED
      BY <3>1, <3>2, <3>3, NewDirFailedFits
  <2>6. ASSUME disk' = disk PROVE CountsFit(disk')
    BY <2>6
  <2> QED
    BY <2>1, <2>2, <2>3, <2>4, <2>5, <2>6, DiskSteps
<1>3. TypeOK /\ CountsFit(disk) => ScanInRange
  BY ContentInitialised DEF ScanInRange, CountsFit, Directories, IsDirectory
<1> QED
  BY <1>1, <1>2, <1>3, TypeCorrect, InvCorrect, PTL DEF Spec

-----------------------------------------------------------------------------
(* The tree *)

SlotsOf(d, i) == d.data[d.node[i].addr_0].slots
ChildrenOf(d, i) == {k \in Live(d.data[d.node[i].addr_0]) : k > 2}
IsDir(d, i) == d.node[i].type = Directory

\* No inode has two entries apart from "." and "..".
NamedOnce(d) ==
    \A i, j \in Initialised(d) : \A k \in ChildrenOf(d, i), l \in ChildrenOf(d, j) :
        SlotsOf(d, i)[k].id = SlotsOf(d, j)[l].id => i = j /\ k = l

\* The first two entries of a directory are its "." and "..", deleted or not.
HasDots(d) ==
    \A i \in Initialised(d) : IsDir(d, i) => /\ Len(SlotsOf(d, i)) >= 2
                                           /\ SlotsOf(d, i)[1].name = "."
                                           /\ SlotsOf(d, i)[2].name = ".."

\* The second entry of a directory that is named is where it is named, or deleted.
DotsFit(d) ==
    \A i \in Initialised(d) : \A k \in ChildrenOf(d, i) :
        IsDir(d, SlotsOf(d, i)[k].id) => SlotsOf(d, SlotsOf(d, i)[k].id)[2].id \in {i, NoId}

IsTree(d) == NamedOnce(d) /\ HasDots(d) /\ DotsFit(d)

\* No entry apart from "." and ".." names inode f.
Unnamed(d, f) ==
    \A i \in Initialised(d) : \A k \in ChildrenOf(d, i) : SlotsOf(d, i)[k].id # f

LEMMA ChildWritten ==
    ASSUME NEW d \in Disk, DiskInv(d), NEW i \in Initialised(d), NEW k \in ChildrenOf(d, i)
    PROVE  SlotsOf(d, i)[k].id \in Initialised(d)
BY InitialisedFields DEF DiskInv, EntriesWritten, ChildrenOf, SlotsOf

LEMMA CreateFileTree ==
    ASSUME NEW d \in Disk, DiskInv(d), IsTree(d)
    PROVE  LET c == CreateFile(d)
           IN  IsTree(c.disk) /\ (c.id # NoId => Unnamed(c.disk, c.id) /\ ~IsDir(c.disk, c.id))
<1> DEFINE c == CreateFile(d)
           e == c.disk
<1>1. /\ \A j \in Initialised(d) : /\ e.node[j] = d.node[j]
                                   /\ e.data[d.node[j].addr_0] = d.data[d.node[j].addr_0]
      /\ \A j \in Initialised(e) : \/ j \in Initialised(d)
                                   \/ /\ j = c.id
                                      /\ j \notin Initialised(d)
                                      /\ e.node[j].type = RegularFile
                                      /\ e.data[e.node[j].addr_0].slots = <<>>
  BY CreateFileWrites
<1>2. c.id # NoId => c.id \in Initialised(e) /\ \A j \in Initialised(d) : c.id > j
  BY CreateFileInv
<1>3. Initialised(d) \subseteq Initialised(e)
  BY CreateFileInv
<1> HIDE DEF c
<1>4. ASSUME NEW i \in Initialised(e), NEW k \in ChildrenOf(e, i)
      PROVE  /\ i \in Initialised(d)
             /\ k \in ChildrenOf(d, i)
             /\ SlotsOf(e, i)[k].id = SlotsOf(d, i)[k].id
             /\ SlotsOf(d, i)[k].id \in Initialised(d)
  <2>1. i \in Initialised(d)
    <3>1. k \in DOMAIN e.data[e.node[i].addr_0].slots
      BY <1>4 DEF ChildrenOf, Live
    <3>2. e.data[e.node[i].addr_0].slots # <<>>
      BY <3>1, EmptySeq
    <3> QED
      BY <1>1, <3>2
  <2>2. k \in ChildrenOf(d, i) /\ SlotsOf(e, i)[k].id = SlotsOf(d, i)[k].id
    BY <1>1, <1>4, <2>1 DEF ChildrenOf, SlotsOf
  <2> QED
    BY <2>1, <2>2, ChildWritten
<1>5. NamedOnce(e)
  BY <1>4 DEF IsTree, NamedOnce
<1>6. HasDots(e)
  <2>1. ASSUME NEW j \in Initialised(e), IsDir(e, j)
        PROVE  j \in Initialised(d) /\ IsDir(d, j) /\ SlotsOf(e, j) = SlotsOf(d, j)
    BY <1>1, <2>1 DEF IsDir, SlotsOf
  <2> QED
    BY <2>1 DEF IsTree, HasDots
<1>7. DotsFit(e)
  <2>1. \A j \in Initialised(d) : SlotsOf(e, j) = SlotsOf(d, j) /\ (IsDir(e, j) <=> IsDir(d, j))
    BY <1>1 DEF SlotsOf, IsDir
  <2> QED
    BY <1>4, <2>1 DEF IsTree, DotsFit
<1>8. ASSUME c.id # NoId PROVE Unnamed(e, c.id) /\ ~IsDir(e, c.id)
  <2>1. c.id \notin Initialised(d)
    <3>1. \A j \in Initialised(d) : j \in Int
      BY InitialisedFields DEF Inodes
    <3> QED
      BY <1>2, <1>8, <3>1
  <2> QED
    BY <1>1, <1>2, <1>4, <1>8, <2>1 DEF Unnamed, IsDir
<1> QED
  BY <1>5, <1>6, <1>7, <1>8 DEF IsTree, c

\* An entry for a file, or for a directory whose ".." is where it is entered.
LEMMA AddEntryTree ==
    ASSUME NEW d \in Disk, DiskInv(d), IsTree(d), NEW n \in Name, NEW dir \in Initialised(d),
           NEW f \in Ids,
           f # NoId => /\ f \in Initialised(d)
                       /\ Unnamed(d, f)
                       /\ IsDir(d, f) => SlotsOf(d, f)[2].id = dir
    PROVE  IsTree(AddEntry(d, f, n, dir))
<1> DEFINE e == AddEntry(d, f, n, dir)
           b == d.node[dir].addr_0
           en == [id |-> f, name |-> n]
<1>1. /\ e.node = d.node
      /\ \A x \in Blocks : x # b => e.data[x] = d.data[x]
      /\ e.data[b].slots = Append(d.data[b].slots, en)
  BY AddEntryFields
<1>2. en \in Entry /\ en.id = f
  BY DEF Entry
<1>3. b \in Blocks /\ d.data[b] \in Content /\ d.data[b].slots \in Seq(Entry)
  BY InitialisedFields, DiskFields
<1> HIDE DEF e, b, en
<1>4. Initialised(e) = Initialised(d)
  BY <1>1 DEF Initialised
<1>5. ASSUME NEW i \in Initialised(d), i # dir PROVE e.data[d.node[i].addr_0] = d.data[d.node[i].addr_0]
  BY <1>1, <1>5, InitialisedFields DEF b, DiskInv, BlocksDistinct
<1>6. ASSUME NEW i \in Initialised(d), NEW k \in ChildrenOf(e, i)
      PROVE  \/ k \in ChildrenOf(d, i) /\ SlotsOf(e, i)[k].id = SlotsOf(d, i)[k].id
             \/ /\ i = dir
                /\ k = Len(SlotsOf(d, dir)) + 1
                /\ SlotsOf(e, i)[k].id = f
                /\ f # NoId
  <2>1. CASE i # dir
    BY <1>1, <1>5, <1>6, <2>1 DEF ChildrenOf, SlotsOf
  <2>2. CASE i = dir
    <3>1. k \in Live(e.data[b]) /\ k > 2
      BY <1>1, <1>6, <2>2 DEF ChildrenOf, b
    <3>2. CASE k \in Live(d.data[b]) /\ e.data[b].slots[k] = d.data[b].slots[k]
      BY <1>1, <2>2, <3>1, <3>2 DEF ChildrenOf, SlotsOf, b
    <3>3. CASE k = Len(d.data[b].slots) + 1 /\ e.data[b].slots[k] = en
      <4>1. f # NoId
        BY <1>2, <3>1, <3>3 DEF Live
      <4> QED
        BY <1>1, <1>2, <2>2, <3>3, <4>1 DEF SlotsOf, b
    <3> QED
      <4>1. \A l \in Live(e.data[b]) :
               \/ l \in Live(d.data[b]) /\ e.data[b].slots[l] = d.data[b].slots[l]
               \/ l = Len(d.data[b].slots) + 1 /\ e.data[b].slots[l] = en
        BY <1>1, <1>2, <1>3, AppendLive
      <4> QED
        BY <3>1, <3>2, <3>3, <4>1
  <2> QED
    BY <2>1, <2>2
<1>7. ASSUME NEW i \in Initialised(d), NEW k \in 1 .. Len(SlotsOf(d, i))
      PROVE  /\ SlotsOf(e, i)[k] = SlotsOf(d, i)[k]
             /\ Len(SlotsOf(e, i)) >= Len(SlotsOf(d, i))
  <2>1. SlotsOf(d, i) \in Seq(Entry) /\ Len(SlotsOf(d, i)) \in Nat
    BY InitialisedFields, DiskFields, LenProperties DEF SlotsOf
  <2>2. CASE i # dir
    <3>1. SlotsOf(e, i) = SlotsOf(d, i)
      BY <1>1, <1>5, <2>2 DEF SlotsOf
    <3> QED
      BY <2>1, <3>1
  <2>3. CASE i = dir
    <3>1. SlotsOf(e, i) = Append(SlotsOf(d, i), en)
      BY <1>1, <2>3 DEF SlotsOf, b
    <3> QED
      BY <1>2, <1>7, <2>1, <3>1, AppendProperties
  <2> QED
    BY <2>2, <2>3
<1>8. NamedOnce(e)
  BY <1>4, <1>6 DEF NamedOnce, IsTree, Unnamed
<1>9. HasDots(e)
  <2> SUFFICES ASSUME NEW i \in Initialised(d), IsDir(d, i)
               PROVE  /\ Len(SlotsOf(e, i)) >= 2
                      /\ SlotsOf(e, i)[1].name = "."
                      /\ SlotsOf(e, i)[2].name = ".."
    BY <1>1, <1>4 DEF HasDots, IsDir
  <2>1. /\ Len(SlotsOf(d, i)) \in Nat
        /\ Len(SlotsOf(d, i)) >= 2
        /\ SlotsOf(d, i)[1].name = "."
        /\ SlotsOf(d, i)[2].name = ".."
    BY InitialisedFields, DiskFields, LenProperties DEF IsTree, HasDots, SlotsOf
  <2>2. Len(SlotsOf(e, i)) >= Len(SlotsOf(d, i))
    BY <1>7, <2>1
  <2>3. SlotsOf(e, i) = SlotsOf(d, i) \/ Len(SlotsOf(e, i)) = Len(SlotsOf(d, i)) + 1
    BY <1>1, <1>5, AddEntryLength, SMTT(40) DEF SlotsOf, e
  <2>4. SlotsOf(e, i)[1] = SlotsOf(d, i)[1] /\ SlotsOf(e, i)[2] = SlotsOf(d, i)[2]
    BY <1>7, <2>1
  <2> QED
    BY <2>1, <2>3, <2>4
<1>10. DotsFit(e)
  <2> SUFFICES ASSUME NEW i \in Initialised(d), NEW k \in ChildrenOf(e, i),
                      IsDir(d, SlotsOf(e, i)[k].id)
               PROVE  SlotsOf(e, SlotsOf(e, i)[k].id)[2].id \in {i, NoId}
    BY <1>1, <1>4 DEF DotsFit, IsDir
  <2>1. ASSUME NEW j \in Initialised(d), IsDir(d, j) PROVE SlotsOf(e, j)[2] = SlotsOf(d, j)[2]
    <3>1. Len(SlotsOf(d, j)) \in Nat /\ Len(SlotsOf(d, j)) >= 2
      BY <2>1, InitialisedFields, DiskFields, LenProperties DEF IsTree, HasDots, SlotsOf
    <3> QED
      BY <1>7, <3>1
  <2>2. CASE k \in ChildrenOf(d, i) /\ SlotsOf(e, i)[k].id = SlotsOf(d, i)[k].id
    BY <2>1, <2>2, ChildWritten DEF IsTree, DotsFit
  <2>3. CASE i = dir /\ SlotsOf(e, i)[k].id = f /\ f # NoId
    BY <2>1, <2>3
  <2> QED
    BY <1>6, <2>2, <2>3
<1> QED
  BY <1>8, <1>9, <1>10 DEF IsTree, e

\* A directory that newDir has made has two entries, ".." the second of them.
LEMMA NewDirWrites ==
    ASSUME NEW d \in Disk, DiskInv(d), NEW i \in Initialised(d), NEW parent \in Initialised(d),
           SlotsOf(d, i) = <<>>
    PROVE  LET e == NewDir(d, i, parent)
           IN  /\ \A j \in Initialised(d) : e.node[j].addr_0 = d.node[j].addr_0
               /\ \A j \in Initialised(d) : j # i =>
                     e.node[j] = d.node[j] /\ SlotsOf(e, j) = SlotsOf(d, j)
               /\ SlotsOf(e, i) \in Seq(Entry)
               /\ Len(SlotsOf(e, i)) = 2
               /\ SlotsOf(e, i)[1].id = i /\ SlotsOf(e, i)[2].id = parent
               /\ SlotsOf(e, i)[1].name = "." /\ SlotsOf(e, i)[2].name = ".."
<1> DEFINE d1 == MakeDirectory(d, i, 0)
           d2 == AddEntry(d1, i, ".", i)
           e == AddEntry(d2, parent, "..", i)
           b == d.node[i].addr_0
           first == [id |-> i, name |-> "."]
           second == [id |-> parent, name |-> ".."]
<1>1. "." \in Name /\ ".." \in Name
  BY DEF Name
<1>2. i \in Ids /\ parent \in Ids /\ b \in Blocks
  BY InitialisedFields
<1>3. d1 \in Disk
  BY <1>2, MakeDirectoryType
<1>4. /\ \A j \in Ids : d1.node[j].addr_0 = d.node[j].addr_0
      /\ \A x \in Blocks : d1.data[x].slots = d.data[x].slots
  BY MakeDirectoryFields
<1>5. \A j \in Ids : j # i => d1.node[j] = d.node[j]
  BY <1>2, DiskFields DEF MakeDirectory, WriteContent, WriteInode
<1> HIDE DEF d1
<1>6. Initialised(d1) = Initialised(d)
  BY <1>4 DEF Initialised, Ids
<1>7. d1.node[i].addr_0 = b /\ d1.data[b].slots = <<>>
  BY <1>2, <1>4 DEF SlotsOf
<1>8. d2 \in Disk
  BY <1>1, <1>2, <1>3, AddEntryType
<1>9. /\ d2.node = d1.node
      /\ \A x \in Blocks : x # b => d2.data[x] = d1.data[x]
      /\ d2.data[b].slots = Append(<<>>, first)
  <2> DEFINE x1 == d1.node[i].addr_0
  <2>1. i \in Initialised(d1)
    BY <1>6
  <2>2. /\ d2.node = d1.node
        /\ \A x \in Blocks : x # x1 => d2.data[x] = d1.data[x]
        /\ d2.data[x1].slots = Append(d1.data[x1].slots, first)
    BY <1>1, <1>2, <1>3, <2>1, AddEntryFields, ZenonT(60)
  <2> HIDE DEF d2, first, b
  <2> QED
    BY <1>7, <2>2
<1> HIDE DEF d2
<1>10. Initialised(d2) = Initialised(d) /\ d2.node[i].addr_0 = b
  BY <1>6, <1>7, <1>9 DEF Initialised
<1>11. /\ e.node = d2.node
       /\ \A x \in Blocks : x # b => e.data[x] = d2.data[x]
       /\ e.data[b].slots = Append(Append(<<>>, first), second)
  <2> DEFINE x2 == d2.node[i].addr_0
  <2>1. i \in Initialised(d2)
    BY <1>10
  <2>2. /\ e.node = d2.node
        /\ \A x \in Blocks : x # x2 => e.data[x] = d2.data[x]
        /\ e.data[x2].slots = Append(d2.data[x2].slots, second)
    BY <1>1, <1>2, <1>8, <2>1, AddEntryFields, ZenonT(60)
  <2> HIDE DEF e, first, second, b
  <2> QED
    BY <1>9, <1>10, <2>2
<1>12. /\ first \in Entry /\ second \in Entry
       /\ first.id = i /\ second.id = parent
       /\ first.name = "." /\ second.name = ".."
  BY <1>1, <1>2 DEF Entry
<1> HIDE DEF e, first, second
<1>13. /\ \A j \in Initialised(d) : e.node[j].addr_0 = d.node[j].addr_0
       /\ \A j \in Initialised(d) : j # i => e.node[j] = d.node[j]
  BY <1>4, <1>5, <1>9, <1>11, InitialisedFields
<1>14. ASSUME NEW j \in Initialised(d), j # i PROVE SlotsOf(e, j) = SlotsOf(d, j)
  <2>1. d.node[j].addr_0 \in Blocks /\ d.node[j].addr_0 # b
    BY <1>14, InitialisedFields DEF DiskInv, BlocksDistinct
  <2> QED
    <3> DEFINE x == d.node[j].addr_0
    <3>1. e.node[j].addr_0 = x
      BY <1>13
    <3>2. e.data[x] = d2.data[x] /\ d2.data[x] = d1.data[x] /\ d1.data[x].slots = d.data[x].slots
      BY <1>4, <1>9, <1>11, <2>1
    <3> QED
      BY <3>1, <3>2 DEF SlotsOf
<1>15. SlotsOf(e, i) = Append(Append(<<>>, first), second)
  BY <1>11, <1>13 DEF SlotsOf
<1>16. /\ Append(<<>>, first) \in Seq(Entry)
       /\ Len(Append(<<>>, first)) = 1
  BY <1>12, EmptySeq, AppendProperties
<1>17. /\ SlotsOf(e, i) \in Seq(Entry)
       /\ Len(SlotsOf(e, i)) = 2
       /\ SlotsOf(e, i)[1] = first
       /\ SlotsOf(e, i)[2] = second
  BY <1>12, <1>15, <1>16, AppendProperties
<1>18. NewDir(d, i, parent) = e
  BY DEF NewDir, d1, d2, e
<1> QED
  BY <1>12, <1>13, <1>14, <1>17, <1>18

LEMMA NewDirTree ==
    ASSUME NEW d \in Disk, DiskInv(d), IsTree(d), NEW i \in Initialised(d),
           NEW parent \in Initialised(d), SlotsOf(d, i) = <<>>, Unnamed(d, i)
    PROVE  /\ IsTree(NewDir(d, i, parent))
           /\ Unnamed(NewDir(d, i, parent), i)
           /\ SlotsOf(NewDir(d, i, parent), i)[2].id = parent
<1> DEFINE e == NewDir(d, i, parent)
<1>1. /\ \A j \in Initialised(d) : e.node[j].addr_0 = d.node[j].addr_0
      /\ \A j \in Initialised(d) : j # i =>
            e.node[j] = d.node[j] /\ SlotsOf(e, j) = SlotsOf(d, j)
      /\ SlotsOf(e, i) \in Seq(Entry)
      /\ Len(SlotsOf(e, i)) = 2
      /\ SlotsOf(e, i)[2].id = parent
      /\ SlotsOf(e, i)[1].name = "." /\ SlotsOf(e, i)[2].name = ".."
  BY NewDirWrites
<1>2. Initialised(e) = Initialised(d)
  BY NewDirInv DEF SlotsOf
<1> HIDE DEF e
<1>3. ASSUME NEW j \in Initialised(d), NEW k \in ChildrenOf(e, j)
      PROVE  /\ j # i
             /\ k \in ChildrenOf(d, j)
             /\ SlotsOf(e, j)[k].id = SlotsOf(d, j)[k].id
             /\ SlotsOf(d, j)[k].id \in Initialised(d)
             /\ SlotsOf(d, j)[k].id # i
  <2>1. k \in DOMAIN SlotsOf(e, j) /\ k > 2 /\ SlotsOf(e, j)[k].id # NoId
    BY DEF ChildrenOf, Live, SlotsOf
  <2>2. j # i
    BY <1>1, <2>1, LenProperties
  <2>3. SlotsOf(e, j) = SlotsOf(d, j)
    BY <1>1, <2>2
  <2>4. k \in ChildrenOf(d, j)
    BY <2>1, <2>3 DEF ChildrenOf, Live, SlotsOf
  <2> QED
    BY <2>2, <2>3, <2>4, ChildWritten DEF Unnamed
<1>4. NamedOnce(e)
  BY <1>2, <1>3 DEF NamedOnce, IsTree
<1>5. HasDots(e)
  <2> SUFFICES ASSUME NEW j \in Initialised(d), IsDir(e, j)
               PROVE  /\ Len(SlotsOf(e, j)) >= 2
                      /\ SlotsOf(e, j)[1].name = "."
                      /\ SlotsOf(e, j)[2].name = ".."
    BY <1>2 DEF HasDots
  <2>1. CASE j = i
    BY <1>1, <2>1, SMTT(40)
  <2>2. CASE j # i
    BY <1>1, <2>2 DEF IsTree, HasDots, IsDir
  <2> QED
    BY <2>1, <2>2
<1>6. DotsFit(e)
  <2> SUFFICES ASSUME NEW j \in Initialised(d), NEW k \in ChildrenOf(e, j),
                      IsDir(e, SlotsOf(e, j)[k].id)
               PROVE  SlotsOf(e, SlotsOf(e, j)[k].id)[2].id \in {j, NoId}
    BY <1>2 DEF DotsFit
  <2> DEFINE child == SlotsOf(d, j)[k].id
  <2>1. /\ k \in ChildrenOf(d, j)
        /\ SlotsOf(e, j)[k].id = child
        /\ child \in Initialised(d)
        /\ child # i
    BY <1>3
  <2>2. e.node[child] = d.node[child] /\ SlotsOf(e, child) = SlotsOf(d, child)
    BY <1>1, <2>1
  <2>3. IsDir(d, child)
    BY <2>1, <2>2 DEF IsDir
  <2> QED
    BY <2>1, <2>2, <2>3 DEF IsTree, DotsFit
<1>7. Unnamed(e, i)
  BY <1>2, <1>3 DEF Unnamed
<1> QED
  BY <1>1, <1>4, <1>5, <1>6, <1>7 DEF IsTree, e

\* A change that deletes entries at most.
LEMMA EntriesGone ==
    ASSUME NEW d \in Disk, NEW e, DiskInv(d), IsTree(d),
           Initialised(e) = Initialised(d),
           \A i \in Initialised(d) : e.node[i] = d.node[i],
           \A i \in Initialised(d) : SlotsOf(e, i) \in Seq(Entry),
           \A i \in Initialised(d) : Len(SlotsOf(e, i)) = Len(SlotsOf(d, i)),
           \A i \in Initialised(d) : \A k \in 1 .. Len(SlotsOf(d, i)) :
               /\ SlotsOf(e, i)[k].id \in {SlotsOf(d, i)[k].id, NoId}
               /\ SlotsOf(e, i)[k].name = SlotsOf(d, i)[k].name
    PROVE  IsTree(e)
<1>1. ASSUME NEW i \in Initialised(d)
      PROVE  /\ DOMAIN SlotsOf(e, i) = 1 .. Len(SlotsOf(d, i))
             /\ DOMAIN SlotsOf(d, i) = 1 .. Len(SlotsOf(d, i))
  <2>1. SlotsOf(d, i) \in Seq(Entry)
    BY InitialisedFields, DiskFields DEF SlotsOf
  <2>2. SlotsOf(e, i) \in Seq(Entry) /\ Len(SlotsOf(e, i)) = Len(SlotsOf(d, i))
    BY <1>1
  <2> QED
    BY <2>1, <2>2, LenProperties
<1>2. ASSUME NEW i \in Initialised(d), NEW k \in ChildrenOf(e, i)
      PROVE  /\ k \in ChildrenOf(d, i)
             /\ SlotsOf(e, i)[k].id = SlotsOf(d, i)[k].id
             /\ SlotsOf(d, i)[k].id \in Initialised(d)
  <2>1. k \in DOMAIN SlotsOf(e, i) /\ k > 2 /\ SlotsOf(e, i)[k].id # NoId
    BY DEF ChildrenOf, Live, SlotsOf
  <2>2. SlotsOf(e, i)[k].id = SlotsOf(d, i)[k].id
    BY <1>1, <2>1
  <2>3. k \in ChildrenOf(d, i)
    BY <1>1, <2>1, <2>2 DEF ChildrenOf, Live, SlotsOf
  <2> QED
    BY <2>2, <2>3, ChildWritten
<1>3. NamedOnce(e)
  BY <1>2 DEF NamedOnce, IsTree
<1>4. HasDots(e)
  <2> SUFFICES ASSUME NEW i \in Initialised(d), IsDir(d, i)
               PROVE  /\ Len(SlotsOf(d, i)) >= 2
                      /\ SlotsOf(e, i)[1].name = SlotsOf(d, i)[1].name
                      /\ SlotsOf(e, i)[2].name = SlotsOf(d, i)[2].name
    BY DEF HasDots, IsTree, IsDir
  <2>1. Len(SlotsOf(d, i)) \in Nat /\ Len(SlotsOf(d, i)) >= 2
    BY InitialisedFields, DiskFields, LenProperties DEF IsTree, HasDots, SlotsOf
  <2> QED
    BY <2>1
<1>5. DotsFit(e)
  <2> SUFFICES ASSUME NEW i \in Initialised(d), NEW k \in ChildrenOf(e, i),
                      IsDir(e, SlotsOf(e, i)[k].id)
               PROVE  SlotsOf(e, SlotsOf(e, i)[k].id)[2].id \in {i, NoId}
    BY DEF DotsFit
  <2> DEFINE child == SlotsOf(d, i)[k].id
  <2>1. k \in ChildrenOf(d, i) /\ SlotsOf(e, i)[k].id = child /\ child \in Initialised(d)
    BY <1>2
  <2>2. IsDir(d, child)
    BY <2>1 DEF IsDir
  <2>3. SlotsOf(d, child)[2].id \in {i, NoId}
    BY <2>1, <2>2 DEF IsTree, DotsFit
  <2>4. 2 \in 1 .. Len(SlotsOf(d, child))
    <3>1. Len(SlotsOf(d, child)) \in Nat
      BY <2>1, InitialisedFields, DiskFields, LenProperties DEF SlotsOf
    <3> QED
      BY <2>1, <2>2, <3>1 DEF IsTree, HasDots
  <2>5. SlotsOf(e, child)[2].id \in {SlotsOf(d, child)[2].id, NoId}
    BY <2>1, <2>4
  <2> QED
    BY <2>1, <2>3, <2>5
<1> QED
  BY <1>3, <1>4, <1>5 DEF IsTree

LEMMA DeleteEntryTree ==
    ASSUME NEW d \in Disk, DiskInv(d), IsTree(d), NEW dir \in Initialised(d), NEW n,
           NEW k \in Match(d.data[d.node[dir].addr_0], n)
    PROVE  IsTree(DeleteEntry(d, dir, k))
<1> DEFINE e == DeleteEntry(d, dir, k)
           b == d.node[dir].addr_0
<1>1. /\ e.node = d.node
      /\ \A x \in Blocks : x # b => e.data[x] = d.data[x]
      /\ e.data[b].cnt = d.data[b].cnt - 1
      /\ Len(e.data[b].slots) = Len(d.data[b].slots)
      /\ \A j \in 1 .. Len(d.data[b].slots) :
            e.data[b].slots[j].id \in {d.data[b].slots[j].id, NoId}
  BY DeleteEntryFields
<1>2. e \in Disk
  BY InitialisedFields, DeleteEntryType
<1>3. Initialised(e) = Initialised(d)
  BY DeleteEntryInv
<1>4. \A j \in 1 .. Len(d.data[b].slots) : e.data[b].slots[j].name = d.data[b].slots[j].name
  BY DeleteEntryNames
<1> HIDE DEF e, b
<1>5. ASSUME NEW i \in Initialised(d)
      PROVE  /\ SlotsOf(e, i) \in Seq(Entry)
             /\ Len(SlotsOf(e, i)) = Len(SlotsOf(d, i))
             /\ \A j \in 1 .. Len(SlotsOf(d, i)) :
                   /\ SlotsOf(e, i)[j].id \in {SlotsOf(d, i)[j].id, NoId}
                   /\ SlotsOf(e, i)[j].name = SlotsOf(d, i)[j].name
  <2> DEFINE x == d.node[i].addr_0
  <2>1. x \in Blocks /\ SlotsOf(e, i) = e.data[x].slots /\ SlotsOf(d, i) = d.data[x].slots
    BY <1>1, InitialisedFields DEF SlotsOf
  <2>2. SlotsOf(e, i) \in Seq(Entry)
    BY <1>2, <2>1, DiskFields
  <2>3. CASE x = b
    BY <1>1, <1>4, <2>1, <2>2, <2>3
  <2>4. CASE x # b
    BY <1>1, <2>1, <2>2, <2>4
  <2> QED
    BY <2>3, <2>4
<1>6. IsTree(e)
  BY <1>1, <1>3, <1>5, EntriesGone
<1> QED
  BY <1>6 DEF e

LEMMA NewDirFailedTree ==
    ASSUME NEW d \in Disk, DiskInv(d), IsTree(d)
    PROVE  IsTree(NewDirFailed(d))
<1> DEFINE e == NewDirFailed(d)
<1>1. /\ e.data = d.data
      /\ \A j \in Inodes : e.node[j] = d.node[j]
  BY DiskFields DEF NewDirFailed, WriteInode, TakeBlock, Ids, Inodes
<1>2. Initialised(e) = Initialised(d)
  BY NewDirFailedInv
<1> HIDE DEF e
<1>3. ASSUME NEW i \in Initialised(d)
      PROVE  e.node[i] = d.node[i] /\ SlotsOf(e, i) = SlotsOf(d, i) /\ SlotsOf(e, i) \in Seq(Entry)
  BY <1>1, InitialisedFields, DiskFields DEF SlotsOf
<1>4. IsTree(e)
  BY <1>2, <1>3, EntriesGone
<1> QED
  BY <1>4 DEF e

LEMMA FormattedDiskTree == IsTree(ZeroDisk) /\ IsTree(FormattedDisk)
<1> DEFINE c == CreateFile(ZeroDisk)
<1>1. IsTree(ZeroDisk)
  BY ZeroDiskInv DEF IsTree, NamedOnce, HasDots, DotsFit
<1>2. c.disk \in Disk /\ c.id = Root /\ c.id # NoId
  BY ZeroDiskType, CreateFileType, CreateRoot
<1>3. /\ DiskInv(c.disk)
      /\ c.id \in Initialised(c.disk)
      /\ SlotsOf(c.disk, c.id) = <<>>
  BY <1>2, ZeroDiskType, ZeroDiskInv, CreateFileInv DEF SlotsOf
<1>4. IsTree(c.disk) /\ Unnamed(c.disk, c.id)
  BY <1>1, <1>2, ZeroDiskType, ZeroDiskInv, CreateFileTree
<1> HIDE DEF c
<1>5. IsTree(NewDir(c.disk, c.id, Root))
  BY <1>2, <1>3, <1>4, NewDirTree
<1> QED
  BY <1>1, <1>5 DEF FormattedDisk, c

LEMMA OpenNewTree ==
    ASSUME TypeOK, Inv, IsTree(disk), OpenNew
    PROVE  IsTree(disk')
<1> DEFINE c == CreateFile(disk)
<1>1. disk \in Disk /\ DiskInv(disk) /\ cwd \in Initialised(disk) /\ job.file \in Name
  BY JobType DEF TypeOK, Inv, OpenNew, Arrived, Busy
<1>2. disk' = AddEntry(c.disk, c.id, job.file, cwd)
  BY DEF OpenNew
<1>3. c.id \in Ids /\ c.disk \in Disk
  BY <1>1, CreateFileType
<1>4. /\ DiskInv(c.disk)
      /\ cwd \in Initialised(c.disk)
      /\ c.id # NoId => c.id \in Initialised(c.disk)
  BY <1>1, CreateFileInv
<1>5. IsTree(c.disk) /\ (c.id # NoId => Unnamed(c.disk, c.id) /\ ~IsDir(c.disk, c.id))
  BY <1>1, CreateFileTree
<1> HIDE DEF c
<1> QED
  BY <1>1, <1>2, <1>3, <1>4, <1>5, AddEntryTree

LEMMA MkdirTree ==
    ASSUME TypeOK, Inv, IsTree(disk), Mkdir
    PROVE  IsTree(disk')
<1> DEFINE c == CreateFile(disk)
           d == NewDir(c.disk, c.id, cwd)
<1>1. disk \in Disk /\ DiskInv(disk) /\ cwd \in Initialised(disk) /\ job.file \in Name
  BY JobType DEF TypeOK, Inv, Mkdir, Arrived, Busy
<1>2. c.id # NoId /\ disk' = AddEntry(d, c.id, job.file, cwd)
  BY DEF Mkdir
<1>3. c.id \in Ids /\ c.disk \in Disk
  BY <1>1, CreateFileType
<1>4. /\ DiskInv(c.disk)
      /\ cwd \in Initialised(c.disk)
      /\ c.id \in Initialised(c.disk)
      /\ SlotsOf(c.disk, c.id) = <<>>
  BY <1>1, <1>2, CreateFileInv DEF SlotsOf
<1>5. IsTree(c.disk) /\ Unnamed(c.disk, c.id)
  BY <1>1, <1>2, CreateFileTree
<1> HIDE DEF c
<1>6. d \in Disk
  BY <1>3, <1>4, InitialisedFields, NewDirType
<1>7. DiskInv(d) /\ Initialised(d) = Initialised(c.disk)
  BY <1>3, <1>4, NewDirInv DEF SlotsOf
<1>8. IsTree(d) /\ Unnamed(d, c.id) /\ SlotsOf(d, c.id)[2].id = cwd
  BY <1>3, <1>4, <1>5, NewDirTree
<1> HIDE DEF d
<1> QED
  BY <1>1, <1>2, <1>3, <1>4, <1>6, <1>7, <1>8, AddEntryTree

LEMMA TreeKept == TypeOK /\ Inv /\ IsTree(disk) /\ [Next]_vars => IsTree(disk)'
<1> SUFFICES ASSUME TypeOK, Inv, IsTree(disk), [Next]_vars PROVE IsTree(disk')
  OBVIOUS
<1>1. CASE Mkfs
  BY <1>1, FormattedDiskTree DEF Mkfs
<1>2. ASSUME NEW n \in RmTarget, Rm(n) PROVE IsTree(disk')
  <2>1. PICK k \in Match(Here, n) : disk' = DeleteEntry(disk, cwd, k)
    BY <1>2, RmDisk
  <2>2. disk \in Disk /\ DiskInv(disk) /\ cwd \in Initialised(disk)
    BY <1>2 DEF TypeOK, Inv, Rm, Ready, Idle, Adrift
  <2>3. Here = disk.data[disk.node[cwd].addr_0]
    BY <2>2 DEF Here, ContentOf, Initialised
  <2> QED
    BY <2>1, <2>2, <2>3, DeleteEntryTree
<1>3. CASE OpenNew
  BY <1>3, OpenNewTree
<1>4. CASE Mkdir
  BY <1>4, MkdirTree
<1>5. CASE MkdirFailed
  <2>1. disk \in Disk /\ DiskInv(disk) /\ disk' = NewDirFailed(CreateFile(disk).disk)
    BY <1>5 DEF TypeOK, Inv, MkdirFailed
  <2>2. /\ CreateFile(disk).disk \in Disk
        /\ DiskInv(CreateFile(disk).disk)
        /\ IsTree(CreateFile(disk).disk)
    BY <2>1, CreateFileType, CreateFileInv, CreateFileTree
  <2> QED
    BY <2>1, <2>2, NewDirFailedTree
<1>6. CASE disk' = disk
  BY <1>6
<1> QED
  BY <1>1, <1>2, <1>3, <1>4, <1>5, <1>6, DiskSteps

LEMMA TreeCorrect == Spec => []IsTree(disk)
<1>1. Init => IsTree(disk)
  BY FormattedDiskTree DEF Init
<1> QED
  BY <1>1, TreeKept, TypeCorrect, InvCorrect, PTL DEF Spec

\* Apart from "." and ".." an inode has one entry: no sequence of commands makes
\* a hard link, through which a file could be removed twice.
THEOREM ParentCorrect == Spec => []OneParent
<1>1. ASSUME TypeOK, IsTree(disk) PROVE OneParent
  <2>1. ASSUME NEW i \in Directories
        PROVE  /\ i \in Initialised(disk)
               /\ Children(i) = ChildrenOf(disk, i)
               /\ \A k : ChildId(i, k) = SlotsOf(disk, i)[k].id
    <3>1. i \in Initialised(disk) /\ DirOf(i) = disk.data[disk.node[i].addr_0]
      BY <1>1, <2>1, ContentInitialised DEF Directories
    <3> QED
      BY <3>1 DEF Children, ChildId, ChildrenOf, SlotsOf
  <2> QED
    BY <1>1, <2>1 DEF OneParent, IsTree, NamedOnce
<1>2. TypeOK /\ IsTree(disk) => OneParent
  BY <1>1
<1> QED
  BY <1>2, TreeCorrect, TypeCorrect, PTL

\* `cd d` and `cd ..` come back, whatever has been removed in between: the ".."
\* of a directory that is named is where it is named, or is deleted itself.
THEOREM DotDotCorrect == Spec => []DotDotReturns
<1>1. ASSUME TypeOK, Inv, IsTree(disk) PROVE DotDotReturns
  <2> SUFFICES ASSUME NEW i \in Directories, NEW k \in Children(i), IsDirectory(ChildId(i, k))
               PROVE  DirOf(ChildId(i, k)).slots[2].id \in {i, NoId}
    BY DEF DotDotReturns
  <2>1. i \in Initialised(disk) /\ k \in Live(DirOf(i)) /\ k > 2
    BY DEF Directories, Children
  <2>2. ChildId(i, k) \in Initialised(disk)
    BY <1>1, <2>1, EntryInitialised
  <2>3. /\ DirOf(i) = disk.data[disk.node[i].addr_0]
        /\ DirOf(ChildId(i, k)).slots = SlotsOf(disk, ChildId(i, k))
    BY <1>1, <2>1, <2>2, ContentInitialised DEF SlotsOf
  <2>4. k \in ChildrenOf(disk, i) /\ ChildId(i, k) = SlotsOf(disk, i)[k].id
    BY <2>1, <2>3 DEF ChildrenOf, SlotsOf, ChildId
  <2>5. IsDir(disk, ChildId(i, k))
    BY DEF IsDir, IsDirectory
  <2> QED
    BY <1>1, <2>1, <2>3, <2>4, <2>5 DEF IsTree, DotsFit
<1> QED
  BY <1>1, TreeCorrect, TypeCorrect, InvCorrect, PTL

-----------------------------------------------------------------------------
(* What the loader shows of a directory *)

UpTo(c, k) == {j \in Live(c) : j <= k}

LEMMA LiveFinite ==
    ASSUME NEW c \in Content
    PROVE  /\ Live(c) \subseteq Nat
           /\ IsFiniteSet(Live(c))
           /\ Cardinality(Live(c)) \in Nat
           /\ \A k \in Nat : /\ IsFiniteSet(UpTo(c, k))
                             /\ Cardinality(UpTo(c, k)) \in Nat
           /\ \A k \in Live(c) : k \in Visible(c) <=> Cardinality(UpTo(c, k)) <= c.cnt
<1>1. c.slots \in Seq(Entry)
  BY DEF Content
<1>2. Live(c) \subseteq 1 .. Len(c.slots) /\ Len(c.slots) \in Nat
  BY <1>1, LenProperties DEF Live
<1>3. IsFiniteSet(Live(c))
  <2>1. IsFiniteSet(1 .. Len(c.slots))
    BY <1>2, FS_Interval
  <2> QED
    BY <1>2, <2>1, FS_Subset
<1>4. ASSUME NEW k \in Nat PROVE IsFiniteSet(UpTo(c, k)) /\ Cardinality(UpTo(c, k)) \in Nat
  BY <1>3, FS_Subset, FS_CardinalityType DEF UpTo
<1>5. \A k \in Live(c) : k \in Visible(c) <=> Cardinality(UpTo(c, k)) <= c.cnt
  BY DEF Visible, UpTo
<1> QED
  BY <1>2, <1>3, <1>4, <1>5, FS_CardinalityType

\* What can be seen is seen from the front: in front of a visible entry every
\* live one is visible.
LEMMA VisibleFromFront ==
    ASSUME NEW c \in Content, NEW k \in Visible(c), NEW j \in Live(c), j <= k
    PROVE  j \in Visible(c)
<1>1. k \in Live(c) /\ k \in Nat /\ j \in Nat /\ c.cnt \in Nat
  BY LiveFinite DEF Visible, Content
<1>2. UpTo(c, j) \subseteq UpTo(c, k)
  BY <1>1, LiveFinite DEF UpTo
<1>3. Cardinality(UpTo(c, j)) <= Cardinality(UpTo(c, k))
  BY <1>1, <1>2, LiveFinite, FS_Subset
<1>4. /\ Cardinality(UpTo(c, j)) \in Nat /\ Cardinality(UpTo(c, k)) \in Nat
      /\ Cardinality(UpTo(c, k)) <= c.cnt
  BY <1>1, LiveFinite
<1>5. Cardinality(UpTo(c, j)) <= c.cnt
  BY <1>1, <1>3, <1>4
<1> QED
  BY <1>5, LiveFinite

\* Content e shows what content c shows, in front of whatever else it shows.
Shows(c, e) ==
    \A k \in Visible(c) : /\ k \in Visible(e)
                          /\ e.slots[k] = c.slots[k]
                          /\ \A j \in Visible(e) : j <= k => j \in Visible(c)

LEMMA ShowsItself == \A c : Shows(c, c)
BY DEF Shows

LEMMA ShowsOn ==
    ASSUME NEW c, NEW d, NEW e, Shows(c, d), Shows(d, e)
    PROVE  Shows(c, e)
BY DEF Shows

\* The table of c is part of the table of e.
LEMMA ShowsNames ==
    ASSUME NEW c \in Content, NEW e \in Content, Shows(c, e), NEW n \in DOMAIN TableOf(c)
    PROVE  n \in DOMAIN TableOf(e) /\ TableOf(e)[n] = TableOf(c)[n]
<1> DEFINE k == Min(Named(c, n))
           l == Min(Named(e, n))
<1>1. Named(c, n) \subseteq Nat /\ Named(e, n) \subseteq Nat
  BY LiveFinite DEF Named, Visible
<1>2. k \in Named(c, n) /\ \A j \in Named(c, n) : k <= j
  <2>1. Named(c, n) # {}
    BY DEF TableOf, Named
  <2> QED
    BY <1>1, <2>1, MinIsSmallest
<1> HIDE DEF k
<1>3. k \in Named(e, n) /\ e.slots[k] = c.slots[k]
  BY <1>2 DEF Named, Shows
<1>4. l \in Named(e, n) /\ l <= k
  BY <1>1, <1>3, MinIsSmallest
<1> HIDE DEF l
<1>5. l \in Named(c, n)
  BY <1>2, <1>4 DEF Named, Shows
<1>6. l = k
  BY <1>1, <1>2, <1>4, <1>5
<1>7. TableOf(c)[n] = c.slots[k].id
  BY DEF TableOf, k
<1>8. n \in DOMAIN TableOf(e)
  BY <1>3 DEF TableOf, Named
<1>9. TableOf(e)[n] = e.slots[l].id
  BY <1>8 DEF TableOf, l
<1> QED
  BY <1>3, <1>6, <1>7, <1>8, <1>9

\* A directory that has grown at its end, and is not counted down.
LEMMA GrownShows ==
    ASSUME NEW c \in Content, NEW e \in Content, c.cnt <= e.cnt,
           Live(c) \subseteq Live(e),
           \A k \in Live(e) : k <= Len(c.slots) => k \in Live(c),
           \A k \in Live(c) : e.slots[k] = c.slots[k]
    PROVE  Shows(c, e)
<1>1. c.cnt \in Nat /\ e.cnt \in Nat /\ Len(c.slots) \in Nat /\ Live(c) \subseteq 1 .. Len(c.slots)
  BY LenProperties DEF Content, Live
<1>2. ASSUME NEW k \in Live(c) PROVE UpTo(e, k) = UpTo(c, k)
  <2>1. \A j \in Live(e) : j \in Nat
    BY LiveFinite
  <2> QED
    BY <1>1, <2>1 DEF UpTo
<1>3. ASSUME NEW k \in Live(c), k \in Visible(c) PROVE k \in Visible(e)
  <2>1. k \in Nat /\ Cardinality(UpTo(c, k)) \in Nat /\ Cardinality(UpTo(c, k)) <= c.cnt
    BY <1>3, LiveFinite
  <2>2. Cardinality(UpTo(e, k)) <= e.cnt
    BY <1>1, <1>2, <2>1
  <2> QED
    BY <2>2, LiveFinite
<1>4. ASSUME NEW k \in Visible(c), NEW j \in Visible(e), j <= k PROVE j \in Visible(c)
  <2>1. k \in Live(c) /\ j \in Live(e) /\ j \in Nat
    BY LiveFinite DEF Visible
  <2>2. j \in Live(c)
    BY <1>1, <1>4, <2>1
  <2> QED
    BY <1>4, <2>2, VisibleFromFront
<1> QED
  BY <1>3, <1>4 DEF Shows, Visible

\* One entry more, and the counter has gone up or is as it was.
LEMMA AppendShows ==
    ASSUME NEW c \in Content, NEW e \in Content, NEW en \in Entry,
           e.slots = Append(c.slots, en), c.cnt <= e.cnt
    PROVE  /\ Shows(c, e)
           /\ Live(e) = IF en.id = NoId THEN Live(c) ELSE Live(c) \cup {Len(c.slots) + 1}
           /\ Len(c.slots) + 1 \notin Live(c)
<1>1. c.slots \in Seq(Entry) /\ Len(c.slots) \in Nat
  BY LenProperties DEF Content
<1>2. /\ Len(e.slots) = Len(c.slots) + 1
      /\ \A j \in 1 .. Len(c.slots) : e.slots[j] = c.slots[j]
      /\ e.slots[Len(c.slots) + 1] = en
      /\ e.slots \in Seq(Entry)
  BY <1>1, AppendProperties
<1>3. DOMAIN e.slots = 1 .. Len(e.slots) /\ DOMAIN c.slots = 1 .. Len(c.slots)
  BY <1>1, <1>2, LenProperties
<1>4. \A k \in 1 .. Len(c.slots) : k \in Live(e) <=> k \in Live(c)
  BY <1>1, <1>2, <1>3 DEF Live
<1>5. /\ Live(c) \subseteq 1 .. Len(c.slots)
      /\ Live(e) \subseteq 1 .. Len(c.slots) + 1
      /\ Len(c.slots) + 1 \in Live(e) <=> en.id # NoId
  BY <1>1, <1>2, <1>3 DEF Live
<1>6. Live(e) = IF en.id = NoId THEN Live(c) ELSE Live(c) \cup {Len(c.slots) + 1}
  <2>1. \A k \in 1 .. Len(c.slots) + 1 : k \in 1 .. Len(c.slots) \/ k = Len(c.slots) + 1
    BY <1>1
  <2>2. CASE en.id = NoId
    <3>1. Live(e) \subseteq Live(c)
      BY <1>4, <1>5, <2>1, <2>2
    <3>2. Live(c) \subseteq Live(e)
      BY <1>4, <1>5
    <3> QED
      BY <2>2, <3>1, <3>2
  <2>3. CASE en.id # NoId
    BY <1>4, <1>5, <2>1, <2>3
  <2> QED
    BY <2>2, <2>3
<1>7. Shows(c, e)
  <2>1. Live(c) \subseteq Live(e) /\ \A k \in Live(e) : k <= Len(c.slots) => k \in Live(c)
    BY <1>1, <1>4, <1>5
  <2>2. \A k \in Live(c) : e.slots[k] = c.slots[k]
    BY <1>2, <1>5
  <2> QED
    BY <2>1, <2>2, GrownShows
<1>8. Len(c.slots) + 1 \notin Live(c)
  BY <1>1, <1>5
<1> QED
  BY <1>6, <1>7, <1>8

\* Entry k, which the scan has reached, is deleted and counted out: nothing comes
\* into sight, and if the entry was not deleted before nothing else goes.
LEMMA DeleteShows ==
    ASSUME NEW c \in Content, NEW e \in Content, NEW k \in Scanned(c),
           e.cnt = c.cnt - 1, Live(e) = Live(c) \ {k}
    PROVE  /\ Visible(e) \subseteq Visible(c)
           /\ k \in Live(c) => Visible(e) = Visible(c) \ {k}
<1>1. c.cnt \in Nat /\ e.cnt \in Nat /\ k \in Nat /\ 1 <= k /\ k <= c.cnt
  BY LenProperties DEF Content, Scanned
<1>2. ASSUME NEW j \in Live(c), j # k
      PROVE  /\ j \in Live(e) /\ j \in Nat
             /\ Cardinality(UpTo(c, j)) \in Nat
             /\ Cardinality(UpTo(e, j)) = IF k \in UpTo(c, j) THEN Cardinality(UpTo(c, j)) - 1
                                          ELSE Cardinality(UpTo(c, j))
  <2>1. j \in Live(e) /\ j \in Nat
    BY <1>2, LiveFinite
  <2>2. UpTo(e, j) = UpTo(c, j) \ {k}
    BY DEF UpTo
  <2> QED
    BY <2>1, <2>2, LiveFinite, FS_RemoveElement
<1>3. ASSUME NEW j \in Visible(e) PROVE j \in Visible(c)
  <2>1. j \in Live(c) /\ j # k /\ j \in Live(e)
    BY DEF Visible
  <2>2. Cardinality(UpTo(e, j)) <= e.cnt
    BY <2>1, LiveFinite
  <2>3. Cardinality(UpTo(c, j)) <= c.cnt
    BY <1>1, <1>2, <2>1, <2>2
  <2> QED
    BY <2>1, <2>3, LiveFinite
<1>4. ASSUME k \in Live(c), NEW j \in Visible(c), j # k PROVE j \in Visible(e)
  <2>1. j \in Live(c) /\ j \in Nat
    BY LiveFinite DEF Visible
  <2>2. CASE k <= j
    <3>1. k \in UpTo(c, j)
      BY <1>4, <2>2 DEF UpTo
    <3>2. Cardinality(UpTo(c, j)) <= c.cnt
      BY <2>1, LiveFinite
    <3> QED
      BY <1>1, <1>2, <1>4, <2>1, <3>1, <3>2, LiveFinite
  <2>3. CASE j < k
    <3>1. UpTo(c, j) \subseteq 1 .. j
      BY <1>1, <2>1, LenProperties DEF UpTo, Live, Content
    <3>2. Cardinality(UpTo(c, j)) <= j
      <4>1. j \in Int /\ 1 \in Int /\ 1 <= j
        BY <2>1, LenProperties DEF Live, Content
      <4>2. IsFiniteSet(1 .. j) /\ Cardinality(1 .. j) = j
        BY <4>1, FS_Interval
      <4> DEFINE S == 1 .. j
      <4>3. UpTo(c, j) \in SUBSET S
        BY <3>1
      <4>4. IsFiniteSet(S) /\ Cardinality(S) = j
        BY <4>2
      <4> HIDE DEF S
      <4>5. Cardinality(UpTo(c, j)) <= Cardinality(S)
        BY <4>3, <4>4, FS_Subset
      <4> QED
        BY <4>4, <4>5
    <3>3. k \notin UpTo(c, j)
      BY <1>1, <2>1, <2>3 DEF UpTo
    <3>4. Cardinality(UpTo(e, j)) <= e.cnt
      BY <1>1, <1>2, <1>4, <2>1, <2>3, <3>2, <3>3
    <3> QED
      BY <1>2, <1>4, <2>1, <3>4, LiveFinite
  <2> QED
    BY <1>1, <2>1, <2>2, <2>3
<1>5. k \notin Visible(e)
  BY DEF Visible
<1> QED
  BY <1>3, <1>4, <1>5

-----------------------------------------------------------------------------
(* The contents that the operations write *)

LEMMA AddEntryContent ==
    ASSUME NEW d \in Disk, NEW f \in Ids, NEW n \in Name, NEW dir \in Initialised(d)
    PROVE  LET b == d.node[dir].addr_0
               c == AddEntry(d, f, n, dir).data[b]
           IN  /\ c \in Content
               /\ c.cnt = d.data[b].cnt + 1
               /\ c.slots = Append(d.data[b].slots, [id |-> f, name |-> n])
<1> DEFINE b == d.node[dir].addr_0
           c == AddEntry(d, f, n, dir).data[b]
<1>1. dir \in Ids /\ b \in Blocks
  BY InitialisedFields
<1>2. AddEntry(d, f, n, dir) \in Disk
  BY <1>1, AddEntryType
<1>3. c \in Content
  BY <1>1, <1>2, DiskFields
<1>4. c.cnt = d.data[b].cnt + 1
  BY <1>1, DiskFields DEF AddEntry, WriteContent
<1>5. c.slots = Append(d.data[b].slots, [id |-> f, name |-> n])
  BY AddEntryFields
<1> QED
  BY <1>3, <1>4, <1>5

\* What rmDirEntry makes of content c: entry k is deleted and keeps its name, and
\* is counted out.
EntryGone(c, e, k) ==
    /\ e \in Content
    /\ e.cnt = c.cnt - 1
    /\ k \in Scanned(c)
    /\ DOMAIN e.slots = DOMAIN c.slots
    /\ \A j \in DOMAIN c.slots :
          e.slots[j] = IF j = k THEN [id |-> NoId, name |-> c.slots[k].name] ELSE c.slots[j]

LEMMA DeleteEntryGone ==
    ASSUME NEW d \in Disk, NEW dir \in Initialised(d), NEW n,
           NEW k \in Match(d.data[d.node[dir].addr_0], n)
    PROVE  EntryGone(d.data[d.node[dir].addr_0],
                     DeleteEntry(d, dir, k).data[d.node[dir].addr_0], k)
<1> DEFINE b == d.node[dir].addr_0
           old == d.data[b]
           gone == [id |-> NoId, name |-> old.slots[k].name]
           c == DeleteEntry(d, dir, k).data[b]
<1>1. dir \in Ids /\ b \in Blocks
  BY InitialisedFields
<1>2. c \in Content
  <2>1. DeleteEntry(d, dir, k) \in Disk
    BY <1>1, DeleteEntryType
  <2> QED
    BY <1>1, <2>1, DiskFields
<1> DEFINE rest == [old.slots EXCEPT ![k] = gone]
           less == [cnt |-> old.cnt - 1, slots |-> rest]
<1>3. c = less
  BY DeleteEntryWrites, ZenonT(60)
<1>4. c.cnt = old.cnt - 1 /\ c.slots = rest
  <2> HIDE DEF c, rest, old
  <2> QED
    BY <1>3
<1>5. k \in Scanned(old)
  BY DEF Match
<1> HIDE DEF gone, c, b, old
<1>6. /\ DOMAIN c.slots = DOMAIN old.slots
      /\ \A j \in DOMAIN old.slots : c.slots[j] = IF j = k THEN gone ELSE old.slots[j]
  BY <1>4, <1>5
<1>7. EntryGone(old, c, k)
  BY <1>2, <1>4, <1>5, <1>6 DEF EntryGone, gone
<1> QED
  BY <1>7 DEF old, c, b

LEMMA GoneLive ==
    ASSUME NEW c, NEW e, NEW k, EntryGone(c, e, k)
    PROVE  /\ Live(e) = Live(c) \ {k}
           /\ \A j \in Live(e) : e.slots[j] = c.slots[j]
<1> DEFINE gone == [id |-> NoId, name |-> c.slots[k].name]
<1>1. gone.id = NoId
  OBVIOUS
<1>2. /\ DOMAIN e.slots = DOMAIN c.slots
      /\ \A j \in DOMAIN c.slots : e.slots[j] = IF j = k THEN gone ELSE c.slots[j]
  BY DEF EntryGone
<1> HIDE DEF gone
<1> QED
  BY <1>1, <1>2 DEF Live

\* createFile's inode and block; the block's bytes keep what a counter would be.
LEMMA WriteFileContent ==
    ASSUME NEW d \in Disk, NEW i \in Inodes, NEW b \in Blocks
    PROVE  LET e == WriteFile(d, i, b)
           IN  /\ e \in Disk
               /\ e.imap = d.imap /\ e.dmap = d.dmap
               /\ \A j \in Ids : j # i => e.node[j] = d.node[j]
               /\ e.node[i] = [type |-> RegularFile, addr_0 |-> b]
               /\ \A x \in Blocks : x # b => e.data[x] = d.data[x]
               /\ e.data[b] = [cnt |-> d.data[b].cnt, slots |-> <<>>]
<1> DEFINE node == [type |-> RegularFile, addr_0 |-> b]
           c == [cnt |-> d.data[b].cnt, slots |-> <<>>]
           e == WriteInode(d, i, node)
<1>1. node \in InodeT /\ i \in Ids /\ c \in Content
  BY DiskFields, EmptySeq DEF InodeT, Ids, Content
<1> HIDE DEF node, c
<1>2. /\ e \in Disk /\ e.imap = d.imap /\ e.dmap = d.dmap /\ e.data = d.data
      /\ e.node = [d.node EXCEPT ![i] = node]
  BY <1>1, WriteInodeType
<1> HIDE DEF e
<1> DEFINE w == WriteContent(e, b, c)
<1>3. /\ w \in Disk /\ w.imap = d.imap /\ w.dmap = d.dmap
      /\ w.node = [d.node EXCEPT ![i] = node]
      /\ w.data = [d.data EXCEPT ![b] = c]
  BY <1>1, <1>2, WriteContentType
<1> HIDE DEF w
<1>4. WriteFile(d, i, b) = w
  BY DEF WriteFile, w, e, node, c
<1>5. /\ \A j \in Ids : j # i => w.node[j] = d.node[j]
      /\ w.node[i] = node
      /\ \A x \in Blocks : x # b => w.data[x] = d.data[x]
      /\ w.data[b] = c
  BY <1>1, <1>3, DiskFields
<1> QED
  BY <1>3, <1>4, <1>5 DEF node, c

LEMMA MakeDirectoryContent ==
    ASSUME NEW d \in Disk, NEW i \in Initialised(d)
    PROVE  LET e == MakeDirectory(d, i, 0)
               b == d.node[i].addr_0
           IN  /\ e \in Disk
               /\ e.imap = d.imap /\ e.dmap = d.dmap
               /\ \A j \in Ids : j # i => e.node[j] = d.node[j]
               /\ e.node[i] = [type |-> Directory, addr_0 |-> b]
               /\ \A x \in Blocks : x # b => e.data[x] = d.data[x]
               /\ e.data[b] = [cnt |-> 0, slots |-> d.data[b].slots]
<1> DEFINE b == d.node[i].addr_0
           node == [type |-> Directory, addr_0 |-> b]
           c == [cnt |-> 0, slots |-> d.data[b].slots]
           e == WriteInode(d, i, node)
<1>1. i \in Ids /\ b \in Blocks
  BY InitialisedFields
<1>2. node \in InodeT /\ c \in Content
  BY <1>1, DiskFields DEF InodeT, Content
<1> HIDE DEF node, c, b
<1>3. /\ e \in Disk /\ e.imap = d.imap /\ e.dmap = d.dmap /\ e.data = d.data
      /\ e.node = [d.node EXCEPT ![i] = node]
  BY <1>1, <1>2, WriteInodeType
<1> HIDE DEF e
<1> DEFINE w == WriteContent(e, b, c)
<1>4. /\ w \in Disk /\ w.imap = d.imap /\ w.dmap = d.dmap
      /\ w.node = [d.node EXCEPT ![i] = node]
      /\ w.data = [d.data EXCEPT ![b] = c]
  BY <1>1, <1>2, <1>3, WriteContentType
<1> HIDE DEF w
<1>5. MakeDirectory(d, i, 0) = w
  BY DEF MakeDirectory, w, e, node, c, b
<1>6. /\ \A j \in Ids : j # i => w.node[j] = d.node[j]
      /\ w.node[i] = node
      /\ \A x \in Blocks : x # b => w.data[x] = d.data[x]
      /\ w.data[b] = c
  BY <1>1, <1>4, DiskFields
<1> QED
  BY <1>4, <1>5, <1>6 DEF node, c, b

-----------------------------------------------------------------------------
(* Names that stay *)

\* Disk e shows all that disk d shows, with every name where it leads on d.
Leads(d, e) ==
    \A i \in Initialised(d) : /\ i \in Initialised(e)
                              /\ Shows(ContentOf(d, i), ContentOf(e, i))

LEMMA LeadsItself == \A d : Leads(d, d)
BY ShowsItself DEF Leads

LEMMA LeadsOn ==
    ASSUME NEW d, NEW e, NEW f, Leads(d, e), Leads(e, f)
    PROVE  Leads(d, f)
BY ShowsOn DEF Leads

\* A write that leaves the inodes their blocks, and whose blocks show as much.
LEMMA BlocksLead ==
    ASSUME NEW d \in Disk, NEW e \in Disk,
           \A i \in Initialised(d) : /\ e.node[i].addr_0 = d.node[i].addr_0
                                     /\ Shows(d.data[d.node[i].addr_0], e.data[d.node[i].addr_0])
    PROVE  Leads(d, e)
<1>1. ASSUME NEW i \in Initialised(d)
      PROVE  /\ i \in Initialised(e)
             /\ ContentOf(d, i) = d.data[d.node[i].addr_0]
             /\ ContentOf(e, i) = e.data[d.node[i].addr_0]
  BY DEF Initialised, ContentOf
<1> QED
  BY <1>1 DEF Leads

LEMMA SameBlocksLead ==
    ASSUME NEW d \in Disk, NEW e \in Disk,
           \A i \in Initialised(d) : e.node[i].addr_0 = d.node[i].addr_0,
           \A x \in Blocks : e.data[x] = d.data[x]
    PROVE  Leads(d, e)
BY BlocksLead, ShowsItself, InitialisedFields

\* A new file has a block of its own.
LEMMA WriteFileLeads ==
    ASSUME NEW d \in Disk, NEW i \in Inodes \ Initialised(d), NEW b \in Blocks,
           \A j \in Initialised(d) : d.node[j].addr_0 # b
    PROVE  Leads(d, WriteFile(d, i, b))
<1> DEFINE e == WriteFile(d, i, b)
<1>1. /\ e \in Disk
      /\ \A j \in Ids : j # i => e.node[j] = d.node[j]
      /\ \A x \in Blocks : x # b => e.data[x] = d.data[x]
  <2>1. i \in Inodes
    OBVIOUS
  <2> HIDE DEF e
  <2>2. /\ e \in Disk
        /\ \A j \in Ids : j # i => e.node[j] = d.node[j]
    BY <2>1, WriteFileContent, ZenonT(60) DEF e
  <2>3. \A x \in Blocks : x # b => e.data[x] = d.data[x]
    BY <2>1, WriteFileContent, ZenonT(60) DEF e
  <2> QED
    BY <2>2, <2>3
<1> HIDE DEF e
<1>2. ASSUME NEW j \in Initialised(d)
      PROVE  /\ e.node[j].addr_0 = d.node[j].addr_0
             /\ e.data[d.node[j].addr_0] = d.data[d.node[j].addr_0]
  BY <1>1, InitialisedFields
<1> QED
  BY <1>1, <1>2, BlocksLead, ShowsItself DEF e

LEMMA CreateFileLeads ==
    ASSUME NEW d \in Disk, DiskInv(d)
    PROVE  Leads(d, CreateFile(d).disk)
BY CreateFileType, CreateFileWrites, BlocksLead, ShowsItself

\* The entry goes behind what is there.
LEMMA AddEntryLeads ==
    ASSUME NEW d \in Disk, NEW f \in Ids, NEW n \in Name, NEW dir \in Initialised(d)
    PROVE  Leads(d, AddEntry(d, f, n, dir))
<1> DEFINE e == AddEntry(d, f, n, dir)
           b == d.node[dir].addr_0
           en == [id |-> f, name |-> n]
<1>1. dir \in Ids /\ b \in Blocks /\ d.data[b] \in Content /\ d.data[b].cnt \in Nat
  BY InitialisedFields, DiskFields
<1>2. e \in Disk /\ e.node = d.node /\ \A x \in Blocks : x # b => e.data[x] = d.data[x]
  BY <1>1, AddEntryType, AddEntryFields
<1>3. /\ e.data[b] \in Content
      /\ e.data[b].cnt = d.data[b].cnt + 1
      /\ e.data[b].slots = Append(d.data[b].slots, en)
  BY AddEntryContent
<1>4. en \in Entry
  BY DEF Entry
<1> HIDE DEF e, b, en
<1>5. d.data[b].cnt <= e.data[b].cnt
  BY <1>1, <1>3
<1>6. Shows(d.data[b], e.data[b])
  BY <1>1, <1>3, <1>4, <1>5, AppendShows
<1>7. ASSUME NEW i \in Initialised(d)
      PROVE  Shows(d.data[d.node[i].addr_0], e.data[d.node[i].addr_0])
  BY <1>2, <1>6, InitialisedFields, ShowsItself
<1> QED
  BY <1>2, <1>7, BlocksLead DEF e

\* A file without entries shows nothing, whatever its counter is set to.
LEMMA MakeDirectoryLeads ==
    ASSUME NEW d \in Disk, DiskInv(d), NEW i \in Initialised(d),
           d.data[d.node[i].addr_0].slots = <<>>
    PROVE  Leads(d, MakeDirectory(d, i, 0))
<1> DEFINE e == MakeDirectory(d, i, 0)
           b == d.node[i].addr_0
<1>1. /\ e \in Disk
      /\ \A j \in Ids : j # i => e.node[j] = d.node[j]
      /\ e.node[i].addr_0 = b
      /\ \A x \in Blocks : x # b => e.data[x] = d.data[x]
  <2>1. e.node[i] = [type |-> Directory, addr_0 |-> b]
    BY MakeDirectoryContent
  <2> HIDE DEF b
  <2>2. e.node[i].addr_0 = b
    BY <2>1
  <2> HIDE DEF e
  <2> QED
    BY <2>2, MakeDirectoryContent DEF e, b
<1>2. Live(d.data[b]) = {}
  BY EmptySeq DEF Live
<1> HIDE DEF e
<1>3. Shows(d.data[b], e.data[b])
  BY <1>2 DEF Shows, Visible
<1>4. ASSUME NEW j \in Initialised(d)
      PROVE  /\ e.node[j].addr_0 = d.node[j].addr_0
             /\ Shows(d.data[d.node[j].addr_0], e.data[d.node[j].addr_0])
  BY <1>1, <1>3, InitialisedFields, ShowsItself
<1> QED
  BY <1>1, <1>4, BlocksLead DEF e

LEMMA NewDirLeads ==
    ASSUME NEW d \in Disk, DiskInv(d), NEW i \in Initialised(d), NEW parent \in Initialised(d),
           d.data[d.node[i].addr_0].slots = <<>>
    PROVE  Leads(d, NewDir(d, i, parent))
<1> DEFINE d1 == MakeDirectory(d, i, 0)
           d2 == AddEntry(d1, i, ".", i)
           e == AddEntry(d2, parent, "..", i)
<1>1. i \in Ids /\ parent \in Ids /\ "." \in Name /\ ".." \in Name
  BY InitialisedFields DEF Name
<1>2. d1 \in Disk /\ Leads(d, d1)
  BY MakeDirectoryContent, MakeDirectoryLeads
<1>3. NewDir(d, i, parent) = e
  BY DEF NewDir
<1> HIDE DEF d1
<1>4. i \in Initialised(d1)
  BY <1>2 DEF Leads
<1>5. d2 \in Disk /\ Leads(d1, d2)
  BY <1>1, <1>2, <1>4, AddEntryType, AddEntryLeads
<1> HIDE DEF d2
<1>6. i \in Initialised(d2)
  BY <1>4, <1>5 DEF Leads
<1>7. Leads(d2, e)
  BY <1>1, <1>5, <1>6, AddEntryLeads
<1> HIDE DEF e
<1> QED
  BY <1>2, <1>3, <1>5, <1>7, LeadsOn

LEMMA NewDirFailedLeads ==
    ASSUME NEW d \in Disk
    PROVE  Leads(d, NewDirFailed(d))
<1> DEFINE e == NewDirFailed(d)
<1>1. /\ e.data = d.data
      /\ \A j \in Inodes : e.node[j] = d.node[j]
  BY DiskFields DEF NewDirFailed, WriteInode, TakeBlock, Ids, Inodes
<1>2. e \in Disk
  BY NewDirFailedType
<1> HIDE DEF e
<1> QED
  BY <1>1, <1>2, InitialisedFields, SameBlocksLead DEF e

-----------------------------------------------------------------------------
(* The commands keep names *)

LEMMA OpenNewLeads ==
    ASSUME TypeOK, Inv, OpenNew
    PROVE  Leads(disk, disk')
<1> DEFINE c == CreateFile(disk)
<1>1. disk \in Disk /\ DiskInv(disk) /\ cwd \in Initialised(disk) /\ job.file \in Name
  BY JobType DEF TypeOK, Inv, OpenNew, Arrived, Busy
<1>2. disk' = AddEntry(c.disk, c.id, job.file, cwd)
  BY DEF OpenNew
<1>3. c.id \in Ids /\ c.disk \in Disk /\ Leads(disk, c.disk)
  BY <1>1, CreateFileType, CreateFileLeads
<1> HIDE DEF c
<1>4. cwd \in Initialised(c.disk)
  BY <1>1, <1>3 DEF Leads
<1> QED
  BY <1>1, <1>2, <1>3, <1>4, AddEntryLeads, LeadsOn

LEMMA MkdirLeads ==
    ASSUME TypeOK, Inv, Mkdir
    PROVE  Leads(disk, disk')
<1> DEFINE c == CreateFile(disk)
           d == NewDir(c.disk, c.id, cwd)
<1>1. disk \in Disk /\ DiskInv(disk) /\ cwd \in Initialised(disk) /\ job.file \in Name
  BY JobType DEF TypeOK, Inv, Mkdir, Arrived, Busy
<1>2. c.id # NoId /\ disk' = AddEntry(d, c.id, job.file, cwd)
  BY DEF Mkdir
<1>3. c.id \in Ids /\ c.disk \in Disk /\ Leads(disk, c.disk)
  BY <1>1, CreateFileType, CreateFileLeads
<1>4. /\ DiskInv(c.disk)
      /\ cwd \in Initialised(c.disk)
      /\ c.id \in Initialised(c.disk)
      /\ c.disk.data[c.disk.node[c.id].addr_0].slots = <<>>
  BY <1>1, <1>2, CreateFileInv
<1> HIDE DEF c
<1>5. d \in Disk /\ Leads(c.disk, d)
  BY <1>3, <1>4, InitialisedFields, NewDirType, NewDirLeads
<1> HIDE DEF d
<1>6. Leads(d, disk')
  BY <1>1, <1>2, <1>3, <1>4, <1>5, AddEntryLeads DEF Leads
<1> QED
  BY <1>3, <1>5, <1>6, LeadsOn

LEMMA MkdirFailedLeads ==
    ASSUME TypeOK, Inv, MkdirFailed
    PROVE  Leads(disk, disk')
<1>1. disk \in Disk /\ DiskInv(disk) /\ disk' = NewDirFailed(CreateFile(disk).disk)
  BY DEF TypeOK, Inv, MkdirFailed
<1>2. CreateFile(disk).disk \in Disk /\ Leads(disk, CreateFile(disk).disk)
  BY <1>1, CreateFileType, CreateFileLeads
<1>3. Leads(CreateFile(disk).disk, disk')
  BY <1>1, <1>2, NewDirFailedLeads
<1> QED
  BY <1>2, <1>3, LeadsOn

\* Creating, opening, walking, closing, stopping and starting take no name away
\* and turn none to another inode, whatever is created under a name that exists.
THEOREM NamesCorrect == Spec => NamesKept
<1> DEFINE Keeps == ~Mkfs /\ ~Removal =>
                       \A i \in Directories :
                           LET before == TableAt(i)
                               after  == TableAt(i)'
                           IN  \A n \in DOMAIN before : n \in DOMAIN after /\ after[n] = before[n]
<1>1. ASSUME TypeOK, TypeOK', Inv, [Next]_vars PROVE Keeps
  <2> SUFFICES ASSUME ~Mkfs, ~Removal, NEW i \in Directories, NEW n \in DOMAIN TableAt(i)
               PROVE  n \in DOMAIN TableAt(i)' /\ TableAt(i)'[n] = TableAt(i)[n]
    OBVIOUS
  <2>1. Leads(disk, disk')
    <3>1. ~ \E m \in RmTarget : Rm(m)
      BY ProcessAssumption DEF Removal
    <3>2. ASSUME disk' = disk PROVE Leads(disk, disk')
      BY <3>2, LeadsItself
    <3> QED
      BY <1>1, <3>1, <3>2, DiskSteps, OpenNewLeads, MkdirLeads, MkdirFailedLeads
  <2>2. i \in Initialised(disk) /\ disk \in Disk /\ disk' \in Disk /\ i \in Ids
    BY <1>1, InitialisedFields DEF Directories, TypeOK
  <2> DEFINE c == ContentOf(disk, i)
             e == ContentOf(disk', i)
  <2>3. c \in Content /\ e \in Content /\ Shows(c, e)
    BY <2>1, <2>2, ContentOfType DEF Leads
  <2>4. TableAt(i) = TableOf(c) /\ TableAt(i)' = TableOf(e)
    BY DEF TableAt, DirOf
  <2> HIDE DEF c, e
  <2>5. n \in DOMAIN TableOf(c)
    BY <2>4
  <2> QED
    BY <2>3, <2>4, <2>5, ShowsNames
<1> QED
  BY <1>1, TypeCorrect, InvCorrect, PTL DEF Spec, NamesKept

\* The names that are not those of the deleted entry.
LEMMA DeleteSpares ==
    ASSUME NEW c \in Content, NEW e \in Content, NEW k, Visible(e) = Visible(c) \ {k},
           \A j \in Visible(e) : e.slots[j] = c.slots[j],
           NEW m \in DOMAIN TableOf(c), m # c.slots[k].name
    PROVE  m \in DOMAIN TableOf(e) /\ TableOf(e)[m] = TableOf(c)[m]
<1>1. Named(e, m) = Named(c, m)
  BY DEF Named
<1>2. Named(c, m) # {} /\ Named(c, m) \subseteq Nat
  BY LiveFinite DEF TableOf, Named, Visible
<1> DEFINE k1 == Min(Named(c, m))
<1>3. k1 \in Named(e, m)
  BY <1>1, <1>2, MinIsSmallest
<1> HIDE DEF k1
<1>4. e.slots[k1] = c.slots[k1]
  BY <1>3 DEF Named
<1>5. m \in DOMAIN TableOf(e)
  BY <1>3 DEF TableOf, Named
<1>6. TableOf(e)[m] = e.slots[k1].id /\ TableOf(c)[m] = c.slots[k1].id
  BY <1>1, <1>5 DEF TableOf, k1
<1> QED
  BY <1>4, <1>5, <1>6

\* rmDirEntry spares the other names, when the entry it deletes is not deleted already.
LEMMA DeleteEntrySpares ==
    ASSUME NEW d \in Disk, NEW dir \in Initialised(d), NEW n,
           NEW k \in Match(d.data[d.node[dir].addr_0], n),
           k \in Live(d.data[d.node[dir].addr_0]),
           NEW m \in DOMAIN TableOf(ContentOf(d, dir)), m # n
    PROVE  LET e == DeleteEntry(d, dir, k)
           IN  /\ m \in DOMAIN TableOf(ContentOf(e, dir))
               /\ TableOf(ContentOf(e, dir))[m] = TableOf(ContentOf(d, dir))[m]
<1> DEFINE b == d.node[dir].addr_0
           c == d.data[b]
           e == DeleteEntry(d, dir, k).data[b]
<1>1. dir \in Ids /\ b \in Blocks /\ b # NoBlock /\ c \in Content
  BY InitialisedFields, DiskFields DEF Blocks
<1>2. DeleteEntry(d, dir, k).node = d.node
  BY DeleteEntryFields
<1>3. /\ e \in Content
      /\ e.cnt = c.cnt - 1
      /\ Live(e) = Live(c) \ {k}
      /\ \A j \in Live(e) : e.slots[j] = c.slots[j]
  <2>1. EntryGone(c, e, k)
    BY DeleteEntryGone
  <2> HIDE DEF e, c
  <2> QED
    BY <2>1, GoneLive DEF EntryGone
<1>4. ContentOf(d, dir) = c /\ ContentOf(DeleteEntry(d, dir, k), dir) = e
  BY <1>1, <1>2 DEF ContentOf
<1>5. k \in Scanned(c) /\ c.slots[k].name = n /\ k \in Live(c)
  BY DEF Match
<1> HIDE DEF c, e
<1>6. Visible(e) = Visible(c) \ {k}
  BY <1>1, <1>3, <1>5, DeleteShows
<1>7. \A j \in Visible(e) : e.slots[j] = c.slots[j]
  BY <1>3 DEF Visible
<1>8. m \in DOMAIN TableOf(c) /\ m # c.slots[k].name
  BY <1>4, <1>5
<1>9. m \in DOMAIN TableOf(e) /\ TableOf(e)[m] = TableOf(c)[m]
  BY <1>1, <1>3, <1>6, <1>7, <1>8, DeleteSpares
<1> QED
  BY <1>4, <1>9

\* rm takes one name from its directory, when the entry it finds is not deleted
\* already: every other name stays and leads where it did, whatever has been
\* created and removed before.
THEOREM SparesCorrect == Spec => RmSparesOthers
<1> DEFINE Spares == \A n \in Name :
                        (Rm(n) /\ \A k \in Match(Here, n) : NamedBy(k) # NoId) =>
                            \A m \in DOMAIN TableAt(cwd) \ {n} :
                                m \in DOMAIN TableAt(cwd)' /\ TableAt(cwd)'[m] = TableAt(cwd)[m]
<1>1. ASSUME TypeOK, Inv, [Next]_vars PROVE Spares
  <2> SUFFICES ASSUME NEW n \in Name, Rm(n), \A k \in Match(Here, n) : NamedBy(k) # NoId,
                      NEW m \in DOMAIN TableAt(cwd) \ {n}
               PROVE  m \in DOMAIN TableAt(cwd)' /\ TableAt(cwd)'[m] = TableAt(cwd)[m]
    OBVIOUS
  <2>1. PICK k \in Match(Here, n) : disk' = DeleteEntry(disk, cwd, k)
    BY <1>1, RmDisk
  <2>2. disk \in Disk /\ cwd \in Initialised(disk) /\ cwd' = cwd
    BY <1>1 DEF TypeOK, Inv, Rm, Ready, Idle, Adrift
  <2>3. Here = disk.data[disk.node[cwd].addr_0]
    BY <2>2 DEF Here, ContentOf, Initialised
  <2>4. /\ k \in Match(disk.data[disk.node[cwd].addr_0], n)
        /\ k \in Live(disk.data[disk.node[cwd].addr_0])
    BY <2>3 DEF Match, Scanned, NamedBy, Live
  <2> DEFINE before == TableOf(ContentOf(disk, cwd))
             after  == TableOf(ContentOf(DeleteEntry(disk, cwd, k), cwd))
  <2>5. TableAt(cwd) = before /\ TableAt(cwd)' = after
    BY <2>1, <2>2 DEF TableAt, DirOf
  <2>6. m \in DOMAIN before /\ m # n
    BY <2>5
  <2>7. m \in DOMAIN after /\ after[m] = before[m]
    BY <2>2, <2>4, <2>6, DeleteEntrySpares
  <2> HIDE DEF before, after
  <2> QED
    BY <2>5, <2>7
<1> QED
  BY <1>1, TypeCorrect, InvCorrect, PTL DEF Spec, RmSparesOthers

-----------------------------------------------------------------------------
(* Counters in step with the entries *)

\* No block's counter exceeds its live entries, and no free block has one.
InStep(d) ==
    \A b \in Blocks : /\ d.data[b].cnt <= Cardinality(Live(d.data[b]))
                      /\ d.dmap[b] = 0 => d.data[b].cnt = 0

\* A write whose blocks keep in step, and that frees no block.
LEMMA BlocksInStep ==
    ASSUME NEW d \in Disk, NEW e \in Disk, InStep(d),
           \A b \in Blocks : e.dmap[b] = 0 => d.dmap[b] = 0 /\ e.data[b].cnt = d.data[b].cnt,
           \A b \in Blocks : \/ e.data[b] = d.data[b]
                             \/ e.data[b].cnt <= Cardinality(Live(e.data[b]))
    PROVE  InStep(e)
BY DEF InStep

LEMMA NoneInStep ==
    ASSUME NEW c, c.cnt = 0, c.slots = <<>>
    PROVE  c.cnt <= Cardinality(Live(c))
<1>1. Live(c) = {}
  BY EmptySeq DEF Live
<1> QED
  BY <1>1, FS_EmptySet

LEMMA TakeBlockInStep ==
    ASSUME NEW d \in Disk, NEW e \in Disk, InStep(d), e.data = d.data, NEW b \in Blocks,
           e.dmap \in {d.dmap, [d.dmap EXCEPT ![b] = 1]}
    PROVE  InStep(e)
<1>1. \A x \in Blocks : e.dmap[x] = 0 => d.dmap[x] = 0
  BY DiskFields
<1> QED
  BY <1>1, BlocksInStep

LEMMA WriteFileInStep ==
    ASSUME NEW d \in Disk, InStep(d), NEW i \in Inodes, NEW b \in Blocks, d.data[b].cnt = 0
    PROVE  InStep(WriteFile(d, i, b))
<1> DEFINE e == WriteFile(d, i, b)
<1>1. /\ e \in Disk /\ e.dmap = d.dmap
      /\ \A x \in Blocks : x # b => e.data[x] = d.data[x]
      /\ e.data[b] = [cnt |-> d.data[b].cnt, slots |-> <<>>]
  <2> HIDE DEF e
  <2>1. e \in Disk /\ e.dmap = d.dmap
    BY WriteFileContent, ZenonT(60) DEF e
  <2>2. \A x \in Blocks : x # b => e.data[x] = d.data[x]
    BY WriteFileContent, ZenonT(60) DEF e
  <2>3. e.data[b] = [cnt |-> d.data[b].cnt, slots |-> <<>>]
    BY WriteFileContent DEF e
  <2> QED
    BY <2>1, <2>2, <2>3
<1> HIDE DEF e
<1>2. e.data[b].cnt = 0 /\ e.data[b].cnt <= Cardinality(Live(e.data[b]))
  BY <1>1, NoneInStep
<1> QED
  BY <1>1, <1>2, BlocksInStep DEF e

\* An entry that is not one of a failed createFile, and then its count.
LEMMA AppendInStep ==
    ASSUME NEW c \in Content, NEW e \in Content, NEW en \in Entry, en.id # NoId,
           e.slots = Append(c.slots, en), c.cnt <= e.cnt, e.cnt <= c.cnt + 1,
           c.cnt <= Cardinality(Live(c))
    PROVE  e.cnt <= Cardinality(Live(e))
<1>1. Live(e) = Live(c) \cup {Len(c.slots) + 1} /\ Len(c.slots) + 1 \notin Live(c)
  BY AppendShows
<1>2. Cardinality(Live(e)) = Cardinality(Live(c)) + 1
  BY <1>1, LiveFinite, FS_AddElement
<1>3. c.cnt \in Nat /\ e.cnt \in Nat /\ Cardinality(Live(c)) \in Nat
  BY LiveFinite DEF Content
<1> QED
  BY <1>2, <1>3

LEMMA AddEntryInStep ==
    ASSUME NEW d \in Disk, WrittenAllocated(d), InStep(d), NEW f \in Inodes, NEW n \in Name,
           NEW dir \in Initialised(d)
    PROVE  InStep(AddEntry(d, f, n, dir))
<1> DEFINE e == AddEntry(d, f, n, dir)
           b == d.node[dir].addr_0
           en == [id |-> f, name |-> n]
<1>1. dir \in Ids /\ b \in Blocks /\ f \in Ids /\ f # NoId /\ d.data[b] \in Content
      /\ d.data[b].cnt \in Nat
  BY InitialisedFields, DiskFields DEF Ids, Inodes
<1>2. e \in Disk /\ e.dmap = d.dmap /\ \A x \in Blocks : x # b => e.data[x] = d.data[x]
  BY <1>1, AddEntryType, AddEntryFields
<1>3. /\ e.data[b] \in Content
      /\ e.data[b].cnt = d.data[b].cnt + 1
      /\ e.data[b].slots = Append(d.data[b].slots, en)
  BY <1>1, AddEntryContent
<1>4. en \in Entry /\ en.id # NoId
  BY <1>1 DEF Entry
<1>5. d.dmap[b] = 1
  BY DEF WrittenAllocated
<1> HIDE DEF e, b, en
<1>6. e.data[b].cnt <= Cardinality(Live(e.data[b]))
  <2> DEFINE old == d.data[b]
             new == e.data[b]
  <2>1. old.cnt <= Cardinality(Live(old))
    BY <1>1 DEF InStep
  <2>2. old.cnt <= new.cnt /\ new.cnt <= old.cnt + 1
    BY <1>1, <1>3
  <2> QED
    BY <1>1, <1>3, <1>4, <2>1, <2>2, AppendInStep
<1> QED
  BY <1>2, <1>5, <1>6, BlocksInStep DEF e

LEMMA MakeDirectoryInStep ==
    ASSUME NEW d \in Disk, WrittenAllocated(d), InStep(d), NEW i \in Initialised(d),
           d.data[d.node[i].addr_0].slots = <<>>
    PROVE  InStep(MakeDirectory(d, i, 0))
<1> DEFINE e == MakeDirectory(d, i, 0)
           b == d.node[i].addr_0
<1>1. /\ e \in Disk /\ e.dmap = d.dmap
      /\ \A x \in Blocks : x # b => e.data[x] = d.data[x]
      /\ e.data[b] = [cnt |-> 0, slots |-> <<>>]
  BY MakeDirectoryContent
<1>2. d.dmap[b] = 1
  BY DEF WrittenAllocated
<1> HIDE DEF e
<1>3. e.data[b].cnt <= Cardinality(Live(e.data[b]))
  BY <1>1, NoneInStep
<1> QED
  BY <1>1, <1>2, <1>3, BlocksInStep DEF e

\* The bits that are set in the maps of d are set in those of e.
MapsGrow(d, e) == /\ \A i \in Inodes : d.imap[i] = 1 => e.imap[i] = 1
                  /\ \A b \in Blocks : d.dmap[b] = 1 => e.dmap[b] = 1

LEMMA NothingFree ==
    ASSUME NEW S \in SUBSET Nat, NEW map \in [S -> {0, 1}]
    PROVE  AllocBit(map) = NoId <=> \A j \in S : map[j] = 1
<1>1. Free(map) \subseteq S /\ (Free(map) = {} <=> \A j \in S : map[j] = 1)
  <2>1. Free(map) = {j \in S : map[j] = 0}
    BY DEF Free
  <2>2. \A j \in S : map[j] = 0 \/ map[j] = 1
    OBVIOUS
  <2>3. ASSUME Free(map) = {}, NEW j \in S PROVE map[j] = 1
    BY <2>1, <2>2, <2>3
  <2>4. ASSUME \A j \in S : map[j] = 1, NEW j \in Free(map) PROVE FALSE
    <3>1. j \in S /\ map[j] = 0
      BY <2>1
    <3>2. map[j] = 1
      BY <2>4, <3>1
    <3> QED
      BY <3>1, <3>2
  <2> QED
    BY <2>1, <2>3, <2>4
<1>2. CASE Free(map) = {}
  BY <1>1, <1>2 DEF AllocBit
<1>3. CASE Free(map) # {}
  <2>1. Min(Free(map)) \in S
    BY <1>1, <1>3, MinIsSmallest
  <2>2. AllocBit(map) # NoId
    BY <1>3, <2>1 DEF AllocBit
  <2> QED
    BY <1>1, <1>3, <2>2
<1> QED
  BY <1>2, <1>3

\* No command but mkfs makes room on a full disk.
LEMMA FullStays ==
    ASSUME NEW d \in Disk, NEW e \in Disk, MapsGrow(d, e), Full(d)
    PROVE  Full(e)
<1>1. Inodes \subseteq Nat /\ Blocks \subseteq Nat
  BY DiskAssumption DEF Inodes, Blocks
<1>2. /\ d.imap \in [Inodes -> {0, 1}] /\ d.dmap \in [Blocks -> {0, 1}]
      /\ e.imap \in [Inodes -> {0, 1}] /\ e.dmap \in [Blocks -> {0, 1}]
  BY DiskFields
<1>3. CASE AllocBit(d.imap) = NoId
  BY <1>1, <1>2, <1>3, NothingFree DEF Full, MapsGrow
<1>4. CASE AllocBit(d.dmap) = NoId
  BY <1>1, <1>2, <1>4, NothingFree DEF Full, MapsGrow
<1> QED
  BY <1>3, <1>4 DEF Full

LEMMA GrowsItself == \A d : MapsGrow(d, d)
BY DEF MapsGrow

LEMMA GrowsOn ==
    ASSUME NEW d, NEW e, NEW f, MapsGrow(d, e), MapsGrow(e, f)
    PROVE  MapsGrow(d, f)
BY DEF MapsGrow

\* createFile, with the block it takes still at counter 0.
LEMMA CreateFileInStep ==
    ASSUME NEW d \in Disk
    PROVE  /\ MapsGrow(d, CreateFile(d).disk)
           /\ InStep(d) => InStep(CreateFile(d).disk)
<1> DEFINE i == AllocBit(d.imap)
           b == AllocBit(d.dmap)
           d1 == TakeInode(d, i)
           d2 == TakeBlock(d1, b)
<1>1. i = NoId \/ i \in Inodes
  BY AllocatedFree
<1>2. b = NoId \/ (b \in Blocks /\ d.dmap[b] = 0)
  BY AllocatedFree
<1>3. CASE i = NoId
  BY <1>3, GrowsItself DEF CreateFile, Created
<1>4. ASSUME i # NoId
      PROVE  d1 \in Disk /\ MapsGrow(d, d1) /\ (InStep(d) => InStep(d1)) /\ d1.data = d.data
  <2>1. d1 \in Disk /\ d1.imap = [d.imap EXCEPT ![i] = 1] /\ d1.dmap = d.dmap /\ d1.data = d.data
    BY <1>1, <1>4, TakeInodeType
  <2> HIDE DEF d1
  <2> QED
    BY <1>1, <1>4, <2>1, DiskFields DEF MapsGrow, InStep
<1>5. CASE i # NoId /\ b = NoId
  <2>1. CreateFile(d).disk = d1
    BY <1>5 DEF CreateFile, Created
  <2> QED
    BY <1>4, <1>5, <2>1
<1>6. CASE i # NoId /\ b # NoId
  <2>1. CreateFile(d).disk = WriteFile(d2, i, b)
    BY <1>6 DEF CreateFile, Created
  <2> HIDE DEF d1
  <2>2. /\ d2 \in Disk /\ d2.imap = d1.imap /\ d2.dmap = [d1.dmap EXCEPT ![b] = 1]
        /\ d2.data = d.data
    BY <1>2, <1>4, <1>6, TakeBlockType
  <2> HIDE DEF d2
  <2>3. MapsGrow(d1, d2)
    BY <1>2, <1>4, <1>6, <2>2, DiskFields DEF MapsGrow
  <2>4. InStep(d) => InStep(d2) /\ d2.data[b].cnt = 0
    BY <1>2, <1>4, <1>6, <2>2, TakeBlockInStep DEF InStep
  <2> DEFINE e == WriteFile(d2, i, b)
  <2>5. e.imap = d2.imap /\ e.dmap = d2.dmap
    BY <1>1, <1>2, <1>6, <2>2, WriteFileFields
  <2>6. InStep(d) => InStep(e)
    BY <1>1, <1>2, <1>6, <2>2, <2>4, WriteFileInStep
  <2> HIDE DEF e
  <2>7. MapsGrow(d2, e)
    BY <2>5 DEF MapsGrow
  <2> QED
    BY <1>4, <1>6, <2>1, <2>3, <2>6, <2>7, GrowsOn DEF e
<1> QED
  BY <1>3, <1>5, <1>6

LEMMA NewDirInStep ==
    ASSUME NEW d \in Disk, DiskInv(d), NEW i \in Initialised(d), NEW parent \in Initialised(d),
           d.data[d.node[i].addr_0].slots = <<>>
    PROVE  /\ MapsGrow(d, NewDir(d, i, parent))
           /\ InStep(d) => InStep(NewDir(d, i, parent))
<1> DEFINE d1 == MakeDirectory(d, i, 0)
           d2 == AddEntry(d1, i, ".", i)
           e == AddEntry(d2, parent, "..", i)
<1>1. /\ i \in Inodes /\ parent \in Inodes /\ i \in Ids /\ parent \in Ids
      /\ "." \in Name /\ ".." \in Name
  BY InitialisedFields DEF Name
<1>2. /\ d1 \in Disk /\ d1.imap = d.imap /\ d1.dmap = d.dmap
      /\ \A j \in Inodes : d1.node[j].addr_0 = d.node[j].addr_0
  BY <1>1, MakeDirectoryType, MakeDirectoryFields DEF Ids
<1>3. InStep(d) => InStep(d1)
  BY MakeDirectoryInStep DEF DiskInv
<1>4. NewDir(d, i, parent) = e
  BY DEF NewDir
<1> HIDE DEF d1
<1>5. Initialised(d1) = Initialised(d) /\ WrittenAllocated(d1)
  BY <1>2, MapsKept
<1>6. /\ d2 \in Disk /\ d2.imap = d1.imap /\ d2.dmap = d1.dmap /\ d2.node = d1.node
      /\ InStep(d) => InStep(d2)
  <2>1. d2 \in Disk
    BY <1>1, <1>2, AddEntryType
  <2>2. d2.imap = d1.imap /\ d2.dmap = d1.dmap /\ d2.node = d1.node
    BY DEF AddEntry, WriteContent
  <2>3. InStep(d) => InStep(d2)
    BY <1>1, <1>2, <1>3, <1>5, AddEntryInStep
  <2> HIDE DEF d2
  <2> QED
    BY <2>1, <2>2, <2>3
<1> HIDE DEF d2
<1>7. Initialised(d2) = Initialised(d) /\ WrittenAllocated(d2)
  BY <1>5, <1>6 DEF Initialised, WrittenAllocated
<1>8. /\ e.imap = d2.imap /\ e.dmap = d2.dmap
      /\ InStep(d) => InStep(e)
  <2>1. e.imap = d2.imap /\ e.dmap = d2.dmap
    BY DEF AddEntry, WriteContent
  <2>2. InStep(d) => InStep(e)
    BY <1>1, <1>6, <1>7, AddEntryInStep
  <2> HIDE DEF e
  <2> QED
    BY <2>1, <2>2
<1> HIDE DEF e
<1> QED
  BY <1>2, <1>4, <1>6, <1>8 DEF MapsGrow

\* An entry deleted and its count; a deleted entry found again, and one count less.
LEMMA GoneInStep ==
    ASSUME NEW c \in Content, NEW e, NEW k, EntryGone(c, e, k), c.cnt <= Cardinality(Live(c))
    PROVE  e.cnt <= Cardinality(Live(e))
<1>1. Live(e) = Live(c) \ {k} /\ e.cnt = c.cnt - 1
  BY GoneLive DEF EntryGone
<1>2. c.cnt \in Nat /\ e.cnt \in Int /\ Cardinality(Live(c)) \in Nat
  BY <1>1, LiveFinite DEF Content
<1>3. Cardinality(Live(e)) \in {Cardinality(Live(c)), Cardinality(Live(c)) - 1}
  <2>1. CASE k \in Live(c)
    BY <1>1, <2>1, LiveFinite, FS_RemoveElement
  <2>2. CASE k \notin Live(c)
    <3>1. Live(e) = Live(c)
      BY <1>1, <2>2
    <3> QED
      BY <3>1
  <2> QED
    BY <2>1, <2>2
<1> QED
  BY <1>1, <1>2, <1>3

LEMMA DeleteEntryInStep ==
    ASSUME NEW d \in Disk, WrittenAllocated(d), InStep(d), NEW dir \in Initialised(d), NEW n,
           NEW k \in Match(d.data[d.node[dir].addr_0], n)
    PROVE  InStep(DeleteEntry(d, dir, k))
<1> DEFINE b == d.node[dir].addr_0
           e == DeleteEntry(d, dir, k)
<1>1. dir \in Ids /\ b \in Blocks /\ d.data[b] \in Content /\ d.dmap[b] = 1
  BY InitialisedFields DEF WrittenAllocated
<1>2. e \in Disk
  BY <1>1, DeleteEntryType
<1>3. e.dmap = d.dmap /\ \A x \in Blocks : x # b => e.data[x] = d.data[x]
  <2>1. e.dmap = d.dmap
    BY DeleteEntryWrites, ZenonT(60)
  <2>2. \A x \in Blocks : x # b => e.data[x] = d.data[x]
    BY DeleteEntryFields, ZenonT(60)
  <2> QED
    BY <2>1, <2>2
<1>4. EntryGone(d.data[b], e.data[b], k)
  BY DeleteEntryGone
<1> HIDE DEF e, b
<1>5. e.data[b].cnt <= Cardinality(Live(e.data[b]))
  BY <1>1, <1>4, GoneInStep DEF InStep
<1> QED
  BY <1>1, <1>2, <1>3, <1>5, BlocksInStep DEF e

LEMMA FormattedDiskInStep == InStep(ZeroDisk) /\ InStep(FormattedDisk)
<1> DEFINE c == CreateFile(ZeroDisk)
<1>1. InStep(ZeroDisk)
  <2>1. \A b \in Blocks : ZeroDisk.data[b].cnt = 0 /\ ZeroDisk.data[b].slots = <<>>
    BY DEF ZeroDisk, Zeros
  <2> QED
    BY <2>1, NoneInStep DEF InStep
<1>2. c.disk \in Disk /\ c.id = Root /\ c.id # NoId
  BY ZeroDiskType, CreateFileType, CreateRoot
<1>3. /\ DiskInv(c.disk)
      /\ c.id \in Initialised(c.disk)
      /\ c.disk.data[c.disk.node[c.id].addr_0].slots = <<>>
  BY <1>2, ZeroDiskType, ZeroDiskInv, CreateFileInv
<1>4. InStep(c.disk)
  BY <1>1, ZeroDiskType, CreateFileInStep
<1> HIDE DEF c
<1>5. InStep(NewDir(c.disk, c.id, Root))
  BY <1>2, <1>3, <1>4, NewDirInStep
<1> QED
  BY <1>1, <1>5 DEF FormattedDisk, c

LEMMA NewDirFailedGrows ==
    ASSUME NEW d \in Disk
    PROVE  MapsGrow(d, NewDirFailed(d))
<1> DEFINE b == AllocBit(d.dmap)
           e == NewDirFailed(d)
<1>1. e.imap = d.imap
  BY DEF NewDirFailed, WriteInode, TakeBlock
<1>2. e.dmap = IF b = NoId THEN d.dmap ELSE [d.dmap EXCEPT ![b] = 1]
  BY DEF NewDirFailed, WriteInode, TakeBlock
<1> HIDE DEF e, b
<1> QED
  BY <1>1, <1>2, DiskFields DEF MapsGrow, e

-----------------------------------------------------------------------------
(* The commands keep the counters in step *)

FullOrInStep(d) == Full(d) \/ InStep(d)

\* A file that could not be created.
LEMMA NoFileIsFull ==
    ASSUME NEW d \in Disk, CreateFile(d).id = NoId
    PROVE  Full(d)
<1> DEFINE i == AllocBit(d.imap)
           b == AllocBit(d.dmap)
<1>1. CASE i # NoId /\ b # NoId
  BY <1>1 DEF CreateFile, Created
<1> QED
  BY <1>1 DEF Full

LEMMA OpenNewInStep ==
    ASSUME TypeOK, Inv, FullOrInStep(disk), OpenNew
    PROVE  FullOrInStep(disk')
<1> DEFINE c == CreateFile(disk)
           e == AddEntry(c.disk, c.id, job.file, cwd)
<1>1. disk \in Disk /\ DiskInv(disk) /\ cwd \in Initialised(disk) /\ job.file \in Name
  BY JobType DEF TypeOK, Inv, OpenNew, Arrived, Busy
<1>2. disk' = e
  BY DEF OpenNew
<1>3. /\ c.id \in Ids /\ c.disk \in Disk /\ WrittenAllocated(c.disk)
      /\ cwd \in Initialised(c.disk) /\ cwd \in Ids
  BY <1>1, CreateFileType, CreateFileInv, InitialisedFields DEF DiskInv
<1>4. MapsGrow(disk, c.disk) /\ (InStep(disk) => InStep(c.disk)) /\ (c.id = NoId => Full(disk))
  BY <1>1, CreateFileInStep, NoFileIsFull
<1> HIDE DEF c
<1>5. e \in Disk /\ e.imap = c.disk.imap /\ e.dmap = c.disk.dmap
  <2>1. e \in Disk
    BY <1>1, <1>3, AddEntryType
  <2>2. e.imap = c.disk.imap /\ e.dmap = c.disk.dmap
    BY DEF AddEntry, WriteContent
  <2> QED
    BY <2>1, <2>2
<1>6. CASE Full(disk)
  <2>1. MapsGrow(disk, e)
    BY <1>4, <1>5 DEF MapsGrow
  <2> QED
    BY <1>1, <1>2, <1>5, <1>6, <2>1, FullStays DEF FullOrInStep
<1>7. CASE ~Full(disk)
  <2>1. InStep(c.disk) /\ c.id \in Inodes
    BY <1>3, <1>4, <1>7 DEF FullOrInStep, Ids
  <2> QED
    BY <1>1, <1>2, <1>3, <2>1, AddEntryInStep DEF FullOrInStep
<1> QED
  BY <1>6, <1>7

LEMMA MkdirInStep ==
    ASSUME TypeOK, Inv, FullOrInStep(disk), Mkdir
    PROVE  FullOrInStep(disk')
<1> DEFINE c == CreateFile(disk)
           d == NewDir(c.disk, c.id, cwd)
           e == AddEntry(d, c.id, job.file, cwd)
<1>1. disk \in Disk /\ DiskInv(disk) /\ cwd \in Initialised(disk) /\ job.file \in Name
  BY JobType DEF TypeOK, Inv, Mkdir, Arrived, Busy
<1>2. c.id # NoId /\ disk' = e
  BY DEF Mkdir
<1>3. c.id \in Inodes /\ c.id \in Ids /\ c.disk \in Disk
  BY <1>1, <1>2, CreateFileType DEF Ids
<1>4. /\ DiskInv(c.disk)
      /\ cwd \in Initialised(c.disk) /\ cwd \in Ids
      /\ c.id \in Initialised(c.disk)
      /\ c.disk.data[c.disk.node[c.id].addr_0].slots = <<>>
  BY <1>1, <1>2, CreateFileInv, InitialisedFields
<1>5. MapsGrow(disk, c.disk) /\ (InStep(disk) => InStep(c.disk))
  BY <1>1, CreateFileInStep
<1> HIDE DEF c
<1>6. d \in Disk /\ DiskInv(d) /\ cwd \in Initialised(d)
  BY <1>3, <1>4, NewDirType, NewDirInv
<1>7. MapsGrow(c.disk, d) /\ (InStep(c.disk) => InStep(d))
  BY <1>3, <1>4, NewDirInStep
<1> HIDE DEF d
<1>8. e \in Disk /\ e.imap = d.imap /\ e.dmap = d.dmap
  BY <1>1, <1>3, <1>4, <1>6, AddEntryType, AddEntryFields, ZenonT(60)
<1>9. CASE Full(disk)
  <2>1. MapsGrow(disk, e)
    BY <1>5, <1>7, <1>8 DEF MapsGrow
  <2> QED
    BY <1>1, <1>2, <1>8, <1>9, <2>1, FullStays DEF FullOrInStep
<1>10. CASE ~Full(disk)
  <2>1. InStep(d) /\ WrittenAllocated(d)
    BY <1>5, <1>6, <1>7, <1>10 DEF FullOrInStep, DiskInv
  <2> QED
    BY <1>1, <1>2, <1>3, <1>6, <2>1, AddEntryInStep DEF FullOrInStep
<1> QED
  BY <1>9, <1>10

LEMMA MkdirFailedIsFull ==
    ASSUME TypeOK, Inv, MkdirFailed
    PROVE  Full(disk')
<1> DEFINE d == CreateFile(disk).disk
<1>1. disk \in Disk /\ DiskInv(disk) /\ Full(disk) /\ disk' = NewDirFailed(d)
  BY NoFileIsFull DEF TypeOK, Inv, MkdirFailed
<1>2. d \in Disk /\ MapsGrow(disk, d)
  BY <1>1, CreateFileType, CreateFileInStep
<1> HIDE DEF d
<1>3. disk' \in Disk /\ MapsGrow(d, disk')
  BY <1>1, <1>2, NewDirFailedType, NewDirFailedGrows
<1> QED
  BY <1>1, <1>2, <1>3, GrowsOn, FullStays

\* Entries leave the maps alone.
LEMMA EntryMaps ==
    ASSUME NEW d \in Disk
    PROVE  /\ \A f, n, dir : /\ AddEntry(d, f, n, dir).imap = d.imap
                            /\ AddEntry(d, f, n, dir).dmap = d.dmap
           /\ \A dir, k : /\ DeleteEntry(d, dir, k).imap = d.imap
                         /\ DeleteEntry(d, dir, k).dmap = d.dmap
<1>1. \A b, c : WriteContent(d, b, c).imap = d.imap /\ WriteContent(d, b, c).dmap = d.dmap
  BY DEF WriteContent, Disk
<1> QED
  BY <1>1 DEF AddEntry, DeleteEntry

LEMMA OpenNewGrows ==
    ASSUME TypeOK, OpenNew
    PROVE  MapsGrow(disk, disk')
<1> DEFINE c == CreateFile(disk)
<1>1. disk \in Disk /\ disk' = AddEntry(c.disk, c.id, job.file, cwd)
  BY DEF TypeOK, OpenNew
<1>2. c.disk \in Disk /\ MapsGrow(disk, c.disk)
  BY <1>1, CreateFileType, CreateFileInStep
<1> HIDE DEF c
<1>3. disk'.imap = c.disk.imap /\ disk'.dmap = c.disk.dmap
  BY <1>1, <1>2, EntryMaps
<1> QED
  BY <1>2, <1>3 DEF MapsGrow

LEMMA MkdirGrows ==
    ASSUME TypeOK, Inv, Mkdir
    PROVE  MapsGrow(disk, disk')
<1> DEFINE c == CreateFile(disk)
           d == NewDir(c.disk, c.id, cwd)
<1>1. disk \in Disk /\ DiskInv(disk) /\ cwd \in Initialised(disk)
  BY DEF TypeOK, Inv, Mkdir, Arrived, Busy
<1>2. c.id # NoId /\ disk' = AddEntry(d, c.id, job.file, cwd)
  BY DEF Mkdir
<1>3. /\ c.disk \in Disk /\ DiskInv(c.disk)
      /\ cwd \in Initialised(c.disk)
      /\ c.id \in Initialised(c.disk)
      /\ c.disk.data[c.disk.node[c.id].addr_0].slots = <<>>
  BY <1>1, <1>2, CreateFileType, CreateFileInv
<1>4. MapsGrow(disk, c.disk)
  BY <1>1, CreateFileInStep
<1> HIDE DEF c
<1>5. d \in Disk /\ MapsGrow(c.disk, d)
  BY <1>3, NewDirType, NewDirInStep, InitialisedFields
<1> HIDE DEF d
<1>6. disk'.imap = d.imap /\ disk'.dmap = d.dmap
  BY <1>2, <1>5, EntryMaps
<1> QED
  BY <1>4, <1>5, <1>6 DEF MapsGrow

\* A disk that is full stays full until it is formatted.
LEMMA NextFull ==
    ASSUME TypeOK, TypeOK', Inv, [Next]_vars, ~Mkfs, Full(disk)
    PROVE  Full(disk')
<1>1. disk \in Disk /\ disk' \in Disk
  BY DEF TypeOK
<1>2. CASE OpenNew
  BY <1>1, <1>2, OpenNewGrows, FullStays
<1>3. CASE Mkdir
  BY <1>1, <1>3, MkdirGrows, FullStays
<1>4. CASE MkdirFailed
  BY <1>4, MkdirFailedIsFull
<1>5. ASSUME NEW n \in RmTarget, Rm(n) PROVE Full(disk')
  <2>1. PICK k \in Match(Here, n) : disk' = DeleteEntry(disk, cwd, k)
    BY <1>5, RmDisk
  <2>2. disk'.imap = disk.imap /\ disk'.dmap = disk.dmap
    BY <1>1, <2>1, EntryMaps
  <2> QED
    BY <2>2 DEF Full
<1> QED
  BY <1>2, <1>3, <1>4, <1>5, DiskSteps

\* The stream is good as long as no mkdir has met a full disk, and mkfs, which
\* alone makes room again, asks for a good stream.
InStepOrBroken == Full(disk) \/ (good /\ InStep(disk))

LEMMA RmInStep ==
    ASSUME TypeOK, Inv, InStepOrBroken, NEW n, Rm(n)
    PROVE  InStepOrBroken'
<1>1. PICK k \in Match(Here, n) : disk' = DeleteEntry(disk, cwd, k)
  BY RmDisk
<1>2. disk \in Disk /\ WrittenAllocated(disk) /\ cwd \in Initialised(disk) /\ good' = good
  BY DEF TypeOK, Inv, DiskInv, Rm, Ready, Idle, Adrift
<1>3. k \in Match(disk.data[disk.node[cwd].addr_0], n)
  BY <1>2 DEF Here, ContentOf, Initialised
<1>4. CASE Full(disk)
  <2>1. disk'.imap = disk.imap /\ disk'.dmap = disk.dmap
    BY <1>1, <1>2, DeleteEntryWrites, ZenonT(60)
  <2> QED
    BY <1>4, <2>1 DEF Full, InStepOrBroken
<1>5. CASE good /\ InStep(disk)
  BY <1>1, <1>2, <1>3, <1>5, DeleteEntryInStep DEF InStepOrBroken
<1> QED
  BY <1>4, <1>5 DEF InStepOrBroken

LEMMA InStepKept == TypeOK /\ TypeOK' /\ Inv /\ InStepOrBroken /\ [Next]_vars => InStepOrBroken'
<1> SUFFICES ASSUME TypeOK, TypeOK', Inv, InStepOrBroken, [Next]_vars PROVE InStepOrBroken'
  OBVIOUS
<1>1. FullOrInStep(disk)
  BY DEF FullOrInStep, InStepOrBroken
<1>2. CASE Mkfs
  BY <1>2, FormattedDiskInStep DEF Mkfs, InStepOrBroken
<1>3. CASE OpenNew
  BY <1>1, <1>3, OpenNewInStep DEF FullOrInStep, InStepOrBroken, OpenNew
<1>4. CASE Mkdir
  BY <1>1, <1>4, MkdirInStep DEF FullOrInStep, InStepOrBroken, Mkdir
<1>5. CASE MkdirFailed
  BY <1>5, MkdirFailedIsFull DEF InStepOrBroken
<1>6. CASE \E n \in RmTarget : Rm(n)
  BY <1>6, RmInStep
<1>7. CASE UNCHANGED vars
  BY <1>7 DEF vars, InStepOrBroken
<1>8. CASE disk' = disk /\ Next /\ ~MkdirFailed
  <2>1. good' = good \/ good'
    BY <1>8 DEF Next, Start, Stop, Command, Continue, Mkfs, MkfsOnDeadStream, BeginCd,
                BeginOpen, BeginMkdir, Begin, Close, Rm, RmAborts, RmUndefined, Descend,
                GiveUp, EndCd, OpenExisting, OpenRefused, OpenNew, Mkdir, CreateOnDeadStream
  <2> QED
    BY <1>8, <2>1 DEF InStepOrBroken
<1> QED
  BY <1>2, <1>3, <1>4, <1>5, <1>6, <1>7, <1>8, DiskSteps

\* As long as an inode and a block are free every loader stays within its
\* directory: counters go up behind the entry and down with it, or alone.
THEOREM RangeCorrect == Spec => []OnlyFullBreaks
<1>1. Init => InStepOrBroken
  BY FormattedDiskInStep DEF Init, InStepOrBroken
<1>2. TypeOK /\ InStepOrBroken => OnlyFullBreaks
  BY ContentInitialised DEF InStepOrBroken, InStep, OnlyFullBreaks, Directories
<1> QED
  BY <1>1, <1>2, InStepKept, TypeCorrect, InvCorrect, PTL DEF Spec
=============================================================================
