--------------------------- MODULE VSShellsProofs ---------------------------
(***************************************************************************)
(* Proofs of properties of VSShells and VSTree, for every number of        *)
(* shells.  What is written stays what it is until the disk is formatted;  *)
(* a shell that goes on after another one has ended finds its directory on *)
(* the disk, and what its table names is still there and handed out to no  *)
(* one; it enters no second file under a name.  And tree prints every file *)
(* and every directory below the one it began in once, whatever the shape  *)
(* of the tree.                                                            *)
(***************************************************************************)
EXTENDS VSTree, VSDirectoryProofs

USE DEF NoId, NoBlock, RegularFile, Directory, Root

-----------------------------------------------------------------------------
(* What is written stays *)

\* Disk e holds what disk d holds under every inode that is written.
Extends(d, e) == \A i \in Initialised(d) : e.node[i] = d.node[i]

\* The write of a new inode changes no other.
LEMMA WriteFileNode ==
    ASSUME NEW d \in Disk, NEW i \in Inodes, NEW b \in Blocks
    PROVE  \A j \in Ids : j # i => WriteFile(d, i, b).node[j] = d.node[j]
<1> DEFINE node == [type |-> RegularFile, addr_0 |-> b]
           c == [cnt |-> d.data[b].cnt, slots |-> <<>>]
           e == WriteInode(d, i, node)
<1>1. node \in InodeT /\ i \in Ids /\ c \in Content
  BY DiskFields, EmptySeq DEF InodeT, Ids, Content
<1> HIDE DEF node, c
<1>2. e \in Disk /\ e.node = [d.node EXCEPT ![i] = node]
  BY <1>1, WriteInodeType
<1> HIDE DEF e
<1>3. /\ WriteContent(e, b, c).imap = e.imap
      /\ WriteContent(e, b, c).node = e.node
      /\ WriteContent(e, b, c).data = [e.data EXCEPT ![b] = c]
  BY <1>1, <1>2, WriteContentType
<1>4. WriteFile(d, i, b) = WriteContent(e, b, c)
  BY DEF WriteFile, e, node, c
<1> QED
  BY <1>2, <1>3, <1>4, DiskFields

\* createFile takes an inode that is free, so none that is written.
LEMMA CreateFileKeeps ==
    ASSUME NEW d \in Disk, WrittenAllocated(d)
    PROVE  LET c == CreateFile(d)
           IN  /\ WrittenAllocated(c.disk)
               /\ Extends(d, c.disk)
               /\ c.id # NoId => c.id \in Inodes /\ c.id \notin Initialised(d)
<1> DEFINE i == AllocBit(d.imap)
           b == AllocBit(d.dmap)
           e == TakeInode(d, i)
           g == TakeBlock(e, b)
           w == WriteFile(g, i, b)
<1>1. CASE i = NoId
  BY <1>1 DEF CreateFile, Created, Extends
<1>2. CASE i # NoId
  <2>1. i \in Inodes /\ d.imap[i] = 0 /\ i \notin Initialised(d)
    BY <1>2, AllocatedFree DEF WrittenAllocated
  <2>2. /\ e \in Disk
        /\ e.imap = [d.imap EXCEPT ![i] = 1]
        /\ e.dmap = d.dmap
        /\ e.node = d.node
    BY <2>1, TakeInodeType
  <2>3. /\ \A j \in Inodes : d.imap[j] = 1 => e.imap[j] = 1
        /\ e.imap[i] = 1
    BY <2>1, <2>2, DiskFields
  <2>4. CASE b = NoId
    <3>1. CreateFile(d) = [id |-> NoId, disk |-> e]
      BY <1>2, <2>4 DEF CreateFile, Created
    <3> HIDE DEF e
    <3>2. WrittenAllocated(e) /\ Extends(d, e)
      BY <2>2, <2>3 DEF WrittenAllocated, Extends, Initialised
    <3> QED
      BY <3>1, <3>2
  <2>5. CASE b # NoId
    <3>1. b \in Blocks
      BY <2>5, AllocatedFree
    <3>2. CreateFile(d) = [id |-> i, disk |-> w]
      BY <1>2, <2>5 DEF CreateFile, Created
    <3> HIDE DEF e
    <3>3. /\ g \in Disk
          /\ g.imap = e.imap
          /\ g.dmap = [d.dmap EXCEPT ![b] = 1]
          /\ g.node = d.node
      BY <2>2, <3>1, TakeBlockType
    <3>4. g.dmap[b] = 1 /\ \A x \in Blocks : d.dmap[x] = 1 => g.dmap[x] = 1
      BY <3>1, <3>3, DiskFields
    <3> HIDE DEF g
    <3>5. /\ w.imap = g.imap
          /\ w.dmap = g.dmap
          /\ \A j \in Ids : w.node[j].addr_0 = IF j = i THEN b ELSE d.node[j].addr_0
          /\ \A j \in Ids : j # i => w.node[j] = d.node[j]
      BY <2>1, <3>1, <3>3, WriteFileFields, WriteFileNode
    <3> HIDE DEF w
    <3>6. Extends(d, w)
      BY <2>1, <3>5, DiskFields DEF Extends, Initialised, Ids
    <3>7. WrittenAllocated(w)
      <4> SUFFICES ASSUME NEW j \in Initialised(w)
                   PROVE  w.imap[j] = 1 /\ w.dmap[w.node[j].addr_0] = 1
        BY DEF WrittenAllocated
      <4>1. CASE j = i
        BY <2>1, <2>3, <3>3, <3>4, <3>5, <4>1, DiskFields DEF Ids
      <4>2. CASE j # i
        <5>1. j \in Initialised(d) /\ w.node[j] = d.node[j]
          BY <3>5, <4>2, DiskFields DEF Initialised, Ids
        <5>2. d.imap[j] = 1 /\ d.dmap[d.node[j].addr_0] = 1 /\ d.node[j].addr_0 \in Blocks /\ j \in Inodes
          BY <5>1, InitialisedFields DEF WrittenAllocated
        <5> QED
          BY <2>3, <3>3, <3>4, <3>5, <5>1, <5>2
      <4> QED
        BY <4>1, <4>2
    <3> QED
      BY <2>1, <3>2, <3>6, <3>7
  <2> QED
    BY <2>4, <2>5
<1> QED
  BY <1>1, <1>2

\* The writes of a directory's entries touch neither maps nor inodes.
LEMMA EntriesAlone ==
    ASSUME NEW d \in Disk, NEW f \in Ids, NEW n \in Name, NEW dir \in Ids
    PROVE  LET e == AddEntry(d, f, n, dir)
           IN  e \in Disk /\ e.imap = d.imap /\ e.dmap = d.dmap /\ e.node = d.node
BY AddEntryType DEF AddEntry, WriteContent, Disk

\* newDir changes the type of the inode it is given, and no other inode.
LEMMA NewDirKeeps ==
    ASSUME NEW d \in Disk, NEW i \in Inodes, NEW parent \in Ids
    PROVE  LET e == NewDir(d, i, parent)
           IN  /\ e.imap = d.imap
               /\ e.dmap = d.dmap
               /\ e.node[i].addr_0 = d.node[i].addr_0
               /\ \A j \in Ids : j # i => e.node[j] = d.node[j]
<1> DEFINE e == MakeDirectory(d, i, 0)
           g == AddEntry(e, i, ".", i)
<1>1. i \in Ids /\ "." \in Name /\ ".." \in Name
  BY DEF Ids, Name
<1>2. /\ e \in Disk
      /\ e.imap = d.imap
      /\ e.dmap = d.dmap
      /\ e.node = [d.node EXCEPT ![i] = [type |-> Directory, addr_0 |-> d.node[i].addr_0]]
  BY <1>1, MakeDirectoryType DEF MakeDirectory, WriteContent, WriteInode, Disk
<1> HIDE DEF e
<1>3. g \in Disk /\ g.imap = e.imap /\ g.dmap = e.dmap /\ g.node = e.node
  BY <1>1, <1>2, EntriesAlone
<1>4. NewDir(d, i, parent) = AddEntry(g, parent, "..", i)
  BY DEF NewDir, e
<1> HIDE DEF g
<1>5. /\ NewDir(d, i, parent).imap = d.imap
      /\ NewDir(d, i, parent).dmap = d.dmap
      /\ NewDir(d, i, parent).node = e.node
  BY <1>1, <1>2, <1>3, <1>4, EntriesAlone
<1> QED
  BY <1>1, <1>2, <1>5, DiskFields

\* The step of rm: an entry goes, and the bits that freeFile sets were set.
LEMMA RmKeeps ==
    ASSUME TypeOK, WrittenAllocated(disk), NEW n, Rm(n)
    PROVE  WrittenAllocated(disk') /\ disk'.node = disk.node
<1>1. PICK k \in Match(Here, n) :
           disk' = IF up' /\ job' = Idle THEN FreeFile(DeleteEntry(disk, cwd, k), NamedBy(k))
                   ELSE DeleteEntry(disk, cwd, k)
  BY DEF Rm
<1> DEFINE e == DeleteEntry(disk, cwd, k)
<1>2. disk \in Disk /\ cwd \in Ids
  BY DEF TypeOK, Ids
<1>3. disk.node[cwd].addr_0 \in Blocks /\ Here = disk.data[disk.node[cwd].addr_0]
  <2>1. Here.cnt > 0
    BY DEF Rm, Scannable
  <2> QED
    BY <1>2, <2>1, DiskFields DEF Here, ContentOf, Zeros
<1>4. e \in Disk
  BY <1>1, <1>2, <1>3, DeleteEntryType
<1>5. e.imap = disk.imap /\ e.dmap = disk.dmap /\ e.node = disk.node
  BY <1>2 DEF DeleteEntry, WriteContent, Disk
<1>6. NamedBy(k) \in Ids
  <2>1. Here.slots \in Seq(Entry)
    BY <1>2, <1>3, DiskFields
  <2>2. k \in 1 .. Len(Here.slots)
    BY <1>1, <2>1, LenProperties DEF Match, Scanned
  <2>3. Here.slots[k] \in Entry
    BY <2>1, <2>2, ElementOfSeq
  <2> QED
    BY <2>3 DEF NamedBy, Entry
<1> HIDE DEF e
<1> DEFINE g == FreeFile(e, NamedBy(k))
<1>7. /\ g.node = e.node
      /\ \A i \in Inodes : e.imap[i] = 1 => g.imap[i] = 1
      /\ \A b \in Blocks : e.dmap[b] = 1 => g.dmap[b] = 1
  BY <1>4, <1>6 DEF FreeFile, FreeBit, Disk, Ids
<1> HIDE DEF g
<1>8. disk' = g \/ disk' = e
  BY <1>1 DEF e, g
<1>9. /\ disk'.node = disk.node
      /\ \A i \in Inodes : disk.imap[i] = 1 => disk'.imap[i] = 1
      /\ \A b \in Blocks : disk.dmap[b] = 1 => disk'.dmap[b] = 1
  BY <1>5, <1>7, <1>8
<1>10. Initialised(disk') = Initialised(disk)
  BY <1>9 DEF Initialised
<1> QED
  BY <1>2, <1>9, <1>10, InitialisedFields DEF WrittenAllocated

\* The step of open that creates a file.
LEMMA OpenNewKeeps ==
    ASSUME TypeOK, WrittenAllocated(disk), OpenNew
    PROVE  WrittenAllocated(disk') /\ Extends(disk, disk')
<1> DEFINE c == CreateFile(disk)
<1>1. disk \in Disk /\ cwd \in Ids /\ job.file \in Name
  BY JobType DEF TypeOK, OpenNew, Arrived, Busy, Ids
<1>2. disk' = AddEntry(c.disk, c.id, job.file, cwd)
  BY DEF OpenNew
<1>3. c.id \in Ids /\ c.disk \in Disk /\ WrittenAllocated(c.disk) /\ Extends(disk, c.disk)
  BY <1>1, CreateFileType, CreateFileKeeps
<1> HIDE DEF c
<1>4. disk'.imap = c.disk.imap /\ disk'.dmap = c.disk.dmap /\ disk'.node = c.disk.node
  BY <1>1, <1>2, <1>3, EntriesAlone
<1> QED
  BY <1>3, <1>4 DEF WrittenAllocated, Extends, Initialised

\* The step of mkdir that creates a directory.
LEMMA MkdirKeeps ==
    ASSUME TypeOK, WrittenAllocated(disk), Mkdir
    PROVE  WrittenAllocated(disk') /\ Extends(disk, disk')
<1> DEFINE c == CreateFile(disk)
           d == NewDir(c.disk, c.id, cwd)
<1>1. disk \in Disk /\ cwd \in Ids /\ job.file \in Name
  BY JobType DEF TypeOK, Mkdir, Arrived, Busy, Ids
<1>2. c.id # NoId /\ disk' = AddEntry(d, c.id, job.file, cwd)
  BY DEF Mkdir
<1>3. /\ c.id \in Ids /\ c.disk \in Disk /\ WrittenAllocated(c.disk) /\ Extends(disk, c.disk)
      /\ c.id \in Inodes /\ c.id \notin Initialised(disk)
  BY <1>1, <1>2, CreateFileType, CreateFileKeeps
<1> HIDE DEF c
<1>4. /\ d \in Disk
      /\ d.imap = c.disk.imap
      /\ d.dmap = c.disk.dmap
      /\ \A j \in Ids : d.node[j].addr_0 = c.disk.node[j].addr_0
      /\ \A j \in Ids : j # c.id => d.node[j] = c.disk.node[j]
  <2>1. d \in Disk
    BY <1>1, <1>3, NewDirType
  <2> QED
    BY <1>1, <1>3, <2>1, NewDirKeeps
<1> HIDE DEF d
<1>5. disk'.imap = d.imap /\ disk'.dmap = d.dmap /\ disk'.node = d.node
  BY <1>1, <1>2, <1>3, <1>4, EntriesAlone
<1>6. WrittenAllocated(disk')
  BY <1>3, <1>4, <1>5 DEF WrittenAllocated, Initialised, Ids
<1>7. Extends(disk, disk')
  BY <1>3, <1>4, <1>5 DEF Extends, Initialised, Ids
<1> QED
  BY <1>6, <1>7

\* The step of mkdir on a full disk: the inode it writes is no inode.
LEMMA MkdirFailedKeeps ==
    ASSUME TypeOK, WrittenAllocated(disk), MkdirFailed
    PROVE  WrittenAllocated(disk') /\ Extends(disk, disk')
<1> DEFINE d == CreateFile(disk).disk
<1>1. disk \in Disk /\ disk' = NewDirFailed(d)
  BY DEF TypeOK, MkdirFailed
<1>2. d \in Disk /\ WrittenAllocated(d) /\ Extends(disk, d)
  BY <1>1, CreateFileType, CreateFileKeeps
<1> HIDE DEF d
<1> DEFINE node == [type |-> Directory, addr_0 |-> NoBlock]
           b == AllocBit(d.dmap)
           e == WriteInode(d, NoId, node)
<1>3. b = NoId \/ b \in Blocks
  BY <1>2, AllocatedFree
<1>4. disk' = e \/ (b \in Blocks /\ disk' = TakeBlock(e, b))
  BY <1>1, <1>3 DEF NewDirFailed
<1>5. node \in InodeT /\ NoId \in Ids /\ NoId \notin Inodes
  BY DEF InodeT, Ids, Inodes
<1> HIDE DEF node
<1>6. /\ e \in Disk
      /\ e.imap = d.imap
      /\ e.dmap = d.dmap
      /\ e.node = [d.node EXCEPT ![NoId] = node]
  BY <1>2, <1>5, WriteInodeType
<1> HIDE DEF e, b
<1>7. \A i \in Inodes : e.node[i] = d.node[i]
  BY <1>2, <1>5, <1>6, DiskFields DEF Ids
<1>8. CASE disk' = e
  BY <1>2, <1>6, <1>7, <1>8, ZenonT(60) DEF WrittenAllocated, Extends, Initialised
<1>9. CASE b \in Blocks /\ disk' = TakeBlock(e, b)
  <2>1. /\ disk'.imap = d.imap
        /\ disk'.dmap = [d.dmap EXCEPT ![b] = 1]
        /\ disk'.node = e.node
    BY <1>6, <1>9, TakeBlockType
  <2>2. \A x \in Blocks : d.dmap[x] = 1 => disk'.dmap[x] = 1
    BY <1>2, <1>9, <2>1, DiskFields
  <2>3. Initialised(disk') = Initialised(d)
    BY <1>7, <2>1 DEF Initialised
  <2>4. \A i \in Initialised(d) : i \in Inodes /\ d.node[i].addr_0 \in Blocks
    BY <1>2, InitialisedFields
  <2>5. Extends(disk, disk')
    BY <1>2, <1>7, <2>1 DEF Extends, Initialised
  <2> QED
    BY <1>2, <1>7, <2>1, <2>2, <2>3, <2>4, <2>5 DEF WrittenAllocated
<1> QED
  BY <1>4, <1>8, <1>9

\* No step but mkfs changes an inode that is written, or frees it.
LEMMA NextKeeps ==
    ASSUME TypeOK, WrittenAllocated(disk), [Next]_vars
    PROVE  WrittenAllocated(disk') /\ (~Mkfs => Extends(disk, disk'))
<1>1. CASE Mkfs
  BY <1>1, FormattedDiskInv DEF Mkfs, DiskInv
<1>2. ASSUME NEW n \in RmTarget, Rm(n) PROVE WrittenAllocated(disk') /\ Extends(disk, disk')
  BY <1>2, RmKeeps DEF Extends
<1>3. CASE OpenNew
  BY <1>3, OpenNewKeeps
<1>4. CASE Mkdir
  BY <1>4, MkdirKeeps
<1>5. CASE MkdirFailed
  BY <1>5, MkdirFailedKeeps
<1>6. CASE disk' = disk
  BY <1>6 DEF Extends
<1>7. \/ Mkfs \/ OpenNew \/ Mkdir \/ MkdirFailed \/ (\E n \in RmTarget : Rm(n))
      \/ disk' = disk
  BY DEF Next, Command, Continue, Start, Stop, MkfsOnDeadStream, Begin, BeginCd, BeginOpen,
         BeginMkdir, Close, RmAborts, RmUndefined, Descend, GiveUp, EndCd, OpenExisting,
         OpenRefused, CreateOnDeadStream, vars
<1> QED
  BY <1>1, <1>2, <1>3, <1>4, <1>5, <1>6, <1>7

-----------------------------------------------------------------------------
(* Types *)

LEMMA WaitingType ==
    ASSUME ShellsTypeOK
    PROVE  /\ Len(waiting) \in Nat
           /\ DOMAIN waiting = 1 .. Len(waiting)
           /\ \A k \in DOMAIN waiting : IsMemory(waiting[k])
<1> DEFINE M == {m \in Range(waiting) : IsMemory(m)}
<1>1. waiting \in Seq(M)
  BY DEF ShellsTypeOK
<1>2. Len(waiting) \in Nat /\ DOMAIN waiting = 1 .. Len(waiting)
  BY <1>1, LenProperties
<1>3. \A k \in 1 .. Len(waiting) : waiting[k] \in M
  BY <1>1, ElementOfSeq
<1> QED
  BY <1>2, <1>3

\* One memory less, and one more.
LEMMA OneWaitingLess ==
    ASSUME NEW s, NEW n \in Nat, \A k \in 1 .. n : IsMemory(s[k])
    PROVE  /\ SubSeq(s, 1, n) \in Seq({m \in Range(SubSeq(s, 1, n)) : IsMemory(m)})
           /\ DOMAIN SubSeq(s, 1, n) = 1 .. n
           /\ \A k \in 1 .. n : SubSeq(s, 1, n)[k] = s[k]
<1> DEFINE t == SubSeq(s, 1, n)
           M == {m \in Range(t) : IsMemory(m)}
           N == {s[k] : k \in 1 .. n}
<1>1. \A k \in 1 .. n : s[k] \in N
  OBVIOUS
<1>2. t \in Seq(N) /\ Len(t) = n /\ \A k \in 1 .. n : t[k] = s[k]
  <2> HIDE DEF N
  <2>1. t \in Seq(N) /\ Len(t) = (IF 1 <= n THEN n - 1 + 1 ELSE 0)
        /\ \A k \in 1 .. n - 1 + 1 : t[k] = s[1 + k - 1]
    BY <1>1, SubSeqProperties
  <2>2. n - 1 + 1 = n /\ \A k \in 1 .. n : 1 + k - 1 = k
    OBVIOUS
  <2> QED
    BY <2>1, <2>2
<1>3. DOMAIN t = 1 .. n
  BY <1>2, LenProperties
<1> HIDE DEF t
<1>4. \A k \in 1 .. n : s[k] \in M
  BY <1>2, <1>3 DEF Range
<1> HIDE DEF M
<1>5. SubSeq(s, 1, n) \in Seq(M)
  BY <1>4, SubSeqProperties
<1> QED
  BY <1>2, <1>3, <1>5 DEF t, M

LEMMA OneWaitingMore ==
    ASSUME NEW s, s \in Seq({m \in Range(s) : IsMemory(m)}), NEW w, IsMemory(w)
    PROVE  /\ Append(s, w) \in Seq({m \in Range(Append(s, w)) : IsMemory(m)})
           /\ Len(Append(s, w)) = Len(s) + 1
           /\ \A k \in 1 .. Len(s) : Append(s, w)[k] = s[k]
           /\ Append(s, w)[Len(s) + 1] = w
<1> DEFINE t == Append(s, w)
           M == {m \in Range(s) : IsMemory(m)}
           N == {m \in Range(t) : IsMemory(m)}
           U == M \cup {w}
<1>1. s \in Seq(U) /\ w \in U
  BY SeqMonotonic
<1>2. Len(s) \in Nat /\ DOMAIN s = 1 .. Len(s) /\ \A k \in 1 .. Len(s) : s[k] \in M
  BY LenProperties, ElementOfSeq
<1> HIDE DEF U
<1>3. /\ t \in Seq(U)
      /\ Len(t) = Len(s) + 1
      /\ \A k \in 1 .. Len(s) : t[k] = s[k]
      /\ t[Len(s) + 1] = w
  BY <1>1, AppendProperties
<1>4. DOMAIN t = 1 .. Len(s) + 1
  BY <1>3, LenProperties
<1>5. M \subseteq N /\ w \in N
  <2> HIDE DEF t
  <2>1. w \in Range(t)
    BY <1>2, <1>3, <1>4 DEF Range
  <2>2. Range(s) \subseteq Range(t)
    BY <1>2, <1>3, <1>4 DEF Range
  <2> QED
    BY <2>1, <2>2
<1> HIDE DEF N
<1>6. s \in Seq(N)
  BY <1>5, SeqMonotonic
<1>7. t \in Seq(N)
  BY <1>5, <1>6, AppendProperties
<1> QED
  BY <1>3, <1>7 DEF N

LEMMA InitShellsType == ShellsInit => ShellsTypeOK
<1> SUFFICES ASSUME ShellsInit PROVE ShellsTypeOK
  OBVIOUS
<1>1. TypeOK
  BY InitTypeOK DEF ShellsInit
<1>2. waiting = <<>> /\ reformatted = FALSE
  BY DEF ShellsInit
<1>3. <<>> \in Seq({m \in Range(<<>>) : IsMemory(m)})
  BY EmptySeq
<1> QED
  BY <1>1, <1>2, <1>3 DEF ShellsTypeOK

\* The start of a command keeps the types; this one is not in VSFileSystem.
LEMMA BeginRunType ==
    ASSUME TypeOK, NEW p \in Path, NEW n \in Target, BeginRun(p, n)
    PROVE  TypeOK'
<1> DEFINE q == ParsePath(p)
           j == [op |-> "run", path |-> q, rest |-> q.dirs, saved |-> cwd, file |-> n,
                 flag |-> "r"]
<1>1. q \in PathT /\ n \in Name
  BY ParsePathType, ProcessAssumption
<1>2. /\ UNCHANGED <<disk, good, fd_cnt, fd_map>>
      /\ \/ cwd' = Root /\ LoadTable(disk, Root, j)
         \/ job' = j /\ UNCHANGED <<up, cwd, cwd_table>>
  BY DEF BeginRun, Begin
<1> HIDE DEF q
<1>3. j \in Job
  BY <1>1 DEF Job, PathT, TypeOK, Flag
<1> HIDE DEF j
<1>4. CASE cwd' = Root /\ LoadTable(disk, Root, j)
  BY <1>2, <1>3, <1>4, LoadTableType, RootIsInode DEF TypeOK, AnyId
<1>5. CASE job' = j /\ UNCHANGED <<up, cwd, cwd_table>>
  BY <1>2, <1>3, <1>5 DEF TypeOK
<1> QED
  BY <1>2, <1>4, <1>5

\* The first lookup of the binary, and the second, which export makes.
LEMMA RunFoundType ==
    ASSUME TypeOK, RunFound
    PROVE  TypeOK' /\ (up' /\ job' # Adrift => cwd' \in Initialised(disk'))
<1> DEFINE j == [job EXCEPT !.op = "export", !.rest = job.path.dirs]
<1>1. job \in Job /\ job.saved \in Inodes
  BY JobType DEF RunFound, Arrived, Busy, TypeOK
<1>2. j \in Job
  BY <1>1 DEF Job, PathT
<1>3. \/ cwd' = Root /\ LoadTables(disk, job.saved, Root, j)
      \/ cwd' = job.saved /\ LoadTable(disk, job.saved, j)
  BY DEF RunFound
<1>4. disk \in Disk /\ disk' = disk /\ good' \in BOOLEAN /\ {Root, job.saved} \subseteq Inodes \cap AnyId
  BY <1>1, RootIsInode DEF RunFound, TypeOK, AnyId
<1> HIDE DEF j
<1>5. /\ up' \in BOOLEAN /\ IsTable(cwd_table') /\ cwd' \in Inodes
      /\ job' \in {j, Adrift}
      /\ up' /\ job' # Adrift => cwd' \in Initialised(disk')
  <2>1. CASE cwd' = Root /\ LoadTables(disk, job.saved, Root, j)
    BY <1>4, <2>1, LoadTablesType
  <2>2. CASE cwd' = job.saved /\ LoadTable(disk, job.saved, j)
    BY <1>4, <2>2, LoadTableType
  <2> QED
    BY <1>3, <2>1, <2>2
<1>6. fd_cnt' \in Nat \cup {-1} /\ DOMAIN fd_map' \subseteq 0 .. fd_cnt'
      /\ fd_map' \in [DOMAIN fd_map' -> AnyId \cup {NoId}]
  BY DEF RunFound, TypeOK
<1> QED
  BY <1>2, <1>4, <1>5, <1>6 DEF TypeOK

LEMMA ExportedType ==
    ASSUME TypeOK, Exported
    PROVE  /\ TypeOK'
           /\ disk' = disk
           /\ Inv => Inv'
<1>1. CASE ExportFound
  <2>1. /\ job.saved \in Inodes /\ cwd' = job.saved
        /\ disk' = disk /\ good' = good /\ disk \in Disk /\ good \in BOOLEAN
    BY <1>1, JobType DEF ExportFound, Arrived, Busy, TypeOK
  <2>2. /\ up' \in BOOLEAN /\ IsTable(cwd_table') /\ job' \in {Idle, Adrift}
        /\ up' /\ job' # Adrift => cwd' \in Initialised(disk')
    BY <1>1, <2>1, LoadTableType DEF ExportFound, AnyId
  <2>3. fd_cnt' \in Nat \cup {-1} /\ DOMAIN fd_map' \subseteq 0 .. fd_cnt'
        /\ fd_map' \in [DOMAIN fd_map' -> AnyId \cup {NoId}]
    BY <1>1 DEF ExportFound, TypeOK
  <2> QED
    BY <2>1, <2>2, <2>3 DEF TypeOK, Inv
<1>2. CASE ExportMissing
  BY <1>2, CwdInitialised DEF ExportMissing, Arrived, TypeOK, Inv
<1> QED
  BY <1>1, <1>2 DEF Exported

\* The memory that a shell leaves behind is a memory.
LEMMA MemoryType ==
    ASSUME TypeOK'
    PROVE  IsMemory(Memory')
BY DEF TypeOK, Memory, IsMemory

LEMMA NextShellsType == ShellsTypeOK /\ [ShellsNext]_shellsVars => ShellsTypeOK'
<1> SUFFICES ASSUME ShellsTypeOK, [ShellsNext]_shellsVars PROVE ShellsTypeOK'
  OBVIOUS
<1>1. TypeOK /\ reformatted \in BOOLEAN
  BY DEF ShellsTypeOK
<1>2. ASSUME TypeOK', waiting' = waiting, reformatted' \in BOOLEAN PROVE ShellsTypeOK'
  BY <1>2 DEF ShellsTypeOK
<1>3. CASE StartFirst
  BY <1>1, <1>2, <1>3, NextTypeOK DEF StartFirst, Next
<1>4. CASE Resume
  <2> DEFINE last == Len(waiting)
  <2>1. last \in Nat /\ waiting # <<>> /\ IsMemory(waiting[last])
    BY <1>4, WaitingType DEF Resume
  <2>2. TypeOK'
    BY <1>1, <1>4, <2>1 DEF Resume, TypeOK, IsMemory
  <2>3. waiting' = SubSeq(waiting, 1, last - 1)
    BY <1>4 DEF Resume
  <2>4. last - 1 \in Nat /\ \A k \in 1 .. last - 1 : IsMemory(waiting[k])
    BY <2>1, WaitingType, EmptySeq DEF ShellsTypeOK
  <2>5. waiting' \in Seq({m \in Range(waiting') : IsMemory(m)})
    BY <2>3, <2>4, OneWaitingLess
  <2> QED
    BY <1>1, <1>4, <2>2, <2>5 DEF Resume, ShellsTypeOK
<1>5. CASE Work
  BY <1>1, <1>2, <1>5, NextTypeOK DEF Work, Next
<1>6. ASSUME NEW p \in Path, NEW n \in Target, BeginRun(p, n) PROVE ShellsTypeOK'
  BY <1>1, <1>2, <1>6, BeginRunType DEF BeginRun
<1>7. CASE RunMissing
  <2>1. TypeOK'
    BY <1>1, <1>7 DEF RunMissing, TypeOK
  <2> QED
    BY <1>1, <1>2, <1>7, <2>1 DEF RunMissing
<1>8. CASE RunFound \/ RunBinary
  BY <1>1, <1>2, <1>8, RunFoundType, ExportedType DEF RunFound, RunBinary, Exported
<1>9. CASE RunShell
  <2>1. TypeOK'
    BY <1>1, <1>9, ExportedType DEF RunShell
  <2>2. IsMemory(Memory')
    BY <2>1, MemoryType
  <2>3. waiting' \in Seq({m \in Range(waiting') : IsMemory(m)})
    BY <1>9, <2>2, OneWaitingMore DEF RunShell, ShellsTypeOK
  <2> QED
    BY <1>1, <1>9, <2>1, <2>3 DEF RunShell, Exported, ShellsTypeOK
<1>10. CASE UNCHANGED shellsVars
  <2>1. TypeOK'
    BY <1>1, <1>10 DEF shellsVars, vars, TypeOK
  <2> QED
    BY <1>1, <1>2, <1>10, <2>1 DEF shellsVars
<1> QED
  BY <1>3, <1>4, <1>5, <1>6, <1>7, <1>8, <1>9, <1>10 DEF ShellsNext

\* Every variable keeps its type, however many shells there are.
THEOREM ShellsTypeCorrect == ShellsSpec => []ShellsTypeOK
<1> QED
  BY InitShellsType, NextShellsType, PTL DEF ShellsSpec

-----------------------------------------------------------------------------
(* The shells on the disk *)

\* What the theorems rest on: it holds also below an mkfs.
LEMMA AllocatedCorrect == ShellsSpec => []WrittenAllocated(disk)
<1>1. ShellsInit => WrittenAllocated(disk)
  BY InitInv DEF ShellsInit, Inv, DiskInv
<1>2. ShellsTypeOK /\ WrittenAllocated(disk) /\ [ShellsNext]_shellsVars => WrittenAllocated(disk)'
  <2> SUFFICES ASSUME ShellsTypeOK, WrittenAllocated(disk), [ShellsNext]_shellsVars
               PROVE  WrittenAllocated(disk')
    OBVIOUS
  <2>1. TypeOK
    BY DEF ShellsTypeOK
  <2>2. CASE [Next]_vars
    BY <2>1, <2>2, NextKeeps
  <2>3. CASE disk' = disk
    BY <2>3
  <2> QED
    BY <2>2, <2>3 DEF ShellsNext, StartFirst, Work, Next, Resume, BeginRun, Begin, RunMissing,
                      RunBinary, RunShell, RunFound, Exported, ExportFound, ExportMissing,
                      shellsVars, vars
<1> QED
  BY <1>1, <1>2, ShellsTypeCorrect, PTL DEF ShellsSpec

\* An inode keeps its block and its type until the disk is formatted, whichever
\* shell works on it.
THEOREM FilesStayCorrect == ShellsSpec => FilesStay
<1> DEFINE Stays == ~Mkfs => \A i \in Initialised(disk) : disk'.node[i] = disk.node[i]
<1>1. ASSUME ShellsTypeOK, WrittenAllocated(disk), [ShellsNext]_shellsVars PROVE Stays
  <2>1. TypeOK
    BY <1>1 DEF ShellsTypeOK
  <2>2. CASE [Next]_vars
    BY <1>1, <2>1, <2>2, NextKeeps DEF Extends
  <2>3. CASE disk' = disk
    BY <2>3
  <2> QED
    BY <1>1, <2>2, <2>3
       DEF ShellsNext, StartFirst, Work, Next, Resume, BeginRun, Begin, RunMissing,
           RunBinary, RunShell, RunFound, Exported, ExportFound, ExportMissing,
           shellsVars, vars
<1>2. ShellsTypeOK /\ WrittenAllocated(disk) /\ [ShellsNext]_shellsVars => [Stays]_shellsVars
  BY <1>1
<1> QED
  BY <1>2, ShellsTypeCorrect, AllocatedCorrect, PTL DEF ShellsSpec, FilesStay

LEMMA InitShellsInv == ShellsInit => ShellsInv
<1> SUFFICES ASSUME ShellsInit PROVE ShellsInv
  OBVIOUS
<1> QED
  BY InitInv, EmptySeq DEF ShellsInit, ShellsInv

\* Whoever waits still has its directory when the written inodes stay written.
LEMMA WaitersKept ==
    ASSUME \A k \in DOMAIN waiting : waiting[k].cwd \in Initialised(disk),
           Initialised(disk) \subseteq Initialised(disk'), waiting' = waiting
    PROVE  \A k \in DOMAIN waiting' : waiting'[k].cwd \in Initialised(disk')
OBVIOUS

LEMMA NextShellsInv == ShellsTypeOK /\ ShellsInv /\ [ShellsNext]_shellsVars => ShellsInv'
<1> SUFFICES ASSUME ShellsTypeOK, ShellsInv, [ShellsNext]_shellsVars, ~reformatted'
             PROVE  /\ Inv'
                    /\ \A k \in DOMAIN waiting' : waiting'[k].cwd \in Initialised(disk')
  BY DEF ShellsInv
<1>1. TypeOK /\ TypeOK'
  BY NextShellsType DEF ShellsTypeOK
<1>2. ~reformatted
  BY DEF ShellsNext, StartFirst, Resume, Work, BeginRun, RunMissing, RunBinary, RunShell,
         RunFound, Exported, ShellsTypeOK, shellsVars
<1>3. Inv /\ \A k \in DOMAIN waiting : waiting[k].cwd \in Initialised(disk)
  BY <1>2 DEF ShellsInv
<1>4. CASE StartFirst
  <2>1. Inv'
    BY <1>1, <1>3, <1>4, NextInv DEF StartFirst, Next
  <2> QED
    BY <1>3, <1>4, <2>1 DEF StartFirst
<1>5. CASE Resume
  <2> DEFINE last == Len(waiting)
  <2>1. last \in DOMAIN waiting /\ last - 1 \in Nat /\ DOMAIN waiting = 1 .. last
    BY <1>5, WaitingType, EmptySeq DEF Resume, ShellsTypeOK
  <2>2. cwd' = waiting[last].cwd /\ disk' = disk /\ waiting' = SubSeq(waiting, 1, last - 1)
    BY <1>5 DEF Resume
  <2>3. Inv'
    BY <1>3, <2>1, <2>2 DEF Inv
  <2>4. DOMAIN waiting' = 1 .. last - 1 /\ \A k \in 1 .. last - 1 : waiting'[k] = waiting[k]
    <3>1. \A k \in 1 .. last - 1 : IsMemory(waiting[k])
      BY <2>1, WaitingType
    <3> QED
      BY <2>1, <2>2, <3>1, OneWaitingLess
  <2> QED
    BY <1>3, <2>1, <2>2, <2>3, <2>4
<1>6. CASE Work
  <2>1. waiting' = waiting /\ [Next]_vars /\ (waiting # <<>> => ~Mkfs)
    BY <1>6 DEF Work, Next, ShellsTypeOK
  <2>2. Inv'
    BY <1>1, <1>3, <2>1, NextInv
  <2>3. CASE waiting = <<>>
    BY <1>3, <2>1, <2>2, <2>3
  <2>4. CASE waiting # <<>>
    <3>1. Extends(disk, disk')
      BY <1>1, <1>3, <2>1, <2>4, NextKeeps DEF Inv, DiskInv
    <3>2. Initialised(disk) \subseteq Initialised(disk')
      BY <3>1 DEF Extends, Initialised
    <3> QED
      BY <1>3, <2>1, <2>2, <3>2, WaitersKept
  <2> QED
    BY <2>3, <2>4
<1>7. ASSUME NEW p \in Path, NEW n \in Target, BeginRun(p, n)
      PROVE  /\ Inv'
             /\ \A k \in DOMAIN waiting' : waiting'[k].cwd \in Initialised(disk')
  <2>1. Inv'
    BY <1>1, <1>3, <1>7, BeginInv DEF BeginRun
  <2> QED
    BY <1>3, <1>7, <2>1 DEF BeginRun, Begin
<1>8. CASE RunMissing
  BY <1>3, <1>8, CwdInitialised DEF RunMissing, Arrived, Inv
<1>9. CASE RunFound
  <2>1. up' /\ job' # Adrift => cwd' \in Initialised(disk')
    BY <1>1, <1>9, RunFoundType
  <2> QED
    BY <1>3, <1>9, <2>1 DEF RunFound, Inv
<1>10. CASE RunBinary
  BY <1>1, <1>3, <1>10, ExportedType DEF RunBinary
<1>11. CASE RunShell
  <2>0. Inv' /\ disk' = disk
    BY <1>1, <1>3, <1>11, ExportedType DEF RunShell
  <2>1. waiting' = Append(waiting, Memory') /\ Memory'.cwd \in Initialised(disk)
    BY <1>11, <2>0 DEF RunShell, Memory, Inv, Idle, Adrift
  <2>2. IsMemory(Memory')
    BY <1>1, MemoryType
  <2>3. /\ Len(waiting') = Len(waiting) + 1
        /\ \A k \in 1 .. Len(waiting) : waiting'[k] = waiting[k]
        /\ waiting'[Len(waiting) + 1] = Memory'
        /\ DOMAIN waiting' = 1 .. Len(waiting')
    BY <2>1, <2>2, OneWaitingMore, LenProperties DEF ShellsTypeOK
  <2>4. DOMAIN waiting = 1 .. Len(waiting) /\ Len(waiting) \in Nat
    BY WaitingType
  <2>5. \A k \in DOMAIN waiting' : waiting'[k].cwd \in Initialised(disk)
    BY <1>3, <2>1, <2>3, <2>4
  <2> QED
    BY <1>11, <2>0, <2>5
<1>12. CASE UNCHANGED shellsVars
  BY <1>3, <1>12 DEF shellsVars, vars, Inv
<1> QED
  BY <1>4, <1>5, <1>6, <1>7, <1>8, <1>9, <1>10, <1>11, <1>12 DEF ShellsNext

\* A shell goes on in a directory that is on the disk, whatever the shells
\* below it have created and removed, and the disk it goes on with is sound.
THEOREM ShellsInvCorrect == ShellsSpec => []ShellsInv
<1> QED
  BY InitShellsInv, NextShellsInv, ShellsTypeCorrect, PTL DEF ShellsSpec

-----------------------------------------------------------------------------
(* What the tables of the shells name *)

\* A table names files and directories that have been written.
Known(d, t) == Range(t) \subseteq Initialised(d)

\* A load while every directory is in step with its counter.
LEMMA LoadKnown ==
    ASSUME NEW d \in Disk, EntriesWritten(d), InStep(d), NEW i \in Ids, NEW g,
           NEW r \in Loads(d, g, i), r.up
    PROVE  Known(d, r.table)
<1> DEFINE c == ContentOf(d, i)
           b == d.node[i].addr_0
<1>1. CASE r \in {Crashed, Lost}
  <2>1. r.table = EmptyTable
    <3>1. CASE r = Crashed
      BY <3>1 DEF Crashed
    <3>2. CASE r = Lost
      BY <3>2 DEF Lost
    <3> QED
      BY <1>1, <3>1, <3>2
  <2> QED
    BY <2>1 DEF Known, EmptyTable, Range
<1>2. CASE r \notin {Crashed, Lost}
  <2>1. i \in Initialised(d) /\ d.node[i].type = Directory
    BY <1>2, DiskFields DEF Loads, InodeT, Initialised
  <2>2. c = d.data[b] /\ b \in Blocks /\ c \in Content /\ c.cnt \in Nat
    BY <2>1, DiskFields DEF ContentOf, Zeros, InodeT, Content, Initialised
  <2>3. c.cnt <= Cardinality(Live(c)) /\ Cardinality(Live(c)) \in Nat
    BY <2>1, <2>2, LiveFinite DEF InStep
  <2>4. c.cnt = 0 \/ InRange(d, i)
    BY <2>1, <2>2, <2>3 DEF InRange
  <2>5. r = Loaded(TableOf(c))
    BY <1>2, <2>4 DEF Loads
  <2>6. \A k \in Live(c) : c.slots[k].id \in Initialised(d)
    BY <2>2 DEF EntriesWritten
  <2> HIDE DEF c
  <2>7. \A n \in DOMAIN TableOf(c) : \E k \in Live(c) : TableOf(c)[n] = c.slots[k].id
    BY <2>2, TableEntry
  <2>8. r.table = TableOf(c)
    BY <2>5 DEF Loaded
  <2> QED
    BY <2>6, <2>7, <2>8 DEF Known, Range
<1> QED
  BY <1>1, <1>2

\* The table of the shell at work, while the disk has room.
LEMMA NextKnown ==
    ASSUME TypeOK, TypeOK', Inv, Inv', [Next]_vars, up', job' # Adrift, ~Full(disk'),
           InStep(disk'), Mkfs \/ (up /\ job # Adrift => Known(disk, cwd_table))
    PROVE  Known(disk', cwd_table')
<1>1. CASE Reloaded
  <2>1. disk' \in Disk /\ EntriesWritten(disk') /\ cwd' \in Ids
    BY DEF TypeOK, Inv, DiskInv, Ids
  <2> QED
    BY <1>1, <2>1, LoadKnown DEF Reloaded
<1>2. CASE Mkfs
  BY <1>1, <1>2 DEF Mkfs, LoadTable, Reloaded
<1>3. CASE up /\ job # Adrift /\ UNCHANGED <<disk, good, cwd, cwd_table>> /\ ~Mkfs
  BY <1>3
<1>4. CASE MkdirFailed
  BY <1>4, MkdirFailedIsFull
<1> QED
  BY <1>1, <1>2, <1>3, <1>4, TableSteps

\* Until mkfs is typed below a shell that waits, and while there is room: the
\* streams are good, the loaders stay in their directories, and every shell has
\* a table of inodes that have been written.
Acquainted == /\ good /\ InStep(disk)
              /\ up /\ job # Adrift => Known(disk, cwd_table)
              /\ \A k \in DOMAIN waiting : waiting[k].good /\ Known(disk, waiting[k].cwd_table)

ShellsKnown == reformatted \/ Full(disk) \/ Acquainted

LEMMA InitKnown == ShellsInit => ShellsKnown
<1> SUFFICES ASSUME ShellsInit PROVE Acquainted
  BY DEF ShellsKnown
<1> QED
  BY FormattedDiskInStep, EmptySeq DEF ShellsInit, Init, Acquainted

\* A load of a disk that does not change.
LEMMA SameDiskKnown ==
    ASSUME TypeOK, Inv, InStep(disk), NEW i \in Inodes, NEW j, up',
           LoadTable(disk, i, j) \/ \E k \in Inodes : LoadTables(disk, k, i, j)
    PROVE  Known(disk, cwd_table')
<1>1. disk \in Disk /\ EntriesWritten(disk) /\ i \in Ids
  BY DEF TypeOK, Inv, DiskInv, Ids
<1>2. PICK r \in Loads(disk, good', i) : r.up /\ cwd_table' = r.table
  BY DEF LoadTable, LoadTables
<1> QED
  BY <1>1, <1>2, LoadKnown

LEMMA WorkKnown ==
    ASSUME ShellsTypeOK, TypeOK', Inv, Inv', ShellsKnown, [Next]_vars, waiting' = waiting,
           waiting # <<>> => ~Mkfs, ~reformatted, ~Full(disk')
    PROVE  Acquainted'
<1>1. TypeOK
  BY DEF ShellsTypeOK
<1>2. CASE Mkfs
  <2>1. waiting = <<>> /\ good' /\ InStep(disk')
    BY <1>2, FormattedDiskInStep DEF Mkfs
  <2>2. up' /\ job' # Adrift => Known(disk', cwd_table')
    BY <1>1, <1>2, <2>1, NextKnown
  <2> QED
    BY <2>1, <2>2, EmptySeq DEF Acquainted
<1>3. CASE ~Mkfs
  <2>1. ~Full(disk)
    BY <1>1, <1>3, NextFull
  <2>2. Acquainted
    BY <2>1 DEF ShellsKnown
  <2>3. good' /\ InStep(disk')
    BY <1>1, <2>2, InStepKept DEF Acquainted, InStepOrBroken
  <2>4. up' /\ job' # Adrift => Known(disk', cwd_table')
    BY <1>1, <2>2, <2>3, NextKnown DEF Acquainted
  <2>5. Initialised(disk) \subseteq Initialised(disk')
    BY <1>1, <1>3, NextKeeps DEF Extends, Initialised, Inv, DiskInv
  <2> QED
    BY <2>2, <2>3, <2>4, <2>5 DEF Acquainted, Known
<1> QED
  BY <1>2, <1>3

LEMMA NextShellsKnown ==
    ShellsTypeOK /\ ShellsTypeOK' /\ ShellsInv /\ ShellsInv' /\ ShellsKnown
        /\ [ShellsNext]_shellsVars => ShellsKnown'
<1> SUFFICES ASSUME ShellsTypeOK, ShellsTypeOK', ShellsInv, ShellsInv', ShellsKnown,
                    [ShellsNext]_shellsVars, ~reformatted', ~Full(disk')
             PROVE  Acquainted'
  BY DEF ShellsKnown
<1>1. TypeOK /\ TypeOK' /\ Inv' /\ good' \in BOOLEAN
  BY DEF ShellsTypeOK, ShellsInv, TypeOK
<1>2. ~reformatted
  BY DEF ShellsNext, StartFirst, Resume, Work, BeginRun, RunMissing, RunBinary, RunShell,
         RunFound, Exported, ShellsTypeOK, shellsVars
<1>3. Inv
  BY <1>2 DEF ShellsInv
<1>4. ASSUME disk' = disk PROVE Acquainted /\ InStep(disk) /\ good
  BY <1>2, <1>4 DEF ShellsKnown, Acquainted
<1>5. CASE StartFirst
  <2>1. [Next]_vars /\ ~Mkfs /\ waiting' = waiting
    BY <1>5 DEF StartFirst, Next, Start, Mkfs, Ready
  <2> QED
    BY <1>1, <1>2, <1>3, <2>1, WorkKnown
<1>6. CASE Resume
  <2> DEFINE last == Len(waiting)
  <2>1. last \in DOMAIN waiting /\ last - 1 \in Nat /\ DOMAIN waiting = 1 .. last
    BY <1>6, WaitingType, EmptySeq DEF Resume, ShellsTypeOK
  <2>2. /\ good' = waiting[last].good /\ cwd_table' = waiting[last].cwd_table
        /\ disk' = disk /\ waiting' = SubSeq(waiting, 1, last - 1)
    BY <1>6 DEF Resume
  <2>3. DOMAIN waiting' = 1 .. last - 1 /\ \A k \in 1 .. last - 1 : waiting'[k] = waiting[k]
    <3>1. \A k \in 1 .. last - 1 : IsMemory(waiting[k])
      BY <2>1, WaitingType
    <3> QED
      BY <2>1, <2>2, <3>1, OneWaitingLess
  <2>4. Acquainted
    BY <1>4, <2>2
  <2> HIDE DEF last
  <2>5. good' /\ InStep(disk') /\ Known(disk', cwd_table')
    BY <2>1, <2>2, <2>4 DEF Acquainted
  <2>6. \A k \in DOMAIN waiting' : waiting'[k].good /\ Known(disk', waiting'[k].cwd_table)
    BY <2>1, <2>2, <2>3, <2>4 DEF Acquainted
  <2> QED
    BY <2>5, <2>6 DEF Acquainted
<1>7. CASE Work
  <2>1. [Next]_vars /\ waiting' = waiting /\ (waiting # <<>> => ~Mkfs)
    BY <1>7 DEF Work, Next, ShellsTypeOK
  <2> QED
    BY <1>1, <1>2, <1>3, <2>1, WorkKnown
<1>8. ASSUME NEW p \in Path, NEW n \in Target, BeginRun(p, n) PROVE Acquainted'
  <2>1. disk' = disk /\ good' = good /\ waiting' = waiting
    BY <1>8 DEF BeginRun, Begin
  <2>2. up' => Known(disk, cwd_table')
    <3>1. CASE ParsePath(p).abs
      BY <1>1, <1>3, <1>4, <1>8, <2>1, <3>1, RootIsInode, SameDiskKnown DEF BeginRun, Begin
    <3>2. CASE ~ParsePath(p).abs
      BY <1>4, <1>8, <2>1, <3>2 DEF BeginRun, Begin, Ready, Acquainted, Idle, Adrift
    <3> QED
      BY <3>1, <3>2
  <2> QED
    BY <1>4, <2>1, <2>2 DEF Acquainted
<1>9. CASE RunMissing
  BY <1>4, <1>9 DEF RunMissing, Arrived, Busy, Acquainted
<1>10. CASE RunFound
  <2>1. job.saved \in Inodes /\ Root \in Inodes
    BY <1>1, <1>10, JobType, RootIsInode DEF RunFound, Arrived, Busy, TypeOK
  <2>2. disk' = disk /\ good' = good /\ waiting' = waiting
    BY <1>10 DEF RunFound
  <2>3. up' => Known(disk, cwd_table')
    BY <1>1, <1>3, <1>4, <1>10, <2>1, <2>2, SameDiskKnown DEF RunFound
  <2> QED
    BY <1>4, <2>2, <2>3 DEF Acquainted
<1>11. ASSUME Exported
       PROVE  disk' = disk /\ good' = good /\ (up' => Known(disk, cwd_table'))
  <2>1. disk' = disk /\ good' = good
    BY <1>11 DEF Exported, ExportFound, ExportMissing
  <2>2. CASE ExportFound
    <3>1. LoadTable(disk, cwd', Idle) /\ cwd' \in Inodes
      BY <1>1, <2>2 DEF ExportFound, TypeOK
    <3> QED
      BY <1>1, <1>3, <1>4, <2>1, <3>1, SameDiskKnown
  <2>3. CASE ExportMissing
    BY <1>4, <2>1, <2>3 DEF ExportMissing, Arrived, Busy, Acquainted
  <2> QED
    BY <1>11, <2>1, <2>2, <2>3 DEF Exported
<1>14. CASE RunBinary
  BY <1>4, <1>11, <1>14 DEF RunBinary, Acquainted
<1>12. CASE RunShell
  <2>1. waiting' = Append(waiting, Memory') /\ up'
    BY <1>12 DEF RunShell
  <2>2. disk' = disk /\ good' /\ Known(disk, cwd_table') /\ Acquainted
    BY <1>4, <1>11, <1>12, <2>1 DEF RunShell
  <2>3. Memory'.good /\ Known(disk', Memory'.cwd_table)
    BY <2>2 DEF Memory
  <2>4. IsMemory(Memory')
    BY <1>1, MemoryType
  <2>5. /\ Len(waiting') = Len(waiting) + 1
        /\ \A k \in 1 .. Len(waiting) : waiting'[k] = waiting[k]
        /\ waiting'[Len(waiting) + 1] = Memory'
        /\ DOMAIN waiting' = 1 .. Len(waiting')
    BY <2>1, <2>4, OneWaitingMore, LenProperties DEF ShellsTypeOK
  <2>6. DOMAIN waiting = 1 .. Len(waiting) /\ Len(waiting) \in Nat
    BY WaitingType
  <2>7. \A k \in 1 .. Len(waiting) : waiting[k].good /\ Known(disk', waiting[k].cwd_table)
    BY <2>2, <2>6 DEF Acquainted
  <2>8. \A k \in DOMAIN waiting' : waiting'[k].good /\ Known(disk', waiting'[k].cwd_table)
    BY <2>3, <2>5, <2>6, <2>7
  <2> QED
    BY <2>2, <2>8 DEF Acquainted
<1>13. CASE UNCHANGED shellsVars
  BY <1>4, <1>13 DEF shellsVars, vars, Acquainted
<1> QED
  BY <1>5, <1>6, <1>7, <1>8, <1>9, <1>10, <1>12, <1>13, <1>14 DEF ShellsNext

LEMMA KnownCorrect == ShellsSpec => []ShellsKnown
BY InitKnown, NextShellsKnown, ShellsTypeCorrect, ShellsInvCorrect, PTL DEF ShellsSpec

\* While there is room, a creation takes an inode that no waiting shell knows:
\* what a table or a current directory names has been written, even when it has
\* been removed since, and what has been written stays allocated.
THEOREM FreshUnknownCorrect == ShellsSpec => FreshUnknown
<1> DEFINE Fresh == ~reformatted /\ ~Full(disk) /\ ~Mkfs =>
                       \A f \in Inodes : disk.imap[f] = 0 /\ disk'.imap[f] = 1 =>
                           \A k \in DOMAIN waiting :
                               f # waiting[k].cwd /\ f \notin Range(waiting[k].cwd_table)
<1>1. ASSUME ShellsInv, ShellsKnown PROVE Fresh
  <2> SUFFICES ASSUME ~reformatted, ~Full(disk), NEW f \in Inodes, disk.imap[f] = 0,
                      NEW k \in DOMAIN waiting
               PROVE  f # waiting[k].cwd /\ f \notin Range(waiting[k].cwd_table)
    OBVIOUS
  <2>1. f \notin Initialised(disk)
    BY <1>1 DEF ShellsInv, Inv, DiskInv, WrittenAllocated
  <2>2. waiting[k].cwd \in Initialised(disk) /\ Known(disk, waiting[k].cwd_table)
    BY <1>1 DEF ShellsInv, ShellsKnown, Acquainted
  <2> QED
    BY <2>1, <2>2 DEF Known
<1>2. ShellsInv /\ ShellsKnown /\ [ShellsNext]_shellsVars => [Fresh]_shellsVars
  BY <1>1
<1> QED
  BY <1>2, ShellsInvCorrect, KnownCorrect, PTL DEF ShellsSpec, FreshUnknown

-----------------------------------------------------------------------------
(* A shell loads again the directory it creates in *)

\* newDir writes to one block: two entries, and that there are two.
LEMMA NewDirCounts ==
    ASSUME NEW d \in Disk, NEW i \in Initialised(d), NEW parent \in Ids
    PROVE  LET e == NewDir(d, i, parent)
               b == d.node[i].addr_0
           IN  /\ e \in Disk
               /\ e.node[i] = [type |-> Directory, addr_0 |-> b]
               /\ e.data[b].cnt = 2
               /\ \A x \in Blocks \ {b} : e.data[x] = d.data[x]
<1> DEFINE b == d.node[i].addr_0
           d1 == MakeDirectory(d, i, 0)
           d2 == AddEntry(d1, i, ".", i)
           d3 == AddEntry(d2, parent, "..", i)
<1>1. i \in Ids /\ b \in Blocks /\ "." \in Name /\ ".." \in Name
  BY InitialisedFields DEF Name
<1>2. /\ d1 \in Disk
      /\ d1.node[i] = [type |-> Directory, addr_0 |-> b]
      /\ d1.data[b].cnt = 0
      /\ \A x \in Blocks \ {b} : d1.data[x] = d.data[x]
  <2>1. d1 \in Disk
    BY <1>1, MakeDirectoryType
  <2>2. d.node \in [Ids -> InodeT] /\ d.data \in [Blocks -> Content]
    BY DiskFields
  <2> QED
    BY <1>1, <2>1, <2>2 DEF MakeDirectory, WriteContent, WriteInode
<1> HIDE DEF b, d1
<1>3. ASSUME NEW e \in Disk, e.node[i].addr_0 = b, NEW f \in Ids, NEW n \in Name
      PROVE  /\ AddEntry(e, f, n, i) \in Disk
             /\ AddEntry(e, f, n, i).node = e.node
             /\ AddEntry(e, f, n, i).data[b].cnt = e.data[b].cnt + 1
             /\ \A x \in Blocks \ {b} : AddEntry(e, f, n, i).data[x] = e.data[x]
  <2>1. AddEntry(e, f, n, i) \in Disk
    BY <1>1, AddEntryType
  <2>2. e.data \in [Blocks -> Content]
    BY DiskFields
  <2> QED
    BY <1>1, <1>3, <2>1, <2>2 DEF AddEntry, WriteContent
<1>4. /\ d2 \in Disk /\ d2.node = d1.node /\ d2.data[b].cnt = 1
      /\ \A x \in Blocks \ {b} : d2.data[x] = d1.data[x]
  <2>1. d2.data[b].cnt = d1.data[b].cnt + 1
    BY <1>1, <1>2, <1>3
  <2> QED
    BY <1>1, <1>2, <1>3, <2>1
<1> HIDE DEF d2
<1>5. /\ d3 \in Disk /\ d3.node = d1.node /\ d3.data[b].cnt = 2
      /\ \A x \in Blocks \ {b} : d3.data[x] = d2.data[x]
  <2>1. d2.node[i].addr_0 = b
    BY <1>2, <1>4
  <2>2. d3.data[b].cnt = d2.data[b].cnt + 1 /\ d3.node = d2.node /\ d3 \in Disk
    BY <1>1, <1>3, <1>4, <2>1
  <2>3. \A x \in Blocks \ {b} : d3.data[x] = d2.data[x]
    BY <1>1, <1>3, <1>4, <2>1
  <2> QED
    BY <1>4, <2>2, <2>3
<1>6. NewDir(d, i, parent) = d3
  BY DEF NewDir, d1, d2
<1> HIDE DEF d3
<1> QED
  BY <1>2, <1>4, <1>5, <1>6 DEF b

\* Every directory still has its "." and "..", and counts them.
DotsLive(d) ==
    \A i \in Initialised(d) : IsDir(d, i) => /\ d.data[d.node[i].addr_0].cnt >= 2
                                             /\ SlotsOf(d, i)[1].id # NoId
                                             /\ SlotsOf(d, i)[2].id # NoId

LEMMA CreateFileDots ==
    ASSUME NEW d \in Disk, DiskInv(d), DotsLive(d)
    PROVE  DotsLive(CreateFile(d).disk)
<1> DEFINE c == CreateFile(d)
           e == c.disk
<1>1. /\ \A j \in Initialised(d) : /\ e.node[j] = d.node[j]
                                   /\ e.data[d.node[j].addr_0] = d.data[d.node[j].addr_0]
      /\ \A j \in Initialised(e) : j \in Initialised(d) \/ e.node[j].type = RegularFile
  BY CreateFileWrites
<1> HIDE DEF c
<1>2. \A i \in Initialised(e) : IsDir(e, i) =>
          i \in Initialised(d) /\ IsDir(d, i) /\ e.node[i] = d.node[i]
            /\ e.data[e.node[i].addr_0] = d.data[d.node[i].addr_0]
  BY <1>1 DEF IsDir
<1>3. DotsLive(e)
  BY <1>2 DEF DotsLive, SlotsOf
<1> QED
  BY <1>3 DEF c

LEMMA AddEntryDots ==
    ASSUME NEW d \in Disk, DiskInv(d), IsTree(d), DotsLive(d), NEW f \in Ids, NEW n \in Name,
           NEW dir \in Initialised(d)
    PROVE  DotsLive(AddEntry(d, f, n, dir))
<1> DEFINE e == AddEntry(d, f, n, dir)
           b == d.node[dir].addr_0
           en == [id |-> f, name |-> n]
<1>1. /\ e.node = d.node
      /\ \A x \in Blocks : x # b => e.data[x] = d.data[x]
      /\ e.data[b].slots = Append(d.data[b].slots, en)
  BY AddEntryFields
<1>2. b \in Blocks /\ d.data[b].slots \in Seq(Entry) /\ en \in Entry /\ d.data[b].cnt \in Nat
  BY InitialisedFields, DiskFields DEF Entry
<1>3. e.data[b].cnt = d.data[b].cnt + 1
  BY <1>2, DiskFields DEF AddEntry, WriteContent
<1> HIDE DEF e, b, en
<1>4. Initialised(e) = Initialised(d)
  BY <1>1 DEF Initialised
<1> SUFFICES ASSUME NEW i \in Initialised(d), IsDir(d, i)
             PROVE  /\ e.data[d.node[i].addr_0].cnt >= 2
                    /\ SlotsOf(e, i)[1].id # NoId
                    /\ SlotsOf(e, i)[2].id # NoId
  BY <1>1, <1>4 DEF DotsLive, IsDir, e
<1>5. /\ d.data[d.node[i].addr_0].cnt >= 2
      /\ SlotsOf(d, i)[1].id # NoId
      /\ SlotsOf(d, i)[2].id # NoId
      /\ Len(SlotsOf(d, i)) >= 2
  BY DEF DotsLive, IsTree, HasDots
<1>6. CASE d.node[i].addr_0 = b
  <2>1. SlotsOf(d, i) = d.data[b].slots /\ SlotsOf(e, i) = Append(d.data[b].slots, en)
    BY <1>1, <1>6 DEF SlotsOf
  <2>2. Len(d.data[b].slots) \in Nat
    BY <1>2, LenProperties
  <2>3. SlotsOf(e, i)[1] = SlotsOf(d, i)[1] /\ SlotsOf(e, i)[2] = SlotsOf(d, i)[2]
    BY <1>2, <1>5, <2>1, <2>2, AppendProperties
  <2> QED
    BY <1>2, <1>3, <1>5, <1>6, <2>3
<1>7. CASE d.node[i].addr_0 # b
  BY <1>1, <1>5, <1>7, InitialisedFields DEF SlotsOf
<1> QED
  BY <1>6, <1>7

LEMMA NewDirDots ==
    ASSUME NEW d \in Disk, DiskInv(d), DotsLive(d), NEW i \in Initialised(d),
           NEW parent \in Initialised(d), SlotsOf(d, i) = <<>>
    PROVE  DotsLive(NewDir(d, i, parent))
<1> DEFINE e == NewDir(d, i, parent)
           b == d.node[i].addr_0
<1>1. /\ \A j \in Initialised(d) : j # i =>
            e.node[j] = d.node[j] /\ SlotsOf(e, j) = SlotsOf(d, j)
      /\ SlotsOf(e, i)[1].id = i /\ SlotsOf(e, i)[2].id = parent
  BY NewDirWrites
<1>2. Initialised(e) = Initialised(d)
  BY NewDirInv DEF SlotsOf
<1>3. i \in Ids /\ parent \in Ids /\ i # NoId /\ parent # NoId
  BY InitialisedFields DEF Inodes
<1>4. /\ e.node[i] = [type |-> Directory, addr_0 |-> b]
      /\ e.data[b].cnt = 2
      /\ \A x \in Blocks \ {b} : e.data[x] = d.data[x]
  BY <1>3, NewDirCounts
<1> HIDE DEF e, b
<1>5. ASSUME NEW j \in Initialised(d), IsDir(e, j)
      PROVE  /\ e.data[e.node[j].addr_0].cnt >= 2
             /\ SlotsOf(e, j)[1].id # NoId
             /\ SlotsOf(e, j)[2].id # NoId
  <2>1. CASE j = i
    BY <1>1, <1>3, <1>4, <2>1
  <2>2. CASE j # i
    <3>1. e.node[j] = d.node[j] /\ SlotsOf(e, j) = SlotsOf(d, j) /\ IsDir(d, j)
      BY <1>1, <1>5, <2>2 DEF IsDir
    <3>2. d.node[j].addr_0 \in Blocks \ {b}
      BY <2>2, InitialisedFields DEF DiskInv, BlocksDistinct, b
    <3>3. e.data[e.node[j].addr_0] = d.data[d.node[j].addr_0]
      BY <1>4, <3>1, <3>2
    <3> QED
      BY <3>1, <3>3 DEF DotsLive
  <2> QED
    BY <2>1, <2>2
<1> QED
  BY <1>2, <1>5 DEF DotsLive, e

LEMMA FormattedDots == DotsLive(ZeroDisk) /\ DotsLive(FormattedDisk)
<1> DEFINE c == CreateFile(ZeroDisk)
<1>1. DotsLive(ZeroDisk)
  BY ZeroDiskInv DEF DotsLive
<1>2. c.disk \in Disk /\ c.id = Root /\ c.id # NoId
  BY ZeroDiskType, CreateFileType, CreateRoot
<1>3. /\ DiskInv(c.disk)
      /\ c.id \in Initialised(c.disk)
      /\ SlotsOf(c.disk, c.id) = <<>>
  BY <1>2, ZeroDiskType, ZeroDiskInv, CreateFileInv DEF SlotsOf
<1>4. DotsLive(c.disk)
  BY <1>1, ZeroDiskType, ZeroDiskInv, CreateFileDots
<1> HIDE DEF c
<1>5. DotsLive(NewDir(c.disk, c.id, Root))
  BY <1>2, <1>3, <1>4, NewDirDots
<1> QED
  BY <1>1, <1>5 DEF FormattedDisk, c

\* rm of a name other than "." and ".." leaves both, and counts them still.
LEMMA DeleteEntryDots ==
    ASSUME NEW d \in Disk, DiskInv(d), IsTree(d), DotsLive(d), NEW dir \in Initialised(d),
           NEW n, n \notin {".", ".."}, NEW k \in Match(d.data[d.node[dir].addr_0], n)
    PROVE  DotsLive(DeleteEntry(d, dir, k))
<1> DEFINE e == DeleteEntry(d, dir, k)
           b == d.node[dir].addr_0
<1>1. e.node = d.node /\ \A x \in Blocks : x # b => e.data[x] = d.data[x]
  BY DeleteEntryFields, ZenonT(60)
<1>2. b \in Blocks /\ d.data[b].slots \in Seq(Entry) /\ d.data[b].cnt \in Nat
  BY InitialisedFields, DiskFields
<1>3. e.data[b].cnt = d.data[b].cnt - 1
  BY <1>2, DiskFields DEF DeleteEntry, WriteContent
<1>4. \A j : j # k => e.data[b].slots[j] = d.data[b].slots[j]
  BY <1>2, DiskFields DEF DeleteEntry, WriteContent
<1> HIDE DEF e
<1>5. k \in Nat /\ k <= d.data[b].cnt /\ d.data[b].slots[k].name = n /\ k # 0
  <2> DEFINE c == d.data[b]
  <2>1. k \in Match(c, n) /\ c.slots \in Seq(Entry) /\ c.cnt \in Nat
    BY <1>2
  <2> HIDE DEF c
  <2>2. k \in 1 .. Len(c.slots) /\ Len(c.slots) \in Nat /\ k <= c.cnt /\ c.slots[k].name = n
    BY <2>1, LenProperties DEF Match, Scanned
  <2> QED
    BY <2>2 DEF c
<1> HIDE DEF b
<1>6. Initialised(e) = Initialised(d)
  BY <1>1 DEF Initialised
<1> SUFFICES ASSUME NEW i \in Initialised(d), IsDir(d, i)
             PROVE  /\ e.data[d.node[i].addr_0].cnt >= 2
                    /\ SlotsOf(e, i)[1].id # NoId
                    /\ SlotsOf(e, i)[2].id # NoId
  BY <1>1, <1>6 DEF DotsLive, IsDir, e
<1>7. /\ d.data[d.node[i].addr_0].cnt >= 2
      /\ SlotsOf(d, i)[1].id # NoId
      /\ SlotsOf(d, i)[2].id # NoId
      /\ SlotsOf(d, i)[1].name = "."
      /\ SlotsOf(d, i)[2].name = ".."
  BY DEF DotsLive, IsTree, HasDots
<1>8. CASE d.node[i].addr_0 = b
  <2>1. SlotsOf(d, i) = d.data[b].slots /\ SlotsOf(e, i) = e.data[b].slots
    BY <1>1, <1>8 DEF SlotsOf
  <2>2. k # 1 /\ k # 2
    BY <1>5, <1>7, <2>1
  <2>3. SlotsOf(e, i)[1] = SlotsOf(d, i)[1] /\ SlotsOf(e, i)[2] = SlotsOf(d, i)[2]
    BY <1>4, <2>1, <2>2
  <2> QED
    BY <1>2, <1>3, <1>5, <1>7, <1>8, <2>2, <2>3
<1>9. CASE d.node[i].addr_0 # b
  BY <1>1, <1>7, <1>9, InitialisedFields DEF SlotsOf
<1> QED
  BY <1>8, <1>9

\* No command of the user removes "." or "..".
KeepsDots == RmTarget \cap {".", ".."} = {}

LEMMA NextDots ==
    ASSUME KeepsDots, TypeOK, Inv, IsTree(disk), DotsLive(disk), [Next]_vars
    PROVE  DotsLive(disk')
<1>1. disk \in Disk /\ DiskInv(disk)
  BY DEF TypeOK, Inv
<1> DEFINE c == CreateFile(disk)
<1>2. c.disk \in Disk /\ DiskInv(c.disk) /\ IsTree(c.disk) /\ DotsLive(c.disk) /\ c.id \in Ids
  BY <1>1, CreateFileType, CreateFileInv, CreateFileTree, CreateFileDots
<1>3. CASE Mkfs
  BY <1>3, FormattedDots DEF Mkfs
<1>4. CASE OpenNew
  <2>1. /\ cwd \in Initialised(disk)
        /\ job.file \in Name
        /\ disk' = AddEntry(c.disk, c.id, job.file, cwd)
    BY <1>4, JobType DEF TypeOK, Inv, OpenNew, Arrived, Busy
  <2>2. cwd \in Initialised(c.disk)
    BY <1>1, <2>1, CreateFileInv
  <2> HIDE DEF c
  <2> QED
    BY <1>2, <2>1, <2>2, AddEntryDots
<1>5. CASE Mkdir
  <2> DEFINE d == NewDir(c.disk, c.id, cwd)
  <2>1. /\ cwd \in Initialised(disk)
        /\ job.file \in Name
        /\ c.id # NoId
        /\ disk' = AddEntry(d, c.id, job.file, cwd)
    BY <1>5, JobType DEF TypeOK, Inv, Mkdir, Arrived, Busy
  <2>2. /\ cwd \in Initialised(c.disk)
        /\ c.id \in Initialised(c.disk)
        /\ SlotsOf(c.disk, c.id) = <<>>
    BY <1>1, <2>1, CreateFileInv DEF SlotsOf
  <2>3. Unnamed(c.disk, c.id)
    BY <1>1, <2>1, CreateFileTree
  <2> HIDE DEF c
  <2>4. d \in Disk /\ DiskInv(d) /\ Initialised(d) = Initialised(c.disk)
    BY <1>2, <2>2, InitialisedFields, NewDirType, NewDirInv DEF SlotsOf
  <2>5. IsTree(d) /\ DotsLive(d)
    BY <1>2, <2>2, <2>3, NewDirTree, NewDirDots
  <2> HIDE DEF d
  <2> QED
    BY <1>2, <2>1, <2>2, <2>4, <2>5, AddEntryDots
<1>6. CASE MkdirFailed
  <2>1. disk' = NewDirFailed(c.disk)
    BY <1>6 DEF MkdirFailed
  <2> HIDE DEF c
  <2> DEFINE e == NewDirFailed(c.disk)
  <2>2. /\ e.data = c.disk.data
        /\ \A j \in Inodes : e.node[j] = c.disk.node[j]
    BY <1>2, DiskFields DEF NewDirFailed, WriteInode, TakeBlock, Ids, Inodes
  <2>3. Initialised(e) = Initialised(c.disk)
    BY <1>2, NewDirFailedInv
  <2> HIDE DEF e
  <2>4. \A i \in Initialised(e) : e.node[i] = c.disk.node[i]
    BY <1>2, <2>2, <2>3, InitialisedFields
  <2>5. DotsLive(e)
    BY <1>2, <2>2, <2>3, <2>4 DEF DotsLive, IsDir, SlotsOf
  <2> QED
    BY <2>1, <2>5 DEF e
<1>7. ASSUME NEW n \in RmTarget, Rm(n) PROVE DotsLive(disk')
  <2>1. PICK k \in Match(Here, n) : disk' = DeleteEntry(disk, cwd, k)
    BY <1>7, RmDisk
  <2>2. cwd \in Initialised(disk) /\ n \notin {".", ".."}
    BY <1>7 DEF Inv, Rm, Ready, Idle, Adrift, KeepsDots
  <2>3. Here = disk.data[disk.node[cwd].addr_0]
    BY <2>2 DEF Here, ContentOf, Initialised
  <2> QED
    BY <1>1, <2>1, <2>2, <2>3, DeleteEntryDots
<1>8. CASE disk' = disk
  BY <1>8
<1> QED
  BY <1>3, <1>4, <1>5, <1>6, <1>7, <1>8, DiskSteps

\* A table leads to the directory itself and to its parent.
HasBothDots(t) == "." \in DOMAIN t /\ ".." \in DOMAIN t

\* A load misses no name of its directory, and not "." and ".." in particular; it
\* may add what it reads behind the end.
LEMMA LoadMissesNothing ==
    ASSUME NEW d \in Disk, IsTree(d), DotsLive(d), NEW i \in Inodes, NEW g,
           NEW r \in Loads(d, g, i), r.up, ~r.lost
    PROVE  HasBothDots(r.table) /\ DOMAIN TableOf(ContentOf(d, i)) \subseteq DOMAIN r.table
<1> DEFINE c == ContentOf(d, i)
           t == TableOf(c)
           surplus == c.cnt - Cardinality(Live(c))
<1>1. r \notin {Crashed, Lost}
  BY DEF Crashed, Lost
<1>2. i \in Initialised(d) /\ d.node[i].type # RegularFile
  BY <1>1 DEF Loads
<1>3. IsDir(d, i)
  BY <1>2, DiskFields DEF Initialised, IsDir, InodeT, Ids
<1>4. c = d.data[d.node[i].addr_0] /\ c \in Content /\ c.slots = SlotsOf(d, i)
  BY <1>2, InitialisedFields DEF ContentOf, SlotsOf, Initialised
<1>5. \E u \in {t} \cup Beyond(t, surplus) : r = Loaded(u)
  BY <1>1, <1>2 DEF Loads
<1>6. DOMAIN t \subseteq DOMAIN r.table
  <2> HIDE DEF t, surplus
  <2>1. PICK u \in {t} \cup Beyond(t, surplus) : r = Loaded(u)
    BY <1>5
  <2>2. r.table = u
    BY <2>1 DEF Loaded
  <2>3. ASSUME u \in Beyond(t, surplus) PROVE DOMAIN t \subseteq DOMAIN u
    BY <2>3 DEF Beyond
  <2> QED
    BY <2>1, <2>2, <2>3
<1>7. /\ c.cnt >= 2 /\ c.cnt \in Nat
      /\ c.slots[1].id # NoId /\ c.slots[2].id # NoId
      /\ c.slots[1].name = "." /\ c.slots[2].name = ".."
      /\ Len(c.slots) >= 2
      /\ Len(c.slots) \in Nat
      /\ DOMAIN c.slots = 1 .. Len(c.slots)
  BY <1>2, <1>3, <1>4, LenProperties DEF DotsLive, IsTree, HasDots, Content
<1> HIDE DEF c
<1>8. 1 \in Live(c) /\ 2 \in Live(c)
  BY <1>7 DEF Live
<1>9. 1 \in Visible(c) /\ 2 \in Visible(c)
  <2>1. {j \in Live(c) : j <= 1} = {1}
    BY <1>7, <1>8 DEF Live
  <2>2. {j \in Live(c) : j <= 2} = {1, 2}
    BY <1>7, <1>8 DEF Live
  <2>3. IsFiniteSet({1}) /\ Cardinality({1}) = 1
    BY FS_Singleton
  <2>4. Cardinality({1, 2}) = 2
    <3>1. 2 \notin {1} /\ {1} \cup {2} = {1, 2}
      OBVIOUS
    <3>2. Cardinality({1} \cup {2}) = (IF 2 \in {1} THEN Cardinality({1}) ELSE Cardinality({1}) + 1)
      BY <2>3, FS_AddElement
    <3> QED
      BY <2>3, <3>1, <3>2
  <2>5. 1 \in Visible(c)
    <3>1. Cardinality({j \in Live(c) : j <= 1}) = 1
      BY <2>1, <2>3, Zenon
    <3>2. 1 <= c.cnt
      BY <1>7
    <3> QED
      BY <1>8, <3>1, <3>2 DEF Visible
  <2>6. 2 \in Visible(c)
    <3>1. Cardinality({j \in Live(c) : j <= 2}) = 2 /\ 2 <= c.cnt
      BY <1>7, <2>2, <2>4
    <3> QED
      BY <1>8, <3>1 DEF Visible
  <2> QED
    BY <2>5, <2>6
<1>10. "." \in DOMAIN t /\ ".." \in DOMAIN t
  BY <1>7, <1>9 DEF TableOf
<1> HIDE DEF t
<1> QED
  BY <1>6, <1>10 DEF HasBothDots, c, t

\* The directories of the shells are a tree, unless mkfs has been typed below one
\* that waits; and "." and ".." stay in them.
ShellsTree == reformatted \/ IsTree(disk)
ShellsDots == reformatted \/ DotsLive(disk)

\* What holds of the disk of a shell holds of the disk of all the shells.
LEMMA ShellsDisk ==
    ASSUME ShellsTypeOK, ShellsInv, [ShellsNext]_shellsVars, ~reformatted'
    PROVE  /\ ~reformatted /\ TypeOK /\ Inv
           /\ [Next]_vars \/ disk' = disk
<1>1. ~reformatted
  BY DEF ShellsNext, StartFirst, Resume, Work, BeginRun, RunMissing, RunBinary, RunShell,
         RunFound, Exported, ShellsTypeOK, shellsVars
<1>2. [Next]_vars \/ disk' = disk
  BY DEF ShellsNext, StartFirst, Work, Next, Resume, BeginRun, Begin, RunMissing,
         RunBinary, RunShell, RunFound, Exported, ExportFound, ExportMissing, shellsVars, vars
<1> QED
  BY <1>1, <1>2 DEF ShellsTypeOK, ShellsInv

LEMMA InitShellsTree == ShellsInit => ShellsTree
BY FormattedDiskTree DEF ShellsInit, Init, ShellsTree

LEMMA NextShellsTree ==
    ShellsTypeOK /\ ShellsInv /\ ShellsTree /\ [ShellsNext]_shellsVars => ShellsTree'
BY ShellsDisk, TreeKept DEF ShellsTree

LEMMA ShellsTreeCorrect == ShellsSpec => []ShellsTree
BY InitShellsTree, NextShellsTree, ShellsTypeCorrect, ShellsInvCorrect, PTL DEF ShellsSpec

LEMMA ShellsDotsCorrect == KeepsDots => (ShellsSpec => []ShellsDots)
<1> SUFFICES ASSUME KeepsDots PROVE ShellsSpec => []ShellsDots
  OBVIOUS
<1>1. ShellsInit => ShellsDots
  BY FormattedDots DEF ShellsInit, Init, ShellsDots
<1>2. ShellsTypeOK /\ ShellsInv /\ ShellsTree /\ ShellsDots /\ [ShellsNext]_shellsVars
          => ShellsDots'
  BY ShellsDisk, NextDots DEF ShellsTree, ShellsDots
<1> QED
  BY <1>1, <1>2, ShellsTypeCorrect, ShellsInvCorrect, ShellsTreeCorrect, PTL DEF ShellsSpec

-----------------------------------------------------------------------------
(* No second entry of a name *)

\* A path that makes cd load a directory before its first component is looked
\* up, or whose first component is in every table.
Reloads(p) == IF p.dirs = <<>> THEN ~p.abs ELSE p.abs \/ Head(p.dirs) \in {".", ".."}

\* The table has every name of the current directory.
MissesNothing == DOMAIN TableAt(cwd) \subseteq DOMAIN cwd_table

\* An open that has loaded no directory yet has "." or ".." in front of it.
OpenReloads == Busy /\ job.op = "open" =>
                  \/ job.rest # <<>> /\ Head(job.rest) \in {".", ".."}
                  \/ MissesNothing

\* Every shell has "." and ".." in its table, and before open looks for the name
\* it has been given the directory is loaded again.
TablesReload == /\ up /\ job # Adrift => HasBothDots(cwd_table)
                /\ \A k \in DOMAIN waiting : HasBothDots(waiting[k].cwd_table)
                /\ OpenReloads

ShellsReload == reformatted \/ TablesReload

LEMMA LoadTableJob ==
    ASSUME NEW d, NEW i, NEW j, LoadTable(d, i, j)
    PROVE  job' \in {j, Adrift}
BY DEF LoadTable

\* After the start of a command the job is that command, or the shell is adrift.
LEMMA BeginJob ==
    ASSUME NEW p, NEW op, NEW n, NEW flag, Begin(p, op, n, flag), job' # Adrift
    PROVE  up /\ job = Idle /\ job'.op = op
<1> DEFINE j == [op |-> op, path |-> p, rest |-> p.dirs, saved |-> cwd, file |-> n, flag |-> flag]
<1>1. up /\ job = Idle /\ (LoadTable(disk, Root, j) \/ job' = j)
  BY DEF Begin, Ready
<1>2. j.op = op
  OBVIOUS
<1> HIDE DEF j
<1>3. job' = j
  BY <1>1, LoadTableJob
<1> QED
  BY <1>1, <1>2, <1>3

LEMMA LoadReloads ==
    ASSUME TypeOK', IsTree(disk'), DotsLive(disk'), Reloaded
    PROVE  HasBothDots(cwd_table') /\ MissesNothing'
<1>1. disk' \in Disk /\ cwd' \in Inodes
  BY DEF TypeOK
<1>2. PICK r \in Loads(disk', good', cwd') : r.up /\ ~r.lost /\ cwd_table' = r.table
  BY DEF Reloaded
<1>3. HasBothDots(r.table) /\ DOMAIN TableOf(ContentOf(disk', cwd')) \subseteq DOMAIN r.table
  BY <1>1, <1>2, LoadMissesNothing
<1> QED
  BY <1>2, <1>3 DEF MissesNothing, TableAt, DirOf

\* The table of the shell at work stays one that has "." and "..".
LEMMA NextReloads ==
    ASSUME TypeOK, TypeOK', Inv, Inv', [Next]_vars, IsTree(disk'), DotsLive(disk'),
           \A p \in Path : Reloads(p), up /\ job # Adrift => HasBothDots(cwd_table),
           OpenReloads, up', job' # Adrift
    PROVE  HasBothDots(cwd_table') /\ OpenReloads'
<1>1. CASE Reloaded
  BY <1>1, LoadReloads DEF OpenReloads
<1>2. CASE MkdirFailed
  <2>1. up /\ cwd_table' = cwd_table /\ job' = Idle
    BY <1>2 DEF MkdirFailed, Arrived, Busy
  <2>2. job # Adrift
    BY <1>2 DEF MkdirFailed, Arrived, Busy
  <2> QED
    BY <2>1, <2>2 DEF OpenReloads, Busy
<1>3. CASE up /\ job # Adrift /\ UNCHANGED <<disk, good, cwd, cwd_table>>
  <2>1. HasBothDots(cwd_table')
    BY <1>3
  <2>2. MissesNothing => MissesNothing'
    BY <1>3 DEF MissesNothing, TableAt, DirOf
  <2>3. CASE job' = job
    BY <1>3, <2>2, <2>3 DEF OpenReloads, Busy
  <2>4. CASE job' = Idle
    BY <2>1, <2>4 DEF OpenReloads, Busy
  <2>5. ASSUME NEW i, NEW j, LoadTable(disk', i, j), cwd' = i
        PROVE  HasBothDots(cwd_table') /\ OpenReloads'
    BY <1>1, <2>5 DEF LoadTable, Reloaded
  <2>6. CASE GiveUp
    <3>1. Head(job.rest) \notin {".", ".."}
      BY <1>3, <2>6 DEF GiveUp, HasBothDots
    <3>2. Busy /\ job \in Job
      BY <2>6 DEF GiveUp, Walking, Busy, TypeOK
    <3>3. job'.op = job.op
      BY <2>6, <3>2 DEF GiveUp, Job
    <3> QED
      BY <1>3, <2>1, <2>2, <3>1, <3>2, <3>3 DEF OpenReloads
  <2>7. ASSUME NEW p, NEW op, NEW n, NEW flag, Begin(p, op, n, flag), op # "open"
        PROVE  OpenReloads'
    BY <2>7, BeginJob DEF OpenReloads
  <2>8. ASSUME NEW p \in Path, NEW n \in Target, NEW flag \in Flag, BeginOpen(p, n, flag)
        PROVE  HasBothDots(cwd_table') /\ OpenReloads'
    <3> DEFINE q == ParsePath(p)
    <3>1. CASE q.abs
      BY <1>3, <2>5, <2>8, <3>1 DEF BeginOpen, Begin
    <3>2. CASE ~q.abs
      <4>1. q.dirs # <<>> /\ Head(q.dirs) \in {".", ".."}
        BY <3>2 DEF ParsePath, Reloads
      <4>2. job'.rest = q.dirs
        BY <2>8, <3>2 DEF BeginOpen, Begin
      <4> QED
        BY <2>1, <4>1, <4>2 DEF OpenReloads
    <3> QED
      BY <3>1, <3>2
  <2>9. CASE Command
    <3>1. ASSUME NEW p \in Path, BeginCd(p) PROVE OpenReloads'
      BY <2>7, <3>1 DEF BeginCd
    <3>2. ASSUME NEW p \in Path, NEW n \in Target, BeginMkdir(p, n) PROVE OpenReloads'
      BY <2>7, <3>2 DEF BeginMkdir
    <3>3. ASSUME NEW fd, Close(fd) PROVE job' = job
      BY <3>3 DEF Close
    <3>4. ASSUME NEW n, Rm(n) PROVE job' = Idle
      BY <3>4, LoadTableJob DEF Rm
    <3>5. CASE Mkfs
      BY <2>4, <3>5, LoadTableJob DEF Mkfs
    <3>6. CASE RmUndefined
      BY <2>4, <3>6 DEF RmUndefined
    <3> QED
      BY <2>1, <2>3, <2>4, <2>8, <2>9, <3>1, <3>2, <3>3, <3>4, <3>5, <3>6
         DEF Command, MkfsOnDeadStream, RmAborts
  <2>10. CASE Continue
    <3>1. CASE Descend
      <4> DEFINE i == cwd_table[Head(job.rest)]
                 j == [job EXCEPT !.rest = Tail(@)]
      <4>1. /\ LoadTable(disk, i, j) /\ disk' = disk /\ disk \in Disk
            /\ cwd' = IF i \in Inodes THEN i ELSE cwd
            /\ i \in AnyId /\ good' \in BOOLEAN
        BY <3>1 DEF Descend, TypeOK, IsTable
      <4> HIDE DEF i, j
      <4>2. i \in Inodes
        BY <4>1, LoadTableType DEF Initialised
      <4> QED
        BY <2>5, <4>1, <4>2
    <3>2. CASE OpenExisting
      BY <2>4, <3>2 DEF OpenExisting, LoadTable
    <3>3. CASE OpenNew
      BY <2>4, <3>3 DEF OpenNew, LoadTables
    <3>4. CASE Mkdir
      BY <2>4, <3>4 DEF Mkdir, LoadTables
    <3>5. CASE CreateOnDeadStream
      BY <2>4, <3>5 DEF CreateOnDeadStream
    <3> QED
      BY <2>4, <2>6, <2>10, <3>1, <3>2, <3>3, <3>4, <3>5
         DEF Continue, EndCd, OpenRefused, MkdirFailed
  <2> QED
    BY <2>3, <2>4, <2>9, <2>10 DEF Next, Start, LoadTable, Stop, vars
<1> QED
  BY <1>1, <1>2, <1>3, TableSteps

LEMMA InitReloads == ShellsInit => ShellsReload
<1> SUFFICES ASSUME ShellsInit PROVE TablesReload
  BY DEF ShellsReload
<1> QED
  BY EmptySeq DEF ShellsInit, Init, TablesReload, OpenReloads, Busy

LEMMA NextShellsReload ==
    ASSUME \A p \in Path : Reloads(p), ShellsTypeOK, ShellsTypeOK', ShellsInv, ShellsInv',
           ShellsTree', ShellsDots', ShellsReload, [ShellsNext]_shellsVars
    PROVE  ShellsReload'
<1> SUFFICES ASSUME ~reformatted' PROVE TablesReload'
  BY DEF ShellsReload
<1>1. /\ TypeOK /\ TypeOK' /\ Inv /\ Inv' /\ ~reformatted /\ TablesReload
      /\ IsTree(disk') /\ DotsLive(disk')
  BY ShellsDisk DEF ShellsTypeOK, ShellsInv, ShellsTree, ShellsDots, ShellsReload
<1>2. ASSUME [Next]_vars, waiting' = waiting PROVE TablesReload'
  BY <1>1, <1>2, NextReloads DEF TablesReload, OpenReloads, Busy
<1>3. ASSUME NEW i, NEW j, up', job' # Adrift, i = cwd',
             LoadTable(disk', i, j) \/ \E k \in Inodes : LoadTables(disk', k, i, j)
      PROVE  HasBothDots(cwd_table') /\ MissesNothing'
  BY <1>1, <1>3, LoadReloads DEF LoadTable, LoadTables, Reloaded
<1>4. CASE StartFirst \/ Work
  BY <1>2, <1>4 DEF StartFirst, Work, Next
<1>5. CASE Resume
  <2> DEFINE last == Len(waiting)
  <2>1. last \in DOMAIN waiting /\ last - 1 \in Nat /\ DOMAIN waiting = 1 .. last
    BY <1>5, WaitingType, EmptySeq DEF Resume, ShellsTypeOK
  <2>2. cwd_table' = waiting[last].cwd_table /\ waiting' = SubSeq(waiting, 1, last - 1)
    BY <1>5 DEF Resume
  <2>3. DOMAIN waiting' = 1 .. last - 1 /\ \A k \in 1 .. last - 1 : waiting'[k] = waiting[k]
    <3>1. \A k \in 1 .. last - 1 : IsMemory(waiting[k])
      BY <2>1, WaitingType
    <3> QED
      BY <2>1, <2>2, <3>1, OneWaitingLess
  <2>4. OpenReloads'
    BY <1>5 DEF Resume, OpenReloads, Busy
  <2> HIDE DEF last
  <2> QED
    BY <1>1, <2>1, <2>2, <2>3, <2>4 DEF TablesReload
<1>6. ASSUME NEW p \in Path, NEW n \in Target, BeginRun(p, n) PROVE TablesReload'
  <2>1. /\ disk' = disk /\ waiting' = waiting /\ up /\ job # Adrift
        /\ job' = Adrift \/ job'.op = "run"
    BY <1>6, BeginJob DEF BeginRun, Begin, Ready, Idle, Adrift
  <2>2. up' /\ job' # Adrift => HasBothDots(cwd_table')
    BY <1>1, <1>3, <1>6, <2>1 DEF BeginRun, Begin, TablesReload
  <2> QED
    BY <1>1, <2>1, <2>2 DEF TablesReload, OpenReloads, Busy
<1>7. CASE RunMissing
  BY <1>1, <1>7 DEF RunMissing, Arrived, Busy, TablesReload, OpenReloads
<1>8. CASE RunFound
  <2> DEFINE j == [job EXCEPT !.op = "export", !.rest = job.path.dirs]
  <2>1. /\ disk' = disk /\ waiting' = waiting
        /\ \/ cwd' = Root /\ LoadTables(disk, job.saved, Root, j)
           \/ cwd' = job.saved /\ LoadTable(disk, job.saved, j)
        /\ job \in Job /\ job.saved \in Inodes
    BY <1>1, <1>8, JobType DEF RunFound, Arrived, Busy, TypeOK
  <2>2. j.op = "export"
    BY <2>1 DEF Job
  <2> HIDE DEF j
  <2>3. job' \in {j, Adrift}
    BY <2>1 DEF LoadTable, LoadTables
  <2>4. up' /\ job' # Adrift => HasBothDots(cwd_table')
    BY <1>3, <2>1
  <2> QED
    BY <1>1, <2>1, <2>2, <2>3, <2>4 DEF TablesReload, OpenReloads, Busy
<1>9. ASSUME Exported
      PROVE  (up' /\ job' # Adrift => HasBothDots(cwd_table')) /\ OpenReloads'
  <2>1. CASE ExportFound
    <3>1. disk' = disk /\ job' \in {Idle, Adrift} /\ LoadTable(disk, cwd', Idle)
      BY <2>1 DEF ExportFound, LoadTable
    <3> QED
      BY <1>3, <3>1 DEF OpenReloads, Busy
  <2>2. CASE ExportMissing
    BY <1>1, <2>2 DEF ExportMissing, Arrived, Busy, TablesReload, OpenReloads
  <2> QED
    BY <1>9, <2>1, <2>2 DEF Exported
<1>12. CASE RunBinary
  BY <1>1, <1>9, <1>12 DEF RunBinary, TablesReload
<1>10. CASE RunShell
  <2>1. waiting' = Append(waiting, Memory') /\ up' /\ job' # Adrift
    BY <1>10 DEF RunShell, Idle, Adrift
  <2>2. HasBothDots(cwd_table') /\ OpenReloads'
    BY <1>9, <1>10, <2>1 DEF RunShell
  <2>3. HasBothDots(Memory'.cwd_table)
    BY <2>2 DEF Memory
  <2>4. IsMemory(Memory')
    BY <1>1, MemoryType DEF ShellsTypeOK
  <2>5. /\ Len(waiting') = Len(waiting) + 1
        /\ \A k \in 1 .. Len(waiting) : waiting'[k] = waiting[k]
        /\ waiting'[Len(waiting) + 1] = Memory'
        /\ DOMAIN waiting' = 1 .. Len(waiting')
    BY <2>1, <2>4, OneWaitingMore, LenProperties DEF ShellsTypeOK
  <2>6. DOMAIN waiting = 1 .. Len(waiting) /\ Len(waiting) \in Nat
    BY WaitingType
  <2>7. \A k \in DOMAIN waiting' : HasBothDots(waiting'[k].cwd_table)
    BY <1>1, <2>3, <2>5, <2>6 DEF TablesReload
  <2> QED
    BY <2>2, <2>7 DEF TablesReload
<1>11. CASE UNCHANGED shellsVars
  BY <1>1, <1>2, <1>11 DEF shellsVars
<1> QED
  BY <1>4, <1>5, <1>6, <1>7, <1>8, <1>10, <1>11, <1>12 DEF ShellsNext

\* Where no user removes "." or "..", and no path leaves the old table in use, a
\* shell that has waited does not enter a second file under a name that a shell
\* below it has entered: open has loaded the directory, and misses no name in it.
THEOREM NoSecondEntryCorrect ==
    KeepsDots /\ (\A p \in Path : Reloads(p)) => (ShellsSpec => NoSecondEntry)
<1> SUFFICES ASSUME KeepsDots, \A p \in Path : Reloads(p) PROVE ShellsSpec => NoSecondEntry
  OBVIOUS
<1> DEFINE NoSecond == ~reformatted /\ OpenNew => job.file \notin DOMAIN TableAt(cwd)
<1>1. ASSUME ShellsTypeOK, ShellsTypeOK', ShellsInv, ShellsInv', ShellsTree', ShellsDots',
             ShellsReload, [ShellsNext]_shellsVars
      PROVE  ShellsReload'
  BY <1>1, NextShellsReload
<1>2. ShellsTypeOK /\ ShellsTypeOK' /\ ShellsInv /\ ShellsInv' /\ ShellsTree' /\ ShellsDots'
          /\ ShellsReload /\ [ShellsNext]_shellsVars => ShellsReload'
  BY <1>1
<1>3. ShellsReload => NoSecond
  BY DEF ShellsReload, TablesReload, OpenReloads, OpenNew, Arrived, Busy, Found, MissesNothing
<1>4. ShellsReload /\ [ShellsNext]_shellsVars => [NoSecond]_shellsVars
  BY <1>3
<1>5. ShellsSpec => []ShellsReload
  BY <1>2, InitReloads, ShellsTypeCorrect, ShellsInvCorrect, ShellsTreeCorrect,
     ShellsDotsCorrect, PTL DEF ShellsSpec
<1> HIDE DEF NoSecond
<1>6. ShellsSpec => [][NoSecond]_shellsVars
  BY <1>4, <1>5, PTL DEF ShellsSpec
<1> QED
  BY <1>6 DEF NoSecondEntry, NoSecond

-----------------------------------------------------------------------------
(* What export exports *)

\* The table that export looks in has been loaded since it was called.
ExportLoaded ==
    Busy /\ job.op = "export" /\ InRange(disk, cwd) => cwd_table = TableOf(DirOf(cwd))

LEMMA NextExportLoaded ==
    ShellsTypeOK /\ ExportLoaded /\ [ShellsNext]_shellsVars => ExportLoaded'
<1> SUFFICES ASSUME ShellsTypeOK, ExportLoaded, [ShellsNext]_shellsVars,
                    Busy', job'.op = "export", InRange(disk', cwd')
             PROVE  cwd_table' = TableOf(ContentOf(disk', cwd'))
  BY DEF ExportLoaded, DirOf
<1>1. TypeOK /\ up' /\ job' \notin {Idle, Adrift}
  BY DEF ShellsTypeOK, Busy
<1>2. ASSUME NEW i, NEW j, i = cwd',
             LoadTable(disk', i, j) \/ \E k \in Inodes : LoadTables(disk', k, i, j)
      PROVE  cwd_table' = TableOf(ContentOf(disk', cwd'))
  <2>1. PICK r \in Loads(disk', good', i) : r.up /\ ~r.lost /\ cwd_table' = r.table
    BY <1>1, <1>2 DEF LoadTable, LoadTables
  <2> QED
    BY <1>2, <2>1, LoadFresh
<1>3. CASE RunFound
  <2>1. job.saved \in Inodes /\ disk' = disk
    BY <1>1, <1>3, JobType DEF RunFound, Arrived, Busy, TypeOK
  <2> QED
    BY <1>2, <1>3, <2>1 DEF RunFound
<1>4. CASE Descend
  <2> DEFINE i == cwd_table[Head(job.rest)]
             j == [job EXCEPT !.rest = Tail(@)]
  <2>1. /\ LoadTable(disk, i, j) /\ disk' = disk /\ disk \in Disk
        /\ cwd' = IF i \in Inodes THEN i ELSE cwd
        /\ i \in AnyId /\ good' \in BOOLEAN
    BY <1>1, <1>4 DEF Descend, TypeOK, IsTable
  <2> HIDE DEF i, j
  <2>2. i \in Inodes
    BY <1>1, <2>1, LoadTableType DEF Initialised
  <2> QED
    BY <1>2, <2>1, <2>2
<1>5. CASE GiveUp
  <2>1. Busy /\ job \in Job /\ job'.op = job.op /\ UNCHANGED <<disk, cwd, cwd_table>>
    BY <1>1, <1>5 DEF GiveUp, Walking, Busy, TypeOK, Job
  <2> QED
    BY <2>1 DEF ExportLoaded, DirOf
<1>6. ASSUME NEW p, NEW op, NEW n, NEW flag, Begin(p, op, n, flag), op # "export" PROVE FALSE
  BY <1>1, <1>6, BeginJob
<1>7. ASSUME NEW i, LoadTable(disk', i, Idle) PROVE FALSE
  BY <1>1, <1>7 DEF LoadTable
<1>8. ~(OpenNew \/ Mkdir)
  BY <1>1 DEF OpenNew, Mkdir, LoadTables
<1>9. ASSUME NEW n, Rm(n) PROVE FALSE
  BY <1>1, <1>9 DEF Rm, LoadTable
<1>11. CASE Command
  BY <1>1, <1>6, <1>7, <1>9, <1>11
     DEF Command, BeginCd, BeginOpen, BeginMkdir, Mkfs, MkfsOnDeadStream, Close, RmAborts,
         RmUndefined, Ready
<1>12. CASE Continue
  BY <1>1, <1>4, <1>5, <1>7, <1>8, <1>12
     DEF Continue, EndCd, OpenExisting, OpenRefused, MkdirFailed, CreateOnDeadStream
<1>13. CASE StartFirst \/ Stop \/ Resume \/ RunMissing
  BY <1>1, <1>7, <1>13 DEF StartFirst, Start, Stop, Resume, RunMissing
<1>14. ~Exported
  BY <1>1, <1>7 DEF Exported, ExportFound, ExportMissing
<1>15. ASSUME NEW p \in Path, NEW n \in Target, BeginRun(p, n) PROVE FALSE
  BY <1>6, <1>15 DEF BeginRun
<1>16. CASE UNCHANGED shellsVars
  BY <1>16 DEF shellsVars, vars, ExportLoaded, DirOf, Busy
<1> QED
  BY <1>3, <1>11, <1>12, <1>13, <1>14, <1>15, <1>16
     DEF ShellsNext, Work, RunBinary, RunShell

\* The binary that is exported and run is the one the directory names when
\* export looks it up, whatever table parseCmd has found it in before.
THEOREM ExportCorrect == ShellsSpec => ExportIsCurrent
<1> DEFINE Current == ExportFound /\ InRange(disk, cwd) =>
                         /\ job.file \in DOMAIN TableAt(cwd)
                         /\ cwd_table[job.file] = TableAt(cwd)[job.file]
<1>1. ShellsInit => ExportLoaded
  BY DEF ShellsInit, Init, ExportLoaded, Busy
<1>2. ExportLoaded => Current
  BY DEF ExportLoaded, ExportFound, Arrived, Found, TableAt
<1>3. ExportLoaded /\ [ShellsNext]_shellsVars => [Current]_shellsVars
  BY <1>2
<1> QED
  BY <1>1, <1>3, NextExportLoaded, ShellsTypeCorrect, PTL DEF ShellsSpec, ExportIsCurrent

-----------------------------------------------------------------------------
(* tree *)

\* The inodes that the calls in w have yet to print.
Pending(w) == UNION {Range(w[k]) : k \in DOMAIN w}

\* No inode is to be printed twice.
Apart(w) ==
    \A k, l \in DOMAIN w : \A m \in DOMAIN w[k], n \in DOMAIN w[l] :
        w[k][m] = w[l][n] => k = l /\ m = n

\* The directories tree_inner has been called for.
Entered == Directories \cap ({cwd} \cup Range(shown))

\* What has been printed and what is yet to be are two sets without repetition,
\* together the entries of the directories that tree has gone into, and all of it
\* is below the current directory.
WalkFits ==
    /\ cwd \in Directories
    /\ IsInjective(shown)
    /\ Range(shown) \cap Pending(walk) = {}
    /\ Apart(walk)
    /\ Range(shown) \cup Pending(walk) = UNION {ListedIn(i) : i \in Entered}
    /\ \A S \in SUBSET Inodes :
          cwd \in S /\ ClosedByNames(S) => Range(shown) \cup Pending(walk) \subseteq S

\* Of a tree that is being printed, unless mkfs has been typed below a shell that
\* waits, or a counter is above its entries.
WalkInv == walk = <<>> \/ reformatted \/ ~NoOverrun \/ WalkFits

\* The tables of the names that are yet to be printed.
Tables == UNION {[N -> AnyId] : N \in SUBSET Name}

\* The calls that are left when the innermost one returns.
LEMMA FrontCalls ==
    ASSUME NEW w \in Seq(Tables), w # <<>>
    PROVE  /\ Len(w) \in Nat \ {0}
           /\ DOMAIN w = 1 .. Len(w)
           /\ Last(w) \in Tables
           /\ Front(w) \in Seq(Tables)
           /\ DOMAIN Front(w) = 1 .. Len(w) - 1
           /\ Len(Front(w)) = Len(w) - 1
           /\ \A k \in 1 .. Len(w) - 1 : Front(w)[k] = w[k]
<1> DEFINE T == Tables
<1>1. w \in Seq(T)
  OBVIOUS
<1> HIDE DEF T
<1>2. Len(w) \in Nat /\ DOMAIN w = 1 .. Len(w) /\ Len(w) # 0
  BY <1>1, LenProperties, EmptySeq
<1>3. \A k \in 1 .. Len(w) : w[k] \in T
  BY <1>1, ElementOfSeq
<1> DEFINE n == Len(w) - 1
<1>4. n \in Nat /\ n - 1 + 1 = n /\ \A k \in 1 .. n : 1 + k - 1 = k
  BY <1>2
<1>5. /\ Front(w) \in Seq(T)
      /\ Len(Front(w)) = n
      /\ \A k \in 1 .. n : Front(w)[k] = w[k]
  <2>1. \A k \in 1 .. n : w[k] \in T
    BY <1>2, <1>3
  <2>2. /\ SubSeq(w, 1, n) \in Seq(T)
        /\ Len(SubSeq(w, 1, n)) = (IF 1 <= n THEN n - 1 + 1 ELSE 0)
        /\ \A k \in 1 .. n - 1 + 1 : SubSeq(w, 1, n)[k] = w[1 + k - 1]
    <3> HIDE DEF n
    <3> QED
      BY <1>4, <2>1, SubSeqProperties
  <2> QED
    BY <1>4, <2>2 DEF Front
<1>6. DOMAIN Front(w) = 1 .. n
  BY <1>5, LenProperties
<1>7. Last(w) \in T
  BY <1>2, <1>3 DEF Last
<1> QED
  BY <1>2, <1>5, <1>6, <1>7 DEF T

\* One call more.
LEMMA AppendCalls ==
    ASSUME NEW w \in Seq(Tables), NEW t \in Tables
    PROVE  /\ Append(w, t) \in Seq(Tables)
           /\ DOMAIN w = 1 .. Len(w)
           /\ Len(w) \in Nat
           /\ DOMAIN Append(w, t) = 1 .. Len(w) + 1
           /\ \A k \in 1 .. Len(w) : Append(w, t)[k] = w[k]
           /\ Append(w, t)[Len(w) + 1] = t
<1> DEFINE T == Tables
<1> HIDE DEF T
<1>1. w \in Seq(T) /\ t \in T
  BY DEF T
<1> QED
  BY <1>1, AppendProperties, LenProperties DEF T

\* The innermost call has printed one name.
LEMMA RestCalls ==
    ASSUME walk \in Seq(Tables), walk # <<>>, NEW n \in DOMAIN Last(walk)
    PROVE  /\ Rest(n) \in Seq(Tables)
           /\ Rest(n) # <<>>
           /\ DOMAIN Rest(n) = DOMAIN walk
           /\ \A k \in 1 .. Len(walk) - 1 : Rest(n)[k] = walk[k]
           /\ Rest(n)[Len(walk)] = [m \in DOMAIN Last(walk) \ {n} |-> Last(walk)[m]]
<1> DEFINE t == [m \in DOMAIN Last(walk) \ {n} |-> Last(walk)[m]]
<1>1. /\ Len(walk) \in Nat \ {0}
      /\ DOMAIN walk = 1 .. Len(walk)
      /\ Last(walk) \in Tables
      /\ Front(walk) \in Seq(Tables)
      /\ Len(Front(walk)) = Len(walk) - 1
      /\ \A k \in 1 .. Len(walk) - 1 : Front(walk)[k] = walk[k]
  BY FrontCalls
<1>2. t \in Tables
  <2>1. PICK N \in SUBSET Name : Last(walk) \in [N -> AnyId]
    BY <1>1 DEF Tables
  <2>2. t \in [N \ {n} -> AnyId]
    BY <2>1
  <2> QED
    BY <2>2 DEF Tables
<1> DEFINE T == Tables
<1> HIDE DEF T, t
<1>3. Front(walk) \in Seq(T) /\ <<t>> \in Seq(T) /\ Len(<<t>>) = 1 /\ <<t>>[1] = t
  BY <1>1, <1>2 DEF T
<1>4. /\ Rest(n) \in Seq(T)
      /\ Len(Rest(n)) = Len(walk)
      /\ \A k \in 1 .. Len(walk) - 1 : Rest(n)[k] = Front(walk)[k]
      /\ Rest(n)[Len(walk)] = t
  <2>1. Rest(n) = Front(walk) \o <<t>>
    BY DEF Rest, t
  <2>2. /\ Rest(n) \in Seq(T)
        /\ Len(Rest(n)) = Len(Front(walk)) + Len(<<t>>)
        /\ \A k \in 1 .. Len(Front(walk)) + Len(<<t>>) :
              Rest(n)[k] = IF k <= Len(Front(walk)) THEN Front(walk)[k]
                           ELSE <<t>>[k - Len(Front(walk))]
    BY <1>3, <2>1, ConcatProperties
  <2> QED
    BY <1>1, <1>3, <2>2
<1>5. DOMAIN Rest(n) = 1 .. Len(walk) /\ Rest(n) # <<>>
  BY <1>1, <1>4, LenProperties, EmptySeq
<1> QED
  BY <1>1, <1>4, <1>5 DEF T, t

\* A name is yet to be printed in one call.
LEMMA PendingIn ==
    ASSUME NEW w, NEW x
    PROVE  x \in Pending(w) <=> \E k \in DOMAIN w : \E m \in DOMAIN w[k] : x = w[k][m]
BY DEF Pending, Range

LEMMA RestApart ==
    ASSUME walk \in Seq(Tables), walk # <<>>, NEW n \in DOMAIN Last(walk), Apart(walk)
    PROVE  /\ Apart(Rest(n))
           /\ Pending(Rest(n)) = Pending(walk) \ {Last(walk)[n]}
           /\ Last(walk)[n] \in Pending(walk)
<1> DEFINE last == Len(walk)
           r == Rest(n)
<1>1. last \in Nat \ {0} /\ DOMAIN walk = 1 .. last /\ Last(walk) = walk[last]
  BY FrontCalls DEF Last
<1>2. /\ DOMAIN r = 1 .. last
      /\ \A k \in 1 .. last - 1 : r[k] = walk[k]
      /\ r[last] = [m \in DOMAIN walk[last] \ {n} |-> walk[last][m]]
  BY <1>1, RestCalls
<1> HIDE DEF last, r
<1>3. \A k \in 1 .. last : /\ DOMAIN r[k] = IF k = last THEN DOMAIN walk[k] \ {n} ELSE DOMAIN walk[k]
                           /\ \A m \in DOMAIN r[k] : r[k][m] = walk[k][m]
  BY <1>1, <1>2
<1>4. Apart(r)
  BY <1>1, <1>2, <1>3 DEF Apart
<1>5. walk[last][n] \in Pending(walk)
  BY <1>1, PendingIn
<1>6. ASSUME NEW x PROVE x \in Pending(r) <=> x \in Pending(walk) /\ x # walk[last][n]
  <2>1. ASSUME NEW k \in DOMAIN r, NEW m \in DOMAIN r[k], x = r[k][m]
        PROVE  x \in Pending(walk) /\ x # walk[last][n]
    <3>1. k \in DOMAIN walk /\ m \in DOMAIN walk[k] /\ x = walk[k][m] /\ ~(k = last /\ m = n)
      BY <1>1, <1>2, <1>3, <2>1
    <3> QED
      BY <1>1, <3>1, PendingIn DEF Apart
  <2>2. ASSUME NEW k \in DOMAIN walk, NEW m \in DOMAIN walk[k], x = walk[k][m], x # walk[last][n]
        PROVE  k \in DOMAIN r /\ m \in DOMAIN r[k] /\ x = r[k][m]
    BY <1>1, <1>2, <1>3, <2>2
  <2>3. x \in Pending(r) => x \in Pending(walk) /\ x # walk[last][n]
    BY <2>1, PendingIn
  <2>4. x \in Pending(walk) /\ x # walk[last][n] => x \in Pending(r)
    BY <2>2, PendingIn
  <2> QED
    BY <2>3, <2>4
<1>7. Pending(r) = Pending(walk) \ {walk[last][n]}
  BY <1>6
<1> QED
  BY <1>1, <1>4, <1>5, <1>7 DEF r

LEMMA AppendApart ==
    ASSUME NEW w \in Seq(Tables), NEW t \in Tables, Apart(w), IsInjective(t),
           Range(t) \cap Pending(w) = {}
    PROVE  Apart(Append(w, t)) /\ Pending(Append(w, t)) = Pending(w) \cup Range(t)
<1> DEFINE last == Len(w) + 1
           v == Append(w, t)
<1>1. /\ last \in Nat \ {0}
      /\ DOMAIN w = 1 .. last - 1
      /\ DOMAIN v = 1 .. last
      /\ \A k \in 1 .. last - 1 : v[k] = w[k]
      /\ v[last] = t
  BY AppendCalls
<1> HIDE DEF last, v
<1>2. \A x : x \in Range(t) <=> \E m \in DOMAIN t : x = t[m]
  BY DEF Range
<1>3. \A k \in 1 .. last : (k \in DOMAIN w /\ v[k] = w[k]) \/ (k = last /\ v[k] = t)
  BY <1>1
<1>4. Apart(v)
  <2> SUFFICES ASSUME NEW k \in 1 .. last, NEW l \in 1 .. last,
                      NEW m \in DOMAIN v[k], NEW n \in DOMAIN v[l], v[k][m] = v[l][n]
               PROVE  k = l /\ m = n
    BY <1>1 DEF Apart
  <2>1. CASE k \in DOMAIN w /\ v[k] = w[k] /\ l \in DOMAIN w /\ v[l] = w[l]
    BY <2>1 DEF Apart
  <2>2. CASE k = last /\ v[k] = t /\ l = last /\ v[l] = t
    BY <2>2 DEF IsInjective
  <2>3. CASE k \in DOMAIN w /\ v[k] = w[k] /\ l = last /\ v[l] = t
    BY <1>2, <2>3, PendingIn
  <2>4. CASE k = last /\ v[k] = t /\ l \in DOMAIN w /\ v[l] = w[l]
    BY <1>2, <2>4, PendingIn
  <2> QED
    BY <1>3, <2>1, <2>2, <2>3, <2>4
<1>5. ASSUME NEW x PROVE x \in Pending(v) <=> x \in Pending(w) \cup Range(t)
  <2>1. x \in Pending(v) => x \in Pending(w) \cup Range(t)
    BY <1>1, <1>2, <1>3, PendingIn
  <2>2. x \in Pending(w) => x \in Pending(v)
    BY <1>1, PendingIn
  <2>3. x \in Range(t) => x \in Pending(v)
    BY <1>1, <1>2, PendingIn
  <2> QED
    BY <2>1, <2>2, <2>3
<1>6. Pending(v) = Pending(w) \cup Range(t)
  BY <1>5
<1> QED
  BY <1>4, <1>6 DEF v

LEMMA FrontApart ==
    ASSUME NEW w \in Seq(Tables), w # <<>>, DOMAIN Last(w) = {}, Apart(w)
    PROVE  Apart(Front(w)) /\ Pending(Front(w)) = Pending(w)
<1> DEFINE last == Len(w)
           v == Front(w)
<1>1. /\ last \in Nat \ {0}
      /\ DOMAIN w = 1 .. last
      /\ DOMAIN v = 1 .. last - 1
      /\ \A k \in 1 .. last - 1 : v[k] = w[k]
      /\ DOMAIN w[last] = {}
  BY FrontCalls DEF Last
<1> HIDE DEF last, v
<1>2. Apart(v)
  BY <1>1 DEF Apart
<1>3. ASSUME NEW x PROVE x \in Pending(v) <=> x \in Pending(w)
  <2>1. x \in Pending(v) => x \in Pending(w)
    BY <1>1, PendingIn
  <2>2. x \in Pending(w) => x \in Pending(v)
    <3> SUFFICES ASSUME NEW k \in DOMAIN w, NEW m \in DOMAIN w[k], x = w[k][m]
                 PROVE  x \in Pending(v)
      BY PendingIn
    <3>1. k \in 1 .. last - 1
      BY <1>1
    <3> QED
      BY <1>1, <3>1, PendingIn
  <2> QED
    BY <2>1, <2>2
<1>4. Pending(v) = Pending(w)
  BY <1>3
<1> QED
  BY <1>2, <1>4 DEF v

\* A name that is printed is that of an entry behind "." and "..".
LEMMA ListedChild ==
    ASSUME TypeOK, IsTree(disk), NEW i \in Directories, NEW n \in DOMAIN Listed(TableAt(i))
    PROVE  \E k \in ChildrenOf(disk, i) : /\ SlotsOf(disk, i)[k].name = n
                                          /\ SlotsOf(disk, i)[k].id = Listed(TableAt(i))[n]
<1>1. disk \in Disk /\ i \in Initialised(disk) /\ IsDir(disk, i)
  BY DEF TypeOK, Directories, IsDirectory, IsDir
<1>2. /\ DirOf(i) = disk.data[disk.node[i].addr_0]
      /\ DirOf(i).slots = SlotsOf(disk, i)
      /\ DirOf(i) \in Content
  BY <1>1, ContentInitialised, InitialisedFields DEF SlotsOf
<1>3. n \in DOMAIN TableAt(i) /\ n \notin {".", ".."} /\ Listed(TableAt(i))[n] = TableAt(i)[n]
  BY DEF Listed
<1>4. PICK k \in Live(DirOf(i)) : n = DirOf(i).slots[k].name /\ TableAt(i)[n] = DirOf(i).slots[k].id
  BY <1>2, <1>3, TableEntry DEF TableAt
<1>5. k \in Nat /\ k \in 1 .. Len(DirOf(i).slots)
  BY <1>2, LivePositions DEF Live
<1>6. SlotsOf(disk, i)[1].name = "." /\ SlotsOf(disk, i)[2].name = ".."
  BY <1>1 DEF IsTree, HasDots
<1>7. k > 2
  BY <1>2, <1>3, <1>4, <1>5, <1>6
<1> QED
  BY <1>2, <1>3, <1>4, <1>7 DEF ChildrenOf

\* The directories share no listed inode, and none lists one twice.
LEMMA ListedOnce ==
    ASSUME TypeOK, IsTree(disk), NEW i \in Directories, NEW j \in Directories,
           NEW m \in DOMAIN Listed(TableAt(i)), NEW n \in DOMAIN Listed(TableAt(j)),
           Listed(TableAt(i))[m] = Listed(TableAt(j))[n]
    PROVE  i = j /\ m = n
<1>1. i \in Initialised(disk) /\ j \in Initialised(disk)
  BY DEF Directories
<1>2. PICK k \in ChildrenOf(disk, i) : /\ SlotsOf(disk, i)[k].name = m
                                       /\ SlotsOf(disk, i)[k].id = Listed(TableAt(i))[m]
  BY ListedChild
<1>3. PICK l \in ChildrenOf(disk, j) : /\ SlotsOf(disk, j)[l].name = n
                                       /\ SlotsOf(disk, j)[l].id = Listed(TableAt(j))[n]
  BY ListedChild
<1>4. i = j /\ k = l
  BY <1>1, <1>2, <1>3 DEF IsTree, NamedOnce
<1> QED
  BY <1>2, <1>3, <1>4

\* What a directory lists has been written after it.
LEMMA ListedYounger ==
    ASSUME TypeOK, Inv, IsTree(disk), NEW i \in Directories, NEW x \in ListedIn(i)
    PROVE  x \in Initialised(disk) /\ x \in Inodes /\ i \in Inodes /\ x > i
<1>1. disk \in Disk /\ DiskInv(disk) /\ i \in Initialised(disk)
  BY DEF TypeOK, Inv, Directories
<1>2. PICK n \in DOMAIN Listed(TableAt(i)) : x = Listed(TableAt(i))[n]
  BY DEF ListedIn, Range
<1>3. PICK k \in ChildrenOf(disk, i) : SlotsOf(disk, i)[k].id = x
  BY <1>2, ListedChild
<1>4. x \in Initialised(disk)
  BY <1>1, <1>3, ChildWritten
<1>5. x > i
  BY <1>1, <1>3 DEF DiskInv, EntriesYounger, ChildrenOf, SlotsOf
<1> QED
  BY <1>1, <1>4, <1>5, InitialisedFields

\* A call that comes back has loaded the table of a directory; otherwise the
\* process has ended, or is lost.
LEMMA CallLoads ==
    ASSUME TypeOK, NEW calls \in Seq(Tables), NEW i \in AnyId, Call(calls, i)
    PROVE  /\ up' \in BOOLEAN
           /\ job' = job \/ (up' /\ job' = Adrift)
           /\ walk' = <<>> \/ /\ up' /\ job' = job /\ walk' # <<>>
                              /\ i \in Directories /\ i \in Inodes
                              /\ \E t \in Tables : /\ walk' = Append(calls, t)
                                                   /\ NoOverrun => t = Listed(TableAt(i))
<1>1. PICK r \in Loads(disk, good, i) :
          /\ up' = r.up
          /\ job' = IF r.lost THEN Adrift ELSE job
          /\ walk' = IF r.up /\ ~r.lost THEN Append(calls, Listed(r.table)) ELSE <<>>
  BY DEF Call
<1>2. disk \in Disk /\ good \in BOOLEAN
  BY DEF TypeOK
<1>3. /\ r.up \in BOOLEAN /\ r.lost \in BOOLEAN /\ IsTable(r.table)
      /\ ~r.up => ~r.lost
  BY <1>2, LoadsType
<1>4. Listed(r.table) \in Tables
  <2> DEFINE N == DOMAIN r.table \ {".", ".."}
  <2>1. N \in SUBSET Name /\ \A n \in N : r.table[n] \in AnyId
    BY <1>3 DEF IsTable
  <2>2. Listed(r.table) \in [N -> AnyId]
    BY <2>1 DEF Listed
  <2> QED
    BY <2>1, <2>2 DEF Tables
<1>5. ASSUME r.up, ~r.lost PROVE i \in Directories /\ (NoOverrun => r.table = TableAt(i))
  <2> DEFINE c == ContentOf(disk, i)
  <2>1. i \in Initialised(disk) /\ disk.node[i].type # RegularFile
    BY <1>5 DEF Loads, Crashed, Lost
  <2>2. i \in Directories
    <3>1. disk.node[i].type = Directory
      BY <1>2, <2>1, DiskFields DEF InodeT, Ids, Initialised
    <3> QED
      BY <2>1, <3>1 DEF Directories, IsDirectory
  <2>3. ASSUME NoOverrun PROVE r.table = TableAt(i)
    <3>1. c \in Content /\ c.cnt \in Nat
      BY <1>2, <2>1, ContentInitialised, InitialisedFields DEF DirOf, Content
    <3>2. c.cnt <= Cardinality(Live(c)) /\ Cardinality(Live(c)) \in Nat
      BY <2>2, <2>3, <3>1, LiveFinite DEF NoOverrun, DirOf
    <3>3. CASE c.cnt = 0
      BY <1>5, <2>1, <3>3 DEF Loads, Crashed, Lost, Loaded, TableAt, DirOf
    <3>4. CASE c.cnt # 0
      <4>1. InRange(disk, i)
        BY <1>2, <2>1, <2>2, <3>1, <3>2, <3>4 DEF InRange, Directories, IsDirectory
      <4> QED
        BY <1>5, <4>1, LoadFresh DEF TableAt, DirOf
    <3> QED
      BY <3>3, <3>4
  <2> QED
    BY <2>2, <2>3
<1>6. CASE r.up /\ ~r.lost
  <2>1. walk' = Append(calls, Listed(r.table)) /\ up' /\ job' = job
    BY <1>1, <1>6
  <2>2. walk' # <<>>
    BY <1>4, <2>1, AppendCalls, EmptySeq, LenProperties
  <2>3. i \in Directories /\ i \in Inodes /\ (NoOverrun => Listed(r.table) = Listed(TableAt(i)))
    BY <1>5, <1>6 DEF Directories, Initialised
  <2> QED
    BY <1>4, <2>1, <2>2, <2>3
<1>7. CASE ~(r.up /\ ~r.lost)
  BY <1>1, <1>3, <1>7
<1> QED
  BY <1>6, <1>7

\* mkfs can load what it has written.
LEMMA MkfsGoesOn == Mkfs => up'
<1> SUFFICES ASSUME Mkfs PROVE up'
  OBVIOUS
<1> DEFINE c == CreateFile(ZeroDisk)
           d == c.disk
           b == d.node[Root].addr_0
           d3 == NewDir(d, Root, 0)
<1>1. c.id = Root /\ d \in Disk /\ Root \in Initialised(d) /\ 0 \in Ids
  BY ZeroDiskType, CreateFileType, CreateRoot, ZeroDiskInv, CreateFileInv, RootIsInode DEF Ids
<1>2. b \in Blocks
  BY <1>1, InitialisedFields
<1>3. FormattedDisk = d3
  BY <1>1 DEF FormattedDisk
<1> HIDE DEF c, d, b
<1>4. d3.node[Root] = [type |-> Directory, addr_0 |-> b] /\ d3.data[b].cnt = 2
  BY <1>1, NewDirCounts DEF b
<1>5. d3 \in Disk /\ InStep(d3)
  BY <1>3, FormattedDiskType, FormattedDiskInStep
<1> HIDE DEF d3
<1>6. ContentOf(d3, Root) = d3.data[b] /\ d3.data[b] \in Content
  <2>1. d3.node[Root].addr_0 = b /\ b # NoBlock
    BY <1>2, <1>4 DEF Blocks
  <2> QED
    BY <1>2, <1>5, <2>1, DiskFields DEF ContentOf
<1>7. InRange(d3, Root)
  <2>1. 2 <= Cardinality(Live(d3.data[b])) /\ Cardinality(Live(d3.data[b])) \in Nat
    BY <1>2, <1>4, <1>5, <1>6, LiveFinite DEF InStep
  <2> QED
    BY <1>4, <1>6, <2>1 DEF InRange
<1>8. Loads(d3, TRUE, Root) = {Loaded(TableOf(d3.data[b]))}
  <2>1. Root \in Initialised(d3) /\ d3.node[Root].type # RegularFile
    BY <1>2, <1>4, RootIsInode DEF Initialised, Blocks, NoBlock, RegularFile, Directory
  <2>2. d3.data[b].cnt # 0
    BY <1>4
  <2> QED
    BY <1>6, <1>7, <2>1, <2>2 DEF Loads
<1>9. PICK r \in Loads(d3, good', Root) : up' = r.up
  BY <1>3 DEF Mkfs, LoadTable
<1>10. Loads(d3, good', Root) = Loads(d3, TRUE, Root)
  BY DEF Mkfs
<1>11. r = Loaded(TableOf(d3.data[b]))
  BY <1>8, <1>9, <1>10
<1> QED
  BY <1>9, <1>11 DEF Loaded

\* The shape of walk and shown; nothing is left of a tree when its process ends.
TreeShape == /\ walk \in Seq(Tables)
             /\ shown \in Seq(Inodes)
             /\ walk = <<>> => shown = <<>>
             /\ walk # <<>> => up

\* The shell is lost in a tree.
LostInTree == up /\ up' /\ job' = Adrift /\ UnchangedShell

\* A process that ends in a tree is one that ends between two commands.
LEMMA TreeStops ==
    ASSUME ShellsTypeOK, up, ~up', up' \in BOOLEAN, job' = job, UnchangedShell
    PROVE  ShellsNext
<1>1. Stop
  BY DEF Stop, UnchangedShell
<1>2. Work
  BY <1>1, MkfsGoesOn DEF Work, UnchangedShell, ShellsTypeOK
<1> QED
  BY <1>2 DEF ShellsNext

LEMMA TreeGoesOn ==
    ASSUME ShellsTypeOK, up, up' \in BOOLEAN, UnchangedShell, job' = job \/ (up' /\ job' = Adrift)
    PROVE  [ShellsNext \/ LostInTree]_shellsVars
<1>1. CASE up' /\ job' = job
  BY <1>1 DEF UnchangedShell, shellsVars, vars, ShellsTypeOK, TypeOK
<1>2. CASE ~up' /\ job' = job
  BY <1>2, TreeStops
<1>3. CASE up' /\ job' = Adrift
  BY <1>3 DEF LostInTree
<1> QED
  BY <1>1, <1>2, <1>3

\* The name that is printed next, and the calls that are left.
LEMMA ShowType ==
    ASSUME TreeShape, walk # <<>>, NEW n \in DOMAIN Last(walk)
    PROVE  Last(walk)[n] \in AnyId /\ Rest(n) \in Seq(Tables) /\ Rest(n) # <<>>
<1>1. walk \in Seq(Tables)
  BY DEF TreeShape
<1>2. PICK N \in SUBSET Name : Last(walk) \in [N -> AnyId]
  BY <1>1, FrontCalls DEF Tables
<1> QED
  BY <1>1, <1>2, RestCalls

LEMMA ShowShape ==
    ASSUME TypeOK, TreeShape, walk # <<>>, NEW n \in DOMAIN Last(walk), Show(n)
    PROVE  /\ TreeShape'
           /\ up' \in BOOLEAN
           /\ job' = job \/ (up' /\ job' = Adrift)
           /\ walk' # <<>> => Last(walk)[n] \in Inodes
<1> DEFINE x == Last(walk)[n]
<1>1. x \in AnyId /\ Rest(n) \in Seq(Tables) /\ Rest(n) # <<>>
  BY ShowType
<1>2. up /\ up \in BOOLEAN /\ shown \in Seq(Inodes)
  BY DEF TreeShape, TypeOK
<1> HIDE DEF x
<1>3. /\ up' \in BOOLEAN
      /\ job' = job \/ (up' /\ job' = Adrift)
      /\ walk' \in Seq(Tables)
      /\ walk' # <<>> => up' /\ x \in Inodes
  <2>1. CASE ShowFile(n)
    BY <1>1, <1>2, <2>1 DEF ShowFile, IsFile, x
  <2>2. CASE ShowDirectory(n)
    <3>1. Call(Rest(n), x)
      BY <2>2 DEF ShowDirectory, x
    <3>2. \A t \in Tables : Append(Rest(n), t) \in Seq(Tables)
      BY <1>1, AppendCalls
    <3> QED
      BY <1>1, <3>1, <3>2, CallLoads, EmptySeq
  <2> QED
    BY <2>1, <2>2 DEF Show
<1>4. shown' = IF walk' = <<>> THEN <<>> ELSE Append(shown, x)
  BY DEF Show, x
<1>5. shown' \in Seq(Inodes)
  BY <1>2, <1>3, <1>4, AppendProperties, EmptySeq
<1> QED
  BY <1>3, <1>4, <1>5 DEF TreeShape, x

LEMMA NextShape ==
    ShellsTypeOK /\ TreeShape /\ [TreeNext]_treeVars
        => TreeShape' /\ [ShellsNext \/ LostInTree]_shellsVars
<1> SUFFICES ASSUME ShellsTypeOK, TreeShape, [TreeNext]_treeVars
             PROVE  TreeShape' /\ [ShellsNext \/ LostInTree]_shellsVars
  OBVIOUS
<1>1. TypeOK
  BY DEF ShellsTypeOK
<1>2. CASE OtherCommand
  BY <1>2, EmptySeq DEF OtherCommand, TreeShape
<1>3. CASE BeginTree
  <2>1. /\ up /\ Call(<<>>, cwd) /\ shown' = shown /\ UnchangedShell
        /\ cwd \in AnyId /\ shown = <<>> /\ <<>> \in Seq(Tables)
    BY <1>1, <1>3, EmptySeq DEF BeginTree, Ready, TypeOK, TreeShape, AnyId
  <2>2. /\ up' \in BOOLEAN
        /\ job' = job \/ (up' /\ job' = Adrift)
        /\ walk' = <<>> \/ (up' /\ \E t \in Tables : walk' = Append(<<>>, t))
    BY <1>1, <2>1, CallLoads
  <2>3. \A t \in Tables : Append(<<>>, t) \in Seq(Tables)
    BY <2>1, AppendCalls
  <2>4. TreeShape'
    BY <2>1, <2>2, <2>3, EmptySeq DEF TreeShape
  <2> QED
    BY <2>1, <2>2, <2>4, TreeGoesOn
<1>4. ASSUME walk # <<>>, NEW n \in DOMAIN Last(walk), Show(n)
      PROVE  TreeShape' /\ [ShellsNext \/ LostInTree]_shellsVars
  <2>1. TreeShape' /\ up' \in BOOLEAN /\ (job' = job \/ (up' /\ job' = Adrift))
    BY <1>1, <1>4, ShowShape
  <2>2. up /\ UnchangedShell
    BY <1>4 DEF Show, TreeShape
  <2> QED
    BY <2>1, <2>2, TreeGoesOn
<1>5. CASE walk # <<>> /\ Return
  <2>1. walk' = Front(walk) /\ up' = up /\ job' = job /\ UnchangedShell
        /\ shown' = IF walk' = <<>> THEN <<>> ELSE shown
    BY <1>5 DEF Return
  <2>2. Front(walk) \in Seq(Tables)
    BY <1>5, FrontCalls DEF TreeShape
  <2>3. TreeShape'
    BY <1>5, <2>1, <2>2, EmptySeq DEF TreeShape
  <2> QED
    BY <2>1, <2>3 DEF UnchangedShell, shellsVars, vars
<1>6. CASE StopTree
  <2>1. up /\ ~up' /\ up' \in BOOLEAN /\ job' = job /\ UnchangedShell
    BY <1>6 DEF StopTree, Stop, UnchangedShell
  <2> QED
    BY <1>6, <2>1, TreeStops, EmptySeq DEF StopTree, TreeShape
<1>7. CASE UNCHANGED treeVars
  BY <1>7 DEF treeVars, shellsVars, vars, TreeShape
<1> QED
  BY <1>2, <1>3, <1>4, <1>5, <1>6, <1>7 DEF TreeNext, Walk

\* A shell that is lost has changed nothing before.
LEMMA LostKeeps ==
    ASSUME ShellsTypeOK, LostInTree
    PROVE  /\ ShellsTypeOK'
           /\ ShellsInv => ShellsInv'
           /\ ShellsTree => ShellsTree'
<1>1. /\ disk' = disk /\ good' = good /\ cwd' = cwd /\ cwd_table' = cwd_table
      /\ fd_cnt' = fd_cnt /\ fd_map' = fd_map /\ waiting' = waiting
      /\ reformatted' = reformatted /\ up' = up /\ job' = Adrift
  BY DEF LostInTree, UnchangedShell, ShellsTypeOK, TypeOK
<1>2. ShellsTypeOK'
  BY <1>1 DEF ShellsTypeOK, TypeOK, IsTable, IsMemory
<1>3. ShellsInv => ShellsInv'
  BY <1>1 DEF ShellsInv, Inv
<1>4. ShellsTree => ShellsTree'
  BY <1>1 DEF ShellsTree
<1> QED
  BY <1>2, <1>3, <1>4

LEMMA ShapeCorrect == TreeSpec => [](ShellsTypeOK /\ TreeShape)
<1>1. TreeInit => ShellsTypeOK /\ TreeShape
  BY InitShellsType, EmptySeq DEF TreeInit, TreeShape
<1>2. ShellsTypeOK /\ TreeShape /\ [TreeNext]_treeVars => (ShellsTypeOK /\ TreeShape)'
  BY NextShape, NextShellsType, LostKeeps
<1> QED
  BY <1>1, <1>2, PTL DEF TreeSpec

\* The shells, as they are without tree, but that a step may lose a shell without
\* changing anything else.
ShellsOrLost == ShellsInit /\ [][ShellsNext \/ LostInTree]_shellsVars

\* tree changes nothing, though it prints in many steps: with it the shells do
\* what they do without it, but that one may be lost in a directory that tree
\* loads.
THEOREM TreeIsShells == TreeSpec => ShellsOrLost
<1>1. TreeInit => ShellsInit
  BY DEF TreeInit
<1> QED
  BY <1>1, NextShape, ShapeCorrect, PTL DEF TreeSpec, ShellsOrLost

\* All that has been printed, or is yet to be, is younger than where tree began.
LEMMA WalkYounger ==
    ASSUME TypeOK, Inv, IsTree(disk), WalkFits
    PROVE  /\ \A x \in Range(shown) \cup Pending(walk) : x \in Inodes /\ x > cwd
           /\ cwd \in Inodes
<1> DEFINE S == {x \in Inodes : x >= cwd}
<1>1. cwd \in Inodes /\ cwd \in Int
  BY DEF TypeOK, Inodes
<1>2. ClosedByNames(S)
  <2> SUFFICES ASSUME NEW i \in S, i \in Directories, NEW x \in ListedIn(i) PROVE x \in S
    BY DEF ClosedByNames
  <2>1. x \in Inodes /\ i \in Inodes /\ x > i
    BY ListedYounger
  <2> QED
    BY <1>1, <2>1 DEF Inodes
<1>3. Range(shown) \cup Pending(walk) \subseteq S
  <2>1. S \in SUBSET Inodes /\ cwd \in S
    BY <1>1
  <2> QED
    BY <1>2, <2>1 DEF WalkFits
<1>4. ASSUME NEW x \in Range(shown) \cup Pending(walk) PROVE x \in Inodes /\ x > cwd
  <2>1. PICK i \in Entered : x \in ListedIn(i)
    BY DEF WalkFits
  <2>2. i \in Directories /\ i \in {cwd} \cup Range(shown)
    BY <2>1 DEF Entered
  <2>3. x \in Inodes /\ i \in Inodes /\ x > i
    BY <2>1, <2>2, ListedYounger
  <2>4. i >= cwd
    BY <1>1, <1>3, <2>2
  <2> QED
    BY <1>1, <2>3, <2>4 DEF Inodes
<1> QED
  BY <1>1, <1>4

\* The sequence of what has been printed, with one inode more.
LEMMA ShownMore ==
    ASSUME NEW s \in Seq(Inodes), NEW x \in Inodes, IsInjective(s), x \notin Range(s)
    PROVE  IsInjective(Append(s, x)) /\ Range(Append(s, x)) = Range(s) \cup {x}
<1> DEFINE I == Inodes
           u == Append(s, x)
<1> HIDE DEF I
<1>1. s \in Seq(I) /\ x \in I
  BY DEF I
<1>2. /\ Len(s) \in Nat
      /\ DOMAIN s = 1 .. Len(s)
      /\ DOMAIN u = 1 .. Len(s) + 1
      /\ \A k \in 1 .. Len(s) : u[k] = s[k]
      /\ u[Len(s) + 1] = x
  BY <1>1, AppendProperties, LenProperties
<1> HIDE DEF u
<1>3. \A k \in DOMAIN u : (k \in DOMAIN s /\ u[k] = s[k]) \/ (k = Len(s) + 1 /\ u[k] = x)
  BY <1>2
<1>4. \A k \in DOMAIN s : s[k] # x
  BY DEF Range
<1>5. IsInjective(u)
  BY <1>3, <1>4 DEF IsInjective
<1>6. Range(u) = Range(s) \cup {x}
  BY <1>2, <1>3 DEF Range
<1> QED
  BY <1>5, <1>6 DEF u

\* In one step a name goes from what is to be printed to what has been.
LEMMA ShowFits ==
    ASSUME TypeOK, Inv, IsTree(disk), NoOverrun, TreeShape, walk # <<>>, WalkFits,
           NEW n \in DOMAIN Last(walk), Show(n), walk' # <<>>
    PROVE  WalkFits'
<1> DEFINE x == Last(walk)[n]
           old == Range(shown) \cup Pending(walk)
<1>1. /\ x \in Inodes
      /\ Rest(n) \in Seq(Tables)
      /\ walk \in Seq(Tables)
      /\ shown \in Seq(Inodes)
  BY ShowType, ShowShape DEF TreeShape
<1>2. /\ Apart(Rest(n))
      /\ Pending(Rest(n)) = Pending(walk) \ {x}
      /\ x \in Pending(walk)
  BY <1>1, RestApart DEF WalkFits
<1>3. x \notin Range(shown) /\ x \in old
  BY <1>2 DEF WalkFits
<1>4. disk' = disk /\ cwd' = cwd /\ shown' = Append(shown, x)
  BY DEF Show, UnchangedShell
<1>5. IsInjective(shown') /\ Range(shown') = Range(shown) \cup {x}
  BY <1>1, <1>3, <1>4, ShownMore DEF WalkFits
<1>6. /\ Directories' = Directories
      /\ \A i : ListedIn(i)' = ListedIn(i)
      /\ \A S : ClosedByNames(S)' = ClosedByNames(S)
  BY <1>4 DEF Directories, IsDirectory, ListedIn, TableAt, DirOf, ClosedByNames
<1>7. Entered' = Entered \cup ({x} \cap Directories)
  BY <1>4, <1>5, <1>6 DEF Entered
<1> HIDE DEF x
<1>8. CASE ShowFile(n)
  <2>1. walk' = Rest(n) /\ x \notin Directories
    BY <1>8 DEF ShowFile, IsFile, Directories, x
  <2>2. Entered' = Entered
    BY <1>7, <2>1
  <2>3. Apart(walk') /\ Pending(walk') = Pending(walk) \ {x}
    BY <1>2, <2>1
  <2>4. Range(shown') \cap Pending(walk') = {} /\ Range(shown') \cup Pending(walk') = old
    BY <1>2, <1>5, <2>3 DEF WalkFits
  <2> QED
    BY <1>4, <1>5, <1>6, <2>2, <2>3, <2>4 DEF WalkFits
<1>9. CASE ShowDirectory(n)
  <2>1. Call(Rest(n), x)
    BY <1>9 DEF ShowDirectory, x
  <2>2. x \in Directories /\ walk' = Append(Rest(n), Listed(TableAt(x)))
        /\ Listed(TableAt(x)) \in Tables
    BY <1>1, <2>1, CallLoads DEF AnyId
  <2> DEFINE t == Listed(TableAt(x))
  <2>3. IsInjective(t)
    BY <2>2, ListedOnce DEF IsInjective
  <2>4. Range(t) = ListedIn(x)
    BY DEF ListedIn
  <2>5. x \notin ListedIn(x)
    BY <1>1, <2>2, ListedYounger DEF Inodes
  <2>6. x \notin Entered
    <3>1. x # cwd
      BY <1>1, <1>3, WalkYounger DEF Inodes
    <3> QED
      BY <1>3, <3>1 DEF Entered
  <2>7. ListedIn(x) \cap old = {}
    <3> SUFFICES ASSUME NEW y \in ListedIn(x), y \in old PROVE FALSE
      OBVIOUS
    <3>1. PICK i \in Entered : y \in ListedIn(i)
      BY DEF WalkFits
    <3>2. i \in Directories /\ i # x
      BY <2>6 DEF Entered
    <3>3. \E l \in DOMAIN Listed(TableAt(i)) : y = Listed(TableAt(i))[l]
      BY <3>1 DEF ListedIn, Range
    <3>4. \E m \in DOMAIN Listed(TableAt(x)) : y = Listed(TableAt(x))[m]
      BY DEF ListedIn, Range
    <3> QED
      BY <2>2, <3>2, <3>3, <3>4, ListedOnce
  <2>8. Apart(walk') /\ Pending(walk') = (Pending(walk) \ {x}) \cup ListedIn(x)
    <3>1. Range(t) \cap Pending(Rest(n)) = {}
      BY <1>2, <2>4, <2>7
    <3> HIDE DEF t
    <3>2. t \in Tables /\ walk' = Append(Rest(n), t)
      BY <2>2 DEF t
    <3>3. Apart(Append(Rest(n), t)) /\ Pending(Append(Rest(n), t)) = Pending(Rest(n)) \cup Range(t)
      BY <1>1, <1>2, <2>3, <3>1, <3>2, AppendApart
    <3> QED
      BY <1>2, <2>4, <3>2, <3>3
  <2> HIDE DEF t
  <2>9. Range(shown') \cap Pending(walk') = {}
    BY <1>3, <1>5, <2>5, <2>7, <2>8 DEF WalkFits
  <2>10. Range(shown') \cup Pending(walk') = old \cup ListedIn(x)
    BY <1>2, <1>5, <2>8
  <2>11. Entered' = Entered \cup {x}
    BY <1>7, <2>2
  <2>12. Range(shown') \cup Pending(walk') = UNION {ListedIn(i) : i \in Entered'}
    BY <2>10, <2>11 DEF WalkFits
  <2>13. ASSUME NEW S \in SUBSET Inodes, cwd \in S, ClosedByNames(S)
         PROVE  Range(shown') \cup Pending(walk') \subseteq S
    <3>1. old \subseteq S
      BY <2>13 DEF WalkFits
    <3>2. ListedIn(x) \subseteq S
      BY <1>3, <2>2, <2>13, <3>1 DEF ClosedByNames
    <3> QED
      BY <2>10, <3>1, <3>2
  <2>14. cwd' \in Directories' /\ IsInjective(shown')
    BY <1>4, <1>5, <1>6 DEF WalkFits
  <2>15. UNION {ListedIn(i) : i \in Entered'} = UNION {ListedIn(i)' : i \in Entered'}
    BY <1>6
  <2> QED
    BY <1>4, <1>6, <2>8, <2>9, <2>12, <2>13, <2>14, <2>15 DEF WalkFits
<1> QED
  BY <1>8, <1>9 DEF Show

LEMMA BeginTreeFits ==
    ASSUME TypeOK, Inv, IsTree(disk), NoOverrun, TreeShape, BeginTree, walk' # <<>>
    PROVE  WalkFits'
<1>1. Call(<<>>, cwd) /\ walk = <<>> /\ shown' = <<>> /\ cwd \in Inodes
  BY DEF BeginTree, TreeShape, TypeOK
<1>2. cwd \in Directories /\ walk' = Append(<<>>, Listed(TableAt(cwd)))
      /\ Listed(TableAt(cwd)) \in Tables
  BY <1>1, CallLoads, EmptySeq DEF AnyId
<1>3. disk' = disk /\ cwd' = cwd
  BY DEF BeginTree, UnchangedShell
<1>4. /\ Directories' = Directories
      /\ \A i : ListedIn(i)' = ListedIn(i)
      /\ \A S : ClosedByNames(S)' = ClosedByNames(S)
  BY <1>3 DEF Directories, IsDirectory, ListedIn, TableAt, DirOf, ClosedByNames
<1>5. Range(shown') = {} /\ IsInjective(shown')
  BY <1>1 DEF Range, IsInjective
<1> DEFINE t == Listed(TableAt(cwd))
<1>6. IsInjective(t) /\ Range(t) = ListedIn(cwd)
  BY <1>2, ListedOnce DEF IsInjective, ListedIn
<1>7. Apart(walk') /\ Pending(walk') = ListedIn(cwd)
  <2> HIDE DEF t
  <2>1. t \in Tables /\ walk' = Append(<<>>, t) /\ <<>> \in Seq(Tables)
    BY <1>2, EmptySeq DEF t
  <2>2. Apart(<<>>) /\ Pending(<<>>) = {}
    BY DEF Apart, Pending
  <2>3. Apart(Append(<<>>, t)) /\ Pending(Append(<<>>, t)) = Pending(<<>>) \cup Range(t)
    BY <1>6, <2>1, <2>2, AppendApart
  <2> QED
    BY <1>6, <2>1, <2>2, <2>3
<1> HIDE DEF t
<1>8. Entered' = {cwd}
  BY <1>2, <1>3, <1>4, <1>5 DEF Entered
<1>9. Range(shown') \cup Pending(walk') = UNION {ListedIn(i)' : i \in Entered'}
  BY <1>4, <1>5, <1>7, <1>8
<1>10. ASSUME NEW S \in SUBSET Inodes, cwd \in S, ClosedByNames(S)
       PROVE  Range(shown') \cup Pending(walk') \subseteq S
  BY <1>2, <1>5, <1>7, <1>10 DEF ClosedByNames
<1> QED
  BY <1>2, <1>3, <1>4, <1>5, <1>7, <1>9, <1>10 DEF WalkFits

\* A call that returns has nothing more to print, and so nothing is lost.
LEMMA ReturnFits ==
    ASSUME TreeShape, walk # <<>>, WalkFits, Return, walk' # <<>>
    PROVE  WalkFits'
<1>1. DOMAIN Last(walk) = {} /\ walk' = Front(walk) /\ shown' = shown
  BY DEF Return
<1>2. Apart(walk') /\ Pending(walk') = Pending(walk)
  BY <1>1, FrontApart DEF TreeShape, WalkFits
<1>3. disk' = disk /\ cwd' = cwd
  BY DEF Return, UnchangedShell
<1>4. /\ Directories' = Directories
      /\ \A i : ListedIn(i)' = ListedIn(i)
      /\ \A S : ClosedByNames(S)' = ClosedByNames(S)
  BY <1>3 DEF Directories, IsDirectory, ListedIn, TableAt, DirOf, ClosedByNames
<1>5. Entered' = Entered
  BY <1>1, <1>3, <1>4 DEF Entered
<1> QED
  BY <1>1, <1>2, <1>3, <1>4, <1>5 DEF WalkFits

LEMMA NextWalk ==
    ShellsTypeOK /\ ShellsInv /\ ShellsTree /\ TreeShape /\ TreeShape' /\ WalkInv
        /\ [TreeNext]_treeVars => WalkInv'
<1> SUFFICES ASSUME ShellsTypeOK, ShellsInv, ShellsTree, TreeShape, TreeShape', WalkInv,
                    [TreeNext]_treeVars, walk' # <<>>, ~reformatted', NoOverrun'
             PROVE  WalkFits'
  BY DEF WalkInv
<1>1. walk' # <<>>
  OBVIOUS
<1>2. ASSUME UnchangedShell
      PROVE  /\ TypeOK /\ Inv /\ IsTree(disk) /\ NoOverrun
             /\ walk = <<>> \/ WalkFits
  <2>1. ~reformatted /\ disk' = disk
    BY <1>2 DEF UnchangedShell
  <2>2. NoOverrun
    BY <2>1 DEF NoOverrun, Directories, IsDirectory, DirOf
  <2> QED
    BY <2>1, <2>2 DEF ShellsTypeOK, ShellsInv, ShellsTree, WalkInv
<1>3. CASE OtherCommand
  BY <1>3 DEF OtherCommand
<1>4. CASE BeginTree
  BY <1>1, <1>2, <1>4, BeginTreeFits DEF BeginTree
<1>5. ASSUME walk # <<>>, NEW n \in DOMAIN Last(walk), Show(n) PROVE WalkFits'
  BY <1>1, <1>2, <1>5, ShowFits DEF Show
<1>6. CASE walk # <<>> /\ Return
  BY <1>2, <1>6, ReturnFits DEF Return
<1>7. CASE StopTree
  BY <1>7 DEF StopTree
<1>8. CASE UNCHANGED treeVars
  <2>1. UnchangedShell /\ walk' = walk /\ shown' = shown /\ disk' = disk /\ cwd' = cwd
    BY <1>8 DEF treeVars, shellsVars, vars, UnchangedShell
  <2>2. WalkFits
    BY <1>2, <2>1
  <2> QED
    BY <2>1, <2>2 DEF WalkFits, Entered, Directories, IsDirectory, ListedIn, TableAt, DirOf,
                      ClosedByNames
<1> QED
  BY <1>3, <1>4, <1>5, <1>6, <1>7, <1>8 DEF TreeNext, Walk

\* The invariants of the shells are invariants of the shells with tree.
LEMMA TreeKeeps ==
    ASSUME ShellsTypeOK, TreeShape, ShellsInv, ShellsTree, [TreeNext]_treeVars
    PROVE  ShellsInv' /\ ShellsTree'
<1>1. [ShellsNext \/ LostInTree]_shellsVars
  BY NextShape
<1>2. CASE [ShellsNext]_shellsVars
  BY <1>2, NextShellsInv, NextShellsTree
<1>3. CASE LostInTree
  BY <1>3, LostKeeps
<1> QED
  BY <1>1, <1>2, <1>3

LEMMA WalkCorrect == TreeSpec => [](TypeOK /\ ShellsInv /\ ShellsTree /\ TreeShape /\ WalkInv)
<1>1. TreeInit => WalkInv /\ ShellsInv /\ ShellsTree
  BY InitShellsInv, InitShellsTree DEF TreeInit, WalkInv
<1>2. ShellsTypeOK => TypeOK
  BY DEF ShellsTypeOK
<1>3. ShellsTypeOK /\ TreeShape /\ ShellsInv /\ ShellsTree /\ [TreeNext]_treeVars
          => ShellsInv' /\ ShellsTree'
  BY TreeKeeps
<1> QED
  BY <1>1, <1>2, <1>3, NextWalk, ShapeCorrect, PTL DEF TreeSpec

\* tree prints nothing twice, so that its recursion ends, unless a failed
\* allocation has put a counter above the entries of its directory: what it has
\* printed and what the calls that wait have yet to print are apart.
THEOREM ShowsOnceCorrect == TreeSpec => [](reformatted \/ TreeShowsOnce)
<1>1. TreeShape /\ WalkInv => reformatted \/ TreeShowsOnce
  <2>1. IsInjective(<<>>)
    BY DEF IsInjective
  <2> QED
    BY <2>1 DEF WalkInv, WalkFits, TreeShowsOnce, TreeShape
<1> QED
  BY <1>1, WalkCorrect, PTL

\* When tree returns it has printed all that can be reached by names from the
\* current directory, and nothing else.
THEOREM ShowsAllCorrect == TreeSpec => [](reformatted \/ TreeShowsAll)
<1>1. ASSUME TypeOK, ShellsInv, ShellsTree, TreeShape, WalkInv, ~reformatted PROVE TreeShowsAll
  <2> SUFFICES ASSUME NoOverrun, Len(walk) = 1, DOMAIN Last(walk) = {}
               PROVE  Range(shown) = ReachableFrom(cwd)
    BY DEF TreeShowsAll
  <2>1. walk # <<>> /\ Inv /\ IsTree(disk)
    BY <1>1 DEF ShellsInv, ShellsTree
  <2>2. WalkFits
    BY <1>1, <2>1 DEF WalkInv
  <2>3. Pending(walk) = {}
    <3>1. DOMAIN walk = 1 .. 1 /\ walk[1] = Last(walk)
      BY <1>1, <2>1, FrontCalls DEF TreeShape, Last
    <3> QED
      BY <3>1, PendingIn
  <2>4. cwd \in Inodes /\ \A x \in Range(shown) : x \in Inodes /\ x > cwd
    BY <1>1, <2>1, <2>2, WalkYounger
  <2>5. \A x \in Range(shown) : x # cwd
    BY <2>4 DEF Inodes
  <2> DEFINE S == {cwd} \cup Range(shown)
  <2>6. S \in SUBSET Inodes /\ cwd \in S
    BY <2>4
  <2>7. ClosedByNames(S)
    <3> SUFFICES ASSUME NEW i \in S, i \in Directories PROVE ListedIn(i) \subseteq S
      BY DEF ClosedByNames
    <3>1. i \in Entered
      BY DEF Entered
    <3> QED
      BY <2>2, <2>3, <3>1 DEF WalkFits
  <2>8. Range(shown) \subseteq ReachableFrom(cwd)
    <3> SUFFICES ASSUME NEW x \in Range(shown), NEW T \in SUBSET Inodes, cwd \in T, ClosedByNames(T)
                 PROVE  x \in T
      BY <2>4, <2>5 DEF ReachableFrom
    <3> QED
      BY <2>2 DEF WalkFits
  <2>9. ReachableFrom(cwd) \subseteq Range(shown)
    <3> SUFFICES ASSUME NEW x \in ReachableFrom(cwd) PROVE x \in Range(shown)
      OBVIOUS
    <3>1. x # cwd /\ x \in S
      BY <2>6, <2>7 DEF ReachableFrom
    <3> QED
      BY <3>1
  <2> QED
    BY <2>8, <2>9
<1> QED
  BY <1>1, WalkCorrect, PTL
=============================================================================
