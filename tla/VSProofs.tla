------------------------------ MODULE VSProofs ------------------------------
(***************************************************************************)
(* The types of VSFileSystem, for every number of inodes and blocks and    *)
(* every set of names, paths and bounds; its inductive invariant Inv, and  *)
(* what follows from it: entries name allocated inodes, inodes have blocks *)
(* of their own, directories contain younger inodes only, and an inode     *)
(* that is handed out was not named by anything.                           *)
(***************************************************************************)
EXTENDS VSDiskProofs

USE DEF NoId, NoBlock, RegularFile, Directory, Root

-----------------------------------------------------------------------------
(* Loading a directory *)

LEMMA LivePositions ==
    ASSUME NEW c \in Content
    PROVE  /\ DOMAIN c.slots = 1 .. Len(c.slots)
           /\ \A k \in Live(c) : /\ k \in Nat
                                 /\ c.slots[k] \in Entry
                                 /\ c.slots[k].id \in Inodes
                                 /\ c.slots[k].name \in Name
<1>1. c.slots \in Seq(Entry)
  BY DEF Content
<1>2. DOMAIN c.slots = 1 .. Len(c.slots) /\ Len(c.slots) \in Nat
  BY <1>1, LenProperties
<1>3. ASSUME NEW k \in Live(c)
      PROVE  /\ k \in Nat
             /\ c.slots[k] \in Entry
             /\ c.slots[k].id \in Inodes
             /\ c.slots[k].name \in Name
  <2>1. k \in 1 .. Len(c.slots) /\ c.slots[k].id # NoId
    BY <1>2 DEF Live
  <2>2. c.slots[k] \in Entry
    BY <1>1, <2>1, ElementOfSeq
  <2> QED
    BY <2>1, <2>2 DEF Entry, Ids
<1> QED
  BY <1>2, <1>3

\* The entry of a table is the first visible one of its name.
LEMMA TableEntry ==
    ASSUME NEW c \in Content, NEW n \in DOMAIN TableOf(c)
    PROVE  \E k \in Live(c) : n = c.slots[k].name /\ TableOf(c)[n] = c.slots[k].id
<1>1. Named(c, n) \subseteq Live(c) /\ Live(c) \subseteq Nat
  BY LivePositions DEF Named, Visible
<1>2. Named(c, n) # {}
  BY DEF TableOf, Named
<1>3. Min(Named(c, n)) \in Named(c, n)
  BY <1>1, <1>2, MinIsSmallest
<1>4. TableOf(c)[n] = c.slots[Min(Named(c, n))].id
  BY DEF TableOf
<1> QED
  BY <1>1, <1>3, <1>4 DEF Named

LEMMA TableType ==
    ASSUME NEW c \in Content
    PROVE  IsTable(TableOf(c))
<1>1. \A n \in DOMAIN TableOf(c) : n \in Name /\ TableOf(c)[n] \in AnyId
  BY TableEntry, LivePositions DEF AnyId
<1>2. TableOf(c) = [n \in DOMAIN TableOf(c) |-> TableOf(c)[n]]
  BY DEF TableOf
<1> QED
  BY <1>1, <1>2 DEF IsTable

LEMMA ContentOfType ==
    ASSUME NEW d \in Disk, NEW i \in Ids
    PROVE  ContentOf(d, i) \in Content
BY DiskFields, EmptySeq DEF ContentOf, Zeros, Content

LEMMA LoadsType ==
    ASSUME NEW d \in Disk, NEW g \in BOOLEAN, NEW i \in AnyId, NEW r \in Loads(d, g, i)
    PROVE  /\ r.up \in BOOLEAN /\ r.lost \in BOOLEAN /\ IsTable(r.table)
           /\ ~r.up => ~r.lost
<1>1. IsTable(EmptyTable)
  BY DEF IsTable, EmptyTable
<1>2. CASE r \in {Crashed, Lost}
  <2>1. CASE r = Crashed
    BY <1>1, <2>1 DEF Crashed
  <2>2. CASE r = Lost
    BY <1>1, <2>2 DEF Lost
  <2> QED
    BY <1>2, <2>1, <2>2
<1>3. CASE r \notin {Crashed, Lost}
  <2> DEFINE c == ContentOf(d, i)
             t == TableOf(c)
             s == c.cnt - Cardinality(Live(c))
  <2>1. i \in Initialised(d) /\ r \in {Loaded(t)} \cup {Loaded(u) : u \in Beyond(t, s)}
    BY <1>3 DEF Loads
  <2>2. IsTable(t)
    BY <2>1, ContentOfType, TableType DEF Initialised, Ids
  <2> HIDE DEF t, s
  <2>3. ASSUME NEW u \in Beyond(t, s) PROVE IsTable(u)
    <3>1. PICK S \in SUBSET (Name \ DOMAIN t) : \E h \in [S -> AnyId] :
             u = [m \in DOMAIN t \cup DOMAIN h |-> IF m \in DOMAIN t THEN t[m] ELSE h[m]]
      BY <2>3 DEF Beyond
    <3> QED
      BY <2>2, <3>1 DEF IsTable
  <2>4. PICK u \in {t} \cup Beyond(t, s) : r = Loaded(u)
    BY <2>1
  <2>5. r.up = TRUE /\ r.lost = FALSE /\ r.table = u
    BY <2>4 DEF Loaded
  <2> QED
    BY <2>2, <2>3, <2>5
<1> QED
  BY <1>2, <1>3

\* What can be loaded and followed has been written.
LEMMA LoadedInitialised ==
    ASSUME NEW d \in Disk, NEW g \in BOOLEAN, NEW i \in AnyId, NEW r \in Loads(d, g, i),
           r.up, ~r.lost
    PROVE  i \in Initialised(d)
BY DEF Loads, Crashed, Lost

LEMMA LoadTableType ==
    ASSUME NEW d \in Disk, NEW i \in AnyId, NEW j, good' \in BOOLEAN, LoadTable(d, i, j)
    PROVE  /\ up' \in BOOLEAN
           /\ IsTable(cwd_table')
           /\ job' \in {j, Adrift}
           /\ up' /\ job' # Adrift => i \in Initialised(d)
<1>1. PICK r \in Loads(d, good', i) : /\ up' = r.up
                                      /\ cwd_table' = r.table
                                      /\ job' = IF r.lost THEN Adrift ELSE j
  BY DEF LoadTable
<1> QED
  BY <1>1, LoadsType, LoadedInitialised

LEMMA LoadTablesType ==
    ASSUME NEW d \in Disk, NEW i \in AnyId, NEW k \in AnyId, NEW j, good' \in BOOLEAN,
           LoadTables(d, i, k, j)
    PROVE  /\ up' \in BOOLEAN
           /\ IsTable(cwd_table')
           /\ job' \in {j, Adrift}
           /\ up' /\ job' # Adrift => i \in Initialised(d) /\ k \in Initialised(d)
<1>1. PICK q \in Loads(d, good', i), r \in Loads(d, good', k) :
         /\ up' = (q.up /\ r.up)
         /\ cwd_table' = r.table
         /\ job' = IF q.lost \/ r.lost THEN Adrift ELSE j
  BY DEF LoadTables
<1>2. /\ q.up \in BOOLEAN /\ r.up \in BOOLEAN
      /\ IsTable(r.table)
  BY <1>1, LoadsType
<1>3. q.up /\ ~q.lost => i \in Initialised(d)
  BY <1>1, LoadedInitialised
<1>4. r.up /\ ~r.lost => k \in Initialised(d)
  BY <1>1, LoadedInitialised
<1> QED
  BY <1>1, <1>2, <1>3, <1>4

-----------------------------------------------------------------------------
(* Types *)

LEMMA JobType ==
    \A j \in Job \cup {Idle, Adrift} : j \notin {Idle, Adrift} =>
          /\ j \in Job
          /\ j.rest \in Seq(Name)
          /\ j.saved \in Inodes
          /\ j.file \in Name
BY DEF Job

\* The job after one component of the path, and after the last.
LEMMA ShorterJob ==
    ASSUME NEW j \in Job
    PROVE  /\ j.rest # <<>> => [j EXCEPT !.rest = Tail(@)] \in Job
           /\ j.rest # <<>> => Head(j.rest) \in Name
           /\ [j EXCEPT !.rest = <<>>] \in Job
<1>1. j.rest \in Seq(Name)
  BY DEF Job
<1>2. j.rest # <<>> => Tail(j.rest) \in Seq(Name) /\ Head(j.rest) \in Name
  BY <1>1, HeadTailProperties
<1> QED
  BY <1>1, <1>2, EmptySeq DEF Job

LEMMA ParsePathType ==
    ASSUME NEW p \in Path
    PROVE  p \in PathT /\ ParsePath(p) \in PathT
<1>1. p \in [abs : BOOLEAN, dirs : Seq(Name)]
  BY ProcessAssumption
<1>2. <<".">> \in Seq(Name) /\ <<>> \in Seq(Name)
  BY DEF Name
<1> QED
  BY <1>1, <1>2 DEF ParsePath, PathT

\* A directory's id, a file's, or the -1 of a failed createFile.
LEMMA RegisterFDType ==
    ASSUME TypeOK, NEW i \in AnyId \cup {NoId}, RegisterFD(i)
    PROVE  /\ fd_cnt' \in Nat \cup {-1}
           /\ DOMAIN fd_map' \subseteq 0 .. fd_cnt'
           /\ fd_map' \in [DOMAIN fd_map' -> AnyId \cup {NoId}]
BY DEF TypeOK, RegisterFD

LEMMA InitTypeOK == Init => TypeOK
<1> SUFFICES ASSUME Init PROVE TypeOK
  OBVIOUS
<1>1. disk \in Disk
  BY ZeroDiskType, FormattedDiskType DEF Init
<1>2. IsTable(EmptyTable)
  BY DEF IsTable, EmptyTable
<1> QED
  BY <1>1, <1>2, RootIsInode DEF Init, TypeOK

\* The start of a command keeps the types.
LEMMA BeginTypeOK ==
    ASSUME TypeOK, NEW p \in PathT, NEW op \in {"cd", "open", "mkdir"}, NEW n \in Name,
           NEW flag \in Flag, Begin(p, op, n, flag)
    PROVE  TypeOK'
<1> DEFINE j == [op |-> op, path |-> p, rest |-> p.dirs, saved |-> cwd, file |-> n, flag |-> flag]
<1>1. j \in Job
  BY DEF Job, PathT, TypeOK
<1>2. /\ UNCHANGED <<disk, good, fd_cnt, fd_map>>
      /\ \/ cwd' = Root /\ LoadTable(disk, Root, j)
         \/ job' = j /\ UNCHANGED <<up, cwd, cwd_table>>
  BY DEF Begin
<1> HIDE DEF j
<1>3. CASE cwd' = Root /\ LoadTable(disk, Root, j)
  BY <1>1, <1>2, <1>3, LoadTableType, RootIsInode DEF TypeOK, AnyId
<1>4. CASE job' = j /\ UNCHANGED <<up, cwd, cwd_table>>
  BY <1>1, <1>2, <1>4 DEF TypeOK
<1> QED
  BY <1>2, <1>3, <1>4

LEMMA NextTypeOK == TypeOK /\ [Next]_vars => TypeOK'
<1> SUFFICES ASSUME TypeOK, [Next]_vars PROVE TypeOK'
  OBVIOUS
<1>1. CASE Start
  BY <1>1, LoadTableType, RootIsInode DEF Start, TypeOK, AnyId
<1>2. CASE Stop
  BY <1>2 DEF Stop, TypeOK
<1>3. CASE Mkfs
  BY <1>3, LoadTableType, RootIsInode, FormattedDiskType DEF Mkfs, TypeOK, AnyId
<1>4. CASE MkfsOnDeadStream
  BY <1>4 DEF MkfsOnDeadStream, TypeOK
<1>5. ASSUME NEW p \in Path, BeginCd(p) PROVE TypeOK'
  <2>1. "." \in Name /\ "r" \in Flag
    BY DEF Name, Flag
  <2> QED
    BY <1>5, <2>1, BeginTypeOK, ParsePathType DEF BeginCd
<1>6. ASSUME NEW p \in Path, NEW n \in Target, NEW flag \in Flag, BeginOpen(p, n, flag)
      PROVE  TypeOK'
  BY <1>6, BeginTypeOK, ParsePathType, ProcessAssumption DEF BeginOpen
<1>7. ASSUME NEW p \in Path, NEW n \in Target, BeginMkdir(p, n) PROVE TypeOK'
  <2>1. "w" \in Flag
    BY DEF Flag
  <2> QED
    BY <1>7, <2>1, BeginTypeOK, ParsePathType, ProcessAssumption DEF BeginMkdir
<1>8. ASSUME NEW fd \in DOMAIN fd_map, Close(fd) PROVE TypeOK'
  BY <1>8 DEF Close, TypeOK
<1>9. ASSUME NEW n \in RmTarget, Rm(n) PROVE TypeOK'
  <2>1. PICK k \in Match(Here, n) :
           /\ LoadTable(DeleteEntry(disk, cwd, k), cwd, Idle)
           /\ disk' \in {FreeFile(DeleteEntry(disk, cwd, k), NamedBy(k)),
                         DeleteEntry(disk, cwd, k)}
    BY <1>9 DEF Rm
  <2>2. disk.node[cwd].addr_0 \in Blocks /\ Here = disk.data[disk.node[cwd].addr_0]
    <3>1. Here.cnt > 0
      BY <1>9 DEF Rm, Scannable
    <3> QED
      BY <3>1, DiskFields DEF Here, ContentOf, Zeros, TypeOK, Ids
  <2>3. DeleteEntry(disk, cwd, k) \in Disk
    BY <2>1, <2>2, DeleteEntryType DEF TypeOK, Ids
  <2>4. NamedBy(k) \in Ids
    <3>1. Here.slots \in Seq(Entry)
      BY <2>2, DiskFields DEF TypeOK
    <3>2. k \in 1 .. Len(Here.slots)
      BY <2>1, <3>1, LenProperties DEF Match, Scanned
    <3>3. Here.slots[k] \in Entry
      BY <3>1, <3>2, ElementOfSeq
    <3> QED
      BY <3>3 DEF NamedBy, Entry
  <2>5. disk' \in Disk
    BY <2>1, <2>3, <2>4, FreeFileType
  <2>6. up' \in BOOLEAN /\ IsTable(cwd_table') /\ job' \in {Idle, Adrift}
    BY <1>9, <2>1, <2>3, LoadTableType DEF Rm, TypeOK, AnyId
  <2> QED
    BY <1>9, <2>5, <2>6 DEF Rm, TypeOK
<1>10. ASSUME NEW n \in RmTarget, RmAborts(n) PROVE TypeOK'
  BY <1>10 DEF RmAborts, TypeOK
<1>11. CASE RmUndefined
  BY <1>11 DEF RmUndefined, TypeOK
<1>12. CASE Descend
  <2> DEFINE i == cwd_table[Head(job.rest)]
             j == [job EXCEPT !.rest = Tail(@)]
  <2>1. /\ LoadTable(disk, i, j)
        /\ cwd' = IF i \in Inodes THEN i ELSE cwd
        /\ i \in AnyId
    BY <1>12 DEF Descend, TypeOK, IsTable
  <2>2. j \in Job
    BY <1>12, JobType, ShorterJob DEF Descend, Walking, Busy, TypeOK
  <2> HIDE DEF i, j
  <2>3. up' \in BOOLEAN /\ IsTable(cwd_table') /\ job' \in {j, Adrift}
    BY <1>12, <2>1, LoadTableType DEF Descend, TypeOK
  <2> QED
    BY <1>12, <2>1, <2>2, <2>3 DEF Descend, TypeOK
<1>13. CASE GiveUp
  <2>1. job' \in Job
    BY <1>13, JobType, ShorterJob DEF GiveUp, Walking, Busy, TypeOK
  <2> QED
    BY <1>13, <2>1 DEF GiveUp, TypeOK
<1>14. CASE EndCd
  BY <1>14 DEF EndCd, TypeOK
<1>15. CASE OpenExisting
  <2>1. cwd_table[job.file] \in AnyId \cup {NoId}
    BY <1>15 DEF OpenExisting, Found, TypeOK, IsTable
  <2>2. cwd' \in Inodes
    BY <1>15, JobType DEF OpenExisting, Arrived, Busy, TypeOK
  <2>3. up' \in BOOLEAN /\ IsTable(cwd_table') /\ job' \in {Idle, Adrift}
    BY <1>15, <2>2, LoadTableType DEF OpenExisting, TypeOK, AnyId
  <2> QED
    BY <1>15, <2>1, <2>2, <2>3, RegisterFDType DEF OpenExisting, TypeOK
<1>16. CASE OpenRefused
  BY <1>16 DEF OpenRefused, TypeOK
<1>17. CASE OpenNew
  <2>1. job.saved \in Inodes /\ job.file \in Name
    BY <1>17, JobType DEF OpenNew, Arrived, Busy, TypeOK
  <2>2. CreateFile(disk).id \in Ids /\ CreateFile(disk).disk \in Disk
    BY CreateFileType DEF TypeOK
  <2>3. disk' \in Disk
    BY <1>17, <2>1, <2>2, AddEntryType DEF OpenNew, TypeOK, Ids
  <2>4. up' \in BOOLEAN /\ IsTable(cwd_table') /\ job' \in {Idle, Adrift}
    BY <1>17, <2>1, <2>3, LoadTablesType DEF OpenNew, TypeOK, AnyId
  <2>5. CreateFile(disk).id \in AnyId \cup {NoId}
    BY <2>2 DEF Ids, AnyId
  <2> QED
    BY <1>17, <2>1, <2>3, <2>4, <2>5, RegisterFDType DEF OpenNew, TypeOK
<1>18. CASE Mkdir
  <2>1. job.saved \in Inodes /\ job.file \in Name
    BY <1>18, JobType DEF Mkdir, Arrived, Busy, TypeOK
  <2>2. CreateFile(disk).id \in Ids /\ CreateFile(disk).disk \in Disk /\ cwd \in Ids
    BY CreateFileType DEF TypeOK, Ids
  <2>3. disk' \in Disk
    BY <1>18, <2>1, <2>2, NewDirType, AddEntryType DEF Mkdir
  <2>4. up' \in BOOLEAN /\ IsTable(cwd_table') /\ job' \in {Idle, Adrift}
    BY <1>18, <2>1, <2>3, LoadTablesType DEF Mkdir, TypeOK, AnyId
  <2> QED
    BY <1>18, <2>1, <2>3, <2>4 DEF Mkdir, TypeOK
<1>19. CASE MkdirFailed
  BY <1>19, CreateFileType, NewDirFailedType DEF MkdirFailed, TypeOK
<1>20. CASE CreateOnDeadStream
  BY <1>20 DEF CreateOnDeadStream, TypeOK
<1>21. CASE UNCHANGED vars
  BY <1>21 DEF vars, TypeOK
<1> QED
  BY <1>1, <1>2, <1>3, <1>4, <1>5, <1>6, <1>7, <1>8, <1>9, <1>10, <1>11, <1>12, <1>13,
     <1>14, <1>15, <1>16, <1>17, <1>18, <1>19, <1>20, <1>21
     DEF Next, Command, Continue

\* Every variable keeps its type, whatever the commands.
THEOREM TypeCorrect == Spec => []TypeOK
<1> QED
  BY InitTypeOK, NextTypeOK, PTL DEF Spec

-----------------------------------------------------------------------------
(* The invariant *)

\* A process that is not adrift has loaded its current directory.
LEMMA CwdInitialised ==
    ASSUME Inv, Ready \/ Busy
    PROVE  cwd \in Initialised(disk) /\ job # Adrift /\ up
BY DEF Inv, Ready, Busy, Idle, Adrift

LEMMA InitInv == Init => Inv
BY ZeroDiskInv, FormattedDiskInv DEF Init, Inv

\* The disk after rm, whether or not the process has survived its load.
LEMMA RmDisk ==
    ASSUME TypeOK, Inv, NEW n, Rm(n)
    PROVE  \E k \in Match(Here, n) :
              /\ disk' = DeleteEntry(disk, cwd, k)
              /\ LoadTable(DeleteEntry(disk, cwd, k), cwd, Idle)
<1>1. PICK k \in Match(Here, n) :
           /\ disk' \in {FreeFile(DeleteEntry(disk, cwd, k), NamedBy(k)),
                         DeleteEntry(disk, cwd, k)}
           /\ LoadTable(DeleteEntry(disk, cwd, k), cwd, Idle)
  BY DEF Rm
<1>2. disk \in Disk /\ DiskInv(disk) /\ cwd \in Initialised(disk)
  BY DEF TypeOK, Inv, Rm, Ready, Idle, Adrift
<1> DEFINE b == disk.node[cwd].addr_0
           e == DeleteEntry(disk, cwd, k)
<1>3. cwd \in Ids /\ b \in Blocks
  BY <1>2, InitialisedFields
<1>4. Here = disk.data[b]
  BY <1>3 DEF Here, ContentOf, Blocks
<1>5. e \in Disk
  BY <1>1, <1>2, <1>3, <1>4, DeleteEntryType
<1>6. DiskInv(e) /\ Initialised(e) = Initialised(disk)
  BY <1>1, <1>2, <1>4, DeleteEntryInv
<1>7. NamedBy(k) \in Initialised(disk) \cup {NoId}
  <2>1. k \in DOMAIN Here.slots
    BY <1>1 DEF Match, Scanned
  <2>2. CASE NamedBy(k) # NoId
    <3>1. k \in Live(disk.data[b])
      BY <1>4, <2>1, <2>2 DEF NamedBy, Live
    <3> QED
      BY <1>2, <1>3, <1>4, <3>1 DEF NamedBy, DiskInv, EntriesWritten
  <2> QED
    BY <2>2
<1> HIDE DEF e
<1>8. FreeFile(e, NamedBy(k)) = e
  BY <1>5, <1>6, <1>7, FreeFileKeeps
<1>9. disk' = e
  BY <1>1, <1>8 DEF e
<1> QED
  BY <1>1, <1>9 DEF e

\* The step of rm: an entry goes, and nothing else.
LEMMA RmInv ==
    ASSUME TypeOK, Inv, NEW n, Rm(n)
    PROVE  DiskInv(disk') /\ Initialised(disk') = Initialised(disk)
<1>1. PICK k \in Match(Here, n) : disk' = DeleteEntry(disk, cwd, k)
  BY RmDisk
<1>2. disk \in Disk /\ DiskInv(disk) /\ cwd \in Initialised(disk)
  BY DEF TypeOK, Inv, Rm, Ready, Idle, Adrift
<1>3. Here = disk.data[disk.node[cwd].addr_0]
  BY <1>2 DEF Here, ContentOf, Initialised
<1> QED
  BY <1>1, <1>2, <1>3, DeleteEntryInv

\* The step of open that creates a file.
LEMMA OpenNewInv ==
    ASSUME TypeOK, Inv, OpenNew
    PROVE  DiskInv(disk') /\ Initialised(disk) \subseteq Initialised(disk')
<1> DEFINE c == CreateFile(disk)
<1>1. disk \in Disk /\ DiskInv(disk) /\ cwd \in Initialised(disk) /\ job.file \in Name
  BY JobType DEF TypeOK, Inv, OpenNew, Arrived, Busy
<1>2. disk' = AddEntry(c.disk, c.id, job.file, cwd)
  BY DEF OpenNew
<1>3. c.id \in Ids /\ c.disk \in Disk
  BY <1>1, CreateFileType
<1>4. /\ DiskInv(c.disk)
      /\ Initialised(disk) \subseteq Initialised(c.disk)
      /\ c.id # NoId => c.id \in Initialised(c.disk) /\ \A j \in Initialised(disk) : c.id > j
  BY <1>1, CreateFileInv
<1> HIDE DEF c
<1>5. cwd \in Initialised(c.disk) /\ (c.id # NoId => c.id \in Initialised(c.disk) /\ c.id > cwd)
  BY <1>1, <1>4
<1>6. DiskInv(disk') /\ Initialised(disk') = Initialised(c.disk)
  BY <1>1, <1>2, <1>3, <1>4, <1>5, AddEntryInv
<1> QED
  BY <1>4, <1>6

\* The step of mkdir that creates a directory.
LEMMA MkdirInv ==
    ASSUME TypeOK, Inv, Mkdir
    PROVE  DiskInv(disk') /\ Initialised(disk) \subseteq Initialised(disk')
<1> DEFINE c == CreateFile(disk)
           d == NewDir(c.disk, c.id, cwd)
<1>1. disk \in Disk /\ DiskInv(disk) /\ cwd \in Initialised(disk) /\ job.file \in Name
  BY JobType DEF TypeOK, Inv, Mkdir, Arrived, Busy
<1>2. c.id # NoId /\ disk' = AddEntry(d, c.id, job.file, cwd)
  BY DEF Mkdir
<1>3. c.id \in Ids /\ c.disk \in Disk
  BY <1>1, CreateFileType
<1>4. /\ DiskInv(c.disk)
      /\ Initialised(disk) \subseteq Initialised(c.disk)
      /\ c.id \in Initialised(c.disk)
      /\ c.disk.data[c.disk.node[c.id].addr_0].slots = <<>>
      /\ \A j \in Initialised(disk) : c.id > j
  BY <1>1, <1>2, CreateFileInv
<1> HIDE DEF c
<1>5. cwd \in Initialised(c.disk) /\ cwd \in Ids
  BY <1>1, <1>4, InitialisedFields
<1>6. d \in Disk
  BY <1>3, <1>5, NewDirType
<1>7. DiskInv(d) /\ Initialised(d) = Initialised(c.disk)
  BY <1>3, <1>4, <1>5, NewDirInv
<1> HIDE DEF d
<1>8. cwd \in Initialised(d) /\ c.id \in Initialised(d) /\ c.id > cwd
  BY <1>1, <1>4, <1>5, <1>7
<1>9. DiskInv(disk') /\ Initialised(disk') = Initialised(d)
  BY <1>1, <1>2, <1>3, <1>6, <1>7, <1>8, AddEntryInv
<1> QED
  BY <1>4, <1>7, <1>9

LEMMA MkdirFailedInv ==
    ASSUME TypeOK, Inv, MkdirFailed
    PROVE  DiskInv(disk') /\ Initialised(disk) \subseteq Initialised(disk')
<1> DEFINE c == CreateFile(disk)
<1>1. disk \in Disk /\ DiskInv(disk) /\ disk' = NewDirFailed(c.disk)
  BY DEF TypeOK, Inv, MkdirFailed
<1>2. c.disk \in Disk /\ DiskInv(c.disk) /\ Initialised(disk) \subseteq Initialised(c.disk)
  BY <1>1, CreateFileType, CreateFileInv
<1> HIDE DEF c
<1>3. DiskInv(NewDirFailed(c.disk)) /\ Initialised(NewDirFailed(c.disk)) = Initialised(c.disk)
  BY <1>2, NewDirFailedInv
<1> QED
  BY <1>1, <1>2, <1>3

-----------------------------------------------------------------------------
(* The steps of the process *)

LEMMA BeginInv ==
    ASSUME TypeOK, Inv, NEW p, NEW op, NEW n, NEW flag, Begin(p, op, n, flag)
    PROVE  Inv'
<1> DEFINE j == [op |-> op, path |-> p, rest |-> p.dirs, saved |-> cwd, file |-> n, flag |-> flag]
<1>1. /\ disk' = disk /\ good' = good
      /\ up /\ job = Idle
      /\ \/ cwd' = Root /\ LoadTable(disk, Root, j)
         \/ UNCHANGED cwd
  BY DEF Begin, Ready
<1>2. cwd \in Initialised(disk)
  BY <1>1 DEF Inv, Idle, Adrift
<1> HIDE DEF j
<1>3. up' /\ job' # Adrift => cwd' \in Initialised(disk)
  BY <1>1, <1>2, RootIsInode, LoadTableType DEF TypeOK, AnyId
<1> QED
  BY <1>1, <1>3 DEF Inv

LEMMA NextInv == TypeOK /\ Inv /\ [Next]_vars => Inv'
<1> SUFFICES ASSUME TypeOK, Inv, [Next]_vars PROVE Inv'
  OBVIOUS
<1>1. TypeOK'
  BY NextTypeOK
<1>2. disk \in Disk /\ disk' \in Disk /\ cwd \in Inodes /\ cwd' \in Inodes /\ good' \in BOOLEAN
  BY <1>1 DEF TypeOK
<1>3. CASE Start
  BY <1>2, <1>3, LoadTableType, RootIsInode DEF Start, Inv, AnyId
<1>4. CASE Stop
  BY <1>4 DEF Stop, Inv
<1>5. CASE Mkfs
  BY <1>2, <1>5, FormattedDiskInv, LoadTableType, RootIsInode DEF Mkfs, Inv, AnyId
<1>6. CASE MkfsOnDeadStream
  BY <1>6 DEF MkfsOnDeadStream, Inv
<1>7. ASSUME NEW p \in Path, BeginCd(p) PROVE Inv'
  BY <1>7, BeginInv DEF BeginCd
<1>8. ASSUME NEW p \in Path, NEW n \in Target, NEW flag \in Flag, BeginOpen(p, n, flag)
      PROVE  Inv'
  BY <1>8, BeginInv DEF BeginOpen
<1>9. ASSUME NEW p \in Path, NEW n \in Target, BeginMkdir(p, n) PROVE Inv'
  BY <1>9, BeginInv DEF BeginMkdir
<1>10. ASSUME NEW fd \in DOMAIN fd_map, Close(fd) PROVE Inv'
  BY <1>10 DEF Close, Inv
<1>11. ASSUME NEW n \in RmTarget, Rm(n) PROVE Inv'
  <2>1. DiskInv(disk') /\ Initialised(disk') = Initialised(disk)
    BY <1>11, RmInv
  <2>2. cwd' = cwd /\ cwd \in Initialised(disk)
    BY <1>11, CwdInitialised DEF Rm
  <2> QED
    BY <2>1, <2>2 DEF Inv
<1>12. ASSUME NEW n \in RmTarget, RmAborts(n) PROVE Inv'
  BY <1>12 DEF RmAborts, Inv
<1>13. CASE RmUndefined
  BY <1>13, CwdInitialised DEF RmUndefined, Inv
<1>14. CASE Descend
  <2> DEFINE i == cwd_table[Head(job.rest)]
             j == [job EXCEPT !.rest = Tail(@)]
  <2>1. /\ LoadTable(disk, i, j) /\ disk' = disk
        /\ cwd' = IF i \in Inodes THEN i ELSE cwd
        /\ i \in AnyId
    BY <1>14 DEF Descend, TypeOK, IsTable
  <2> HIDE DEF i, j
  <2>2. up' /\ job' # Adrift => i \in Initialised(disk)
    BY <1>2, <2>1, LoadTableType
  <2> QED
    BY <2>1, <2>2 DEF Inv, Initialised
<1>15. CASE GiveUp
  BY <1>15, CwdInitialised DEF GiveUp, Walking, Inv
<1>16. CASE EndCd
  BY <1>16, CwdInitialised DEF EndCd, Arrived, Inv
<1>17. CASE OpenExisting
  BY <1>2, <1>17, LoadTableType DEF OpenExisting, Inv, AnyId
<1>18. CASE OpenRefused
  BY <1>18, CwdInitialised DEF OpenRefused, Arrived, Inv
<1>19. CASE OpenNew
  <2>1. DiskInv(disk')
    BY <1>19, OpenNewInv
  <2>2. up' /\ job' # Adrift => cwd' \in Initialised(disk')
    BY <1>2, <1>19, LoadTablesType DEF OpenNew, AnyId
  <2> QED
    BY <2>1, <2>2 DEF Inv
<1>20. CASE Mkdir
  <2>1. DiskInv(disk')
    BY <1>20, MkdirInv
  <2>2. up' /\ job' # Adrift => cwd' \in Initialised(disk')
    BY <1>2, <1>20, LoadTablesType DEF Mkdir, AnyId
  <2> QED
    BY <2>1, <2>2 DEF Inv
<1>21. CASE MkdirFailed
  <2>1. DiskInv(disk') /\ Initialised(disk) \subseteq Initialised(disk')
    BY <1>21, MkdirFailedInv
  <2>2. cwd' = cwd /\ cwd \in Initialised(disk)
    BY <1>21, CwdInitialised DEF MkdirFailed, Arrived
  <2> QED
    BY <2>1, <2>2 DEF Inv
<1>22. CASE CreateOnDeadStream
  BY <1>22, CwdInitialised DEF CreateOnDeadStream, Arrived, Inv
<1>23. CASE UNCHANGED vars
  BY <1>23 DEF vars, Inv
<1> QED
  BY <1>3, <1>4, <1>5, <1>6, <1>7, <1>8, <1>9, <1>10, <1>11, <1>12, <1>13, <1>14,
     <1>15, <1>16, <1>17, <1>18, <1>19, <1>20, <1>21, <1>22, <1>23
     DEF Next, Command, Continue

-----------------------------------------------------------------------------
(* What follows *)

\* The invariant the rest is drawn from.
THEOREM InvCorrect == Spec => []Inv
<1> QED
  BY InitTypeOK, NextTypeOK, InitInv, NextInv, PTL DEF Spec

LEMMA ContentInitialised ==
    ASSUME NEW i \in Initialised(disk), TypeOK
    PROVE  DirOf(i) = disk.data[disk.node[i].addr_0] /\ disk.node[i].addr_0 \in Blocks
BY InitialisedFields DEF DirOf, ContentOf, Blocks, TypeOK

LEMMA EntryInitialised ==
    ASSUME TypeOK, Inv, NEW i \in Initialised(disk), NEW k \in Live(DirOf(i))
    PROVE  ChildId(i, k) \in Initialised(disk)
BY ContentInitialised DEF ChildId, Inv, DiskInv, EntriesWritten

\* Whatever is removed, in whatever order, an entry that is not deleted names
\* an inode that is allocated and written, with an allocated data block.
THEOREM EntriesCorrect == Spec => []EntriesInitialised
<1>1. ASSUME TypeOK, Inv PROVE EntriesInitialised
  <2>1. \A j \in Initialised(disk) : /\ disk.imap[j] = 1
                                    /\ disk.node[j].addr_0 # NoBlock
                                    /\ disk.dmap[disk.node[j].addr_0] = 1
    BY <1>1 DEF Inv, DiskInv, WrittenAllocated, Initialised
  <2> QED
    BY <1>1, <2>1, EntryInitialised DEF EntriesInitialised
<1> QED
  BY <1>1, TypeCorrect, InvCorrect, PTL

\* Two inodes never have the same data block, those of removed files included.
THEOREM BlocksCorrect == Spec => []NoSharedBlock
<1>1. Inv => NoSharedBlock
  BY DEF NoSharedBlock, Inv, DiskInv, BlocksDistinct
<1> QED
  BY <1>1, InvCorrect, PTL

\* Directories hold younger inodes only: the recursion of tree() ends.
THEOREM YoungerCorrect == Spec => []ChildrenYounger
<1>1. TypeOK /\ Inv => ChildrenYounger
  BY ContentInitialised
     DEF ChildrenYounger, Directories, Children, ChildId, Inv, DiskInv, EntriesYounger
<1> QED
  BY <1>1, TypeCorrect, InvCorrect, PTL

\* An inode that is handed out was neither the current directory nor named by
\* an entry.
THEOREM FreshCorrect == Spec => FreshInodeUnnamed
<1> DEFINE Unnamed == ~Mkfs => \A f \in Inodes : disk.imap[f] = 0 /\ disk'.imap[f] = 1 =>
                         /\ f # cwd
                         /\ \A i \in Initialised(disk) : \A k \in Live(DirOf(i)) : ChildId(i, k) # f
<1>1. ASSUME TypeOK, Inv, [Next]_vars PROVE Unnamed
  <2>1. \A j \in Initialised(disk) : disk.imap[j] = 1
    BY <1>1 DEF Inv, DiskInv, WrittenAllocated
  <2>2. disk' # disk => Mkfs \/ Ready \/ Busy
    BY <1>1 DEF Next, Command, Continue, Start, Stop, MkfsOnDeadStream, Begin,
                BeginCd, BeginOpen, BeginMkdir, Close, Rm, RmAborts, RmUndefined, Walking,
                Arrived, Descend, GiveUp, EndCd, OpenExisting, OpenRefused, OpenNew, Mkdir,
                MkdirFailed, CreateOnDeadStream, vars
  <2>3. ASSUME ~Mkfs, NEW f \in Inodes, disk.imap[f] = 0, disk'.imap[f] = 1
        PROVE  /\ f # cwd
               /\ \A i \in Initialised(disk) : \A k \in Live(DirOf(i)) : ChildId(i, k) # f
    <3>1. disk' # disk
      BY <2>3
    <3>2. cwd \in Initialised(disk)
      BY <1>1, <2>2, <2>3, <3>1, CwdInitialised
    <3> QED
      BY <1>1, <2>1, <2>3, <3>2, EntryInitialised
  <2> QED
    BY <2>3
<1>2. TypeOK /\ Inv /\ [Next]_vars => [Unnamed]_vars
  BY <1>1
<1> QED
  BY <1>2, TypeCorrect, InvCorrect, PTL DEF Spec, FreshInodeUnnamed
=============================================================================
