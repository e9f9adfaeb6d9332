---------------------------- MODULE VSCrashProofs ----------------------------
(***************************************************************************)
(* A kill between two writes: the host file of VSCrash keeps the invariant *)
(* DiskInv of VSProperties, whichever command is cut and at whatever write *)
(* of it, except in the middle of mkfs.  Behind it, what the order of the  *)
(* writes is for: no name leads to a directory without its "." and "..", a *)
(* cut command shows and hides no other names than the whole one, and no   *)
(* creation leaves a counter above the entries that are there.             *)
(***************************************************************************)
EXTENDS VSCrash, VSDirectoryProofs

USE DEF NoId, NoBlock, RegularFile, Directory, Root

SoundDisk == {d \in Disk : DiskInv(d)}

-----------------------------------------------------------------------------
(* Sequences of images *)

LEMMA ConcatLast ==
    ASSUME NEW S, NEW s \in Seq(S), NEW t \in Seq(S), t # <<>>
    PROVE  /\ s \o t \in Seq(S)
           /\ s \o t # <<>>
           /\ Last(s \o t) = Last(t)
<1>1. Len(s) \in Nat /\ Len(t) \in Nat /\ Len(t) > 0
  BY LenProperties, EmptySeq
<1>2. /\ s \o t \in Seq(S)
      /\ Len(s \o t) = Len(s) + Len(t)
      /\ (s \o t)[Len(s) + Len(t)] = t[Len(t)]
  BY <1>1, ConcatProperties
<1>3. s \o t # <<>>
  BY <1>1, <1>2, EmptySeq
<1> QED
  BY <1>2, <1>3 DEF Last

LEMMA Images ==
    ASSUME NEW S, NEW a \in S, NEW b \in S
    PROVE  /\ <<a>> \in Seq(S) /\ <<a>> # <<>> /\ Last(<<a>>) = a
           /\ <<a, b>> \in Seq(S) /\ <<a, b>> # <<>> /\ Last(<<a, b>>) = b
BY DEF Last

\* A sequence of images grows at its end.
LEMMA SoundAreDisks == Seq(SoundDisk) \subseteq Seq(Disk)
BY DEF SoundDisk

-----------------------------------------------------------------------------
(* The images are disks, whatever disk the command begins with *)

\* What the commands put into `todo`: images of a disk that end with disk e.
ImagesOf(e) == {s \in Seq(Disk) : s # <<>> /\ Last(s) = e}

LEMMA ImagesEnd ==
    ASSUME NEW e, NEW s \in Seq(Disk), NEW t \in ImagesOf(e)
    PROVE  s \o t \in ImagesOf(e)
BY ConcatLast DEF ImagesOf

LEMMA CreateImagesType ==
    ASSUME NEW d \in Disk
    PROVE  CreateImages(d) \in Seq(Disk)
<1> DEFINE i == AllocBit(d.imap)
           b == AllocBit(d.dmap)
           d1 == TakeInode(d, i)
           d2 == TakeBlock(d1, b)
<1>1. (i = NoId \/ i \in Inodes) /\ (b = NoId \/ b \in Blocks)
  BY AllocatedFree
<1>2. i # NoId => d1 \in Disk
  BY <1>1, TakeInodeType
<1>3. i # NoId /\ b # NoId => d2 \in Disk
  <2> HIDE DEF d1
  <2> QED
    BY <1>1, <1>2, TakeBlockType
<1>4. CreateFile(d).disk \in Disk
  BY CreateFileType
<1>5. CreateImages(d) = IF i = NoId THEN <<>>
                        ELSE IF b = NoId THEN <<d1>>
                        ELSE <<d1, d2, CreateFile(d).disk>>
  BY DEF CreateImages
<1> HIDE DEF i, b, d1, d2
<1>6. CASE i = NoId
  BY <1>5, <1>6, EmptySeq
<1>7. CASE i # NoId /\ b = NoId
  BY <1>2, <1>5, <1>7, Images
<1>8. CASE i # NoId /\ b # NoId
  BY <1>2, <1>3, <1>4, <1>5, <1>8
<1> QED
  BY <1>6, <1>7, <1>8

\* An entry that goes to an inode never written, NoBlock, changes nothing.
LEMMA EntryImagesType ==
    ASSUME NEW d \in Disk, NEW f \in Ids, NEW n \in Name, NEW dir \in Ids
    PROVE  EntryImages(d, f, n, dir) \in ImagesOf(AddEntry(d, f, n, dir))
<1> DEFINE b == d.node[dir].addr_0
           e == AddEntry(d, f, n, dir)
           c == [d.data[b] EXCEPT !.slots = e.data[b].slots]
           w == WriteContent(d, b, c)
<1>1. b \in Blocks \cup {NoBlock}
  BY DiskFields
<1>2. e \in Disk
  BY AddEntryType
<1>3. EntryImages(d, f, n, dir) = <<w, e>>
  BY DEF EntryImages
<1> HIDE DEF b, e
<1>4. b \in Blocks => c \in Content
  <2> SUFFICES ASSUME b \in Blocks PROVE c \in Content
    OBVIOUS
  <2>1. d.data[b] \in Content /\ e.data[b].slots \in Seq(Entry)
    BY <1>2, DiskFields
  <2> QED
    BY <2>1 DEF Content
<1> HIDE DEF c
<1>5. w \in Disk
  BY <1>1, <1>4, WriteContentType
<1> HIDE DEF w
<1>6. <<w, e>> \in ImagesOf(e)
  BY <1>2, <1>5, Images, ZenonT(60) DEF ImagesOf
<1> QED
  BY <1>3, <1>6 DEF e

LEMMA DirImagesType ==
    ASSUME NEW d \in Disk, NEW i \in Ids, NEW parent \in Ids
    PROVE  DirImages(d, i, parent) \in ImagesOf(NewDir(d, i, parent))
<1> DEFINE t  == [d EXCEPT !.node[i].type = Directory]
           d1 == MakeDirectory(d, i, 0)
           d2 == AddEntry(d1, i, ".", i)
           s1 == EntryImages(d1, i, ".", i)
           s2 == EntryImages(d2, parent, "..", i)
           e  == AddEntry(d2, parent, "..", i)
<1>1. "." \in Name /\ ".." \in Name
  BY DEF Name
<1>2. t \in Disk
  <2>1. d.node[i] \in InodeT /\ d.node \in [Ids -> InodeT]
    BY DiskFields
  <2> DEFINE node == [d.node[i] EXCEPT !.type = Directory]
  <2>2. node \in InodeT
    BY <2>1 DEF InodeT
  <2>3. t = [d EXCEPT !.node = [d.node EXCEPT ![i] = node]]
    BY <2>1
  <2> HIDE DEF node, t
  <2>4. [d.node EXCEPT ![i] = node] \in [Ids -> InodeT]
    BY <2>1, <2>2
  <2> QED
    BY <2>3, <2>4 DEF Disk
<1>3. d1 \in Disk
  BY MakeDirectoryType
<1>4. /\ DirImages(d, i, parent) = <<t, d1>> \o s1 \o s2
      /\ NewDir(d, i, parent) = e
  BY DEF DirImages, NewDir
<1> HIDE DEF t, d1
<1>5. d2 \in Disk /\ s1 \in Seq(Disk)
  BY <1>1, <1>3, AddEntryType, EntryImagesType DEF ImagesOf
<1> HIDE DEF d2, s1
<1>6. s2 \in ImagesOf(e)
  BY <1>1, <1>5, EntryImagesType
<1> HIDE DEF s2, e
<1>7. <<t, d1>> \o s1 \in Seq(Disk)
  BY <1>2, <1>3, <1>5, ConcatProperties
<1> DEFINE s == <<t, d1>> \o s1
<1> HIDE DEF s
<1>8. s \o s2 \in ImagesOf(e)
  BY <1>6, <1>7, ImagesEnd DEF s
<1> QED
  BY <1>4, <1>8 DEF s

LEMMA OpenImagesType ==
    ASSUME NEW d \in Disk, NEW n \in Name, NEW dir \in Ids
    PROVE  LET c == CreateFile(d)
           IN  OpenImages(d, n, dir) \in ImagesOf(AddEntry(c.disk, c.id, n, dir))
BY CreateFileType, CreateImagesType, EntryImagesType, ImagesEnd DEF OpenImages

LEMMA MkdirImagesType ==
    ASSUME NEW d \in Disk, NEW n \in Name, NEW dir \in Ids
    PROVE  LET c == CreateFile(d)
           IN  MkdirImages(d, n, dir) \in
                   ImagesOf(AddEntry(NewDir(c.disk, c.id, dir), c.id, n, dir))
<1> DEFINE c == CreateFile(d)
           made == CreateImages(d)
           filled == DirImages(c.disk, c.id, dir)
           e == NewDir(c.disk, c.id, dir)
           entry == EntryImages(e, c.id, n, dir)
<1>1. c.id \in Ids /\ c.disk \in Disk /\ made \in Seq(Disk)
  BY CreateFileType, CreateImagesType
<1>2. MkdirImages(d, n, dir) = made \o filled \o entry
  BY DEF MkdirImages
<1> HIDE DEF c, made
<1>3. filled \in Seq(Disk) /\ e \in Disk
  BY <1>1, DirImagesType, NewDirType DEF ImagesOf
<1> HIDE DEF filled, e
<1>4. entry \in ImagesOf(AddEntry(e, c.id, n, dir))
  BY <1>1, <1>3, EntryImagesType
<1> HIDE DEF entry
<1> DEFINE s == made \o filled
<1>5. s \in Seq(Disk)
  BY <1>1, <1>3, ConcatProperties
<1>6. made \o filled \o entry = s \o entry
  OBVIOUS
<1> HIDE DEF s
<1>7. s \o entry \in ImagesOf(AddEntry(e, c.id, n, dir))
  BY <1>4, <1>5, ImagesEnd
<1> QED
  BY <1>2, <1>6, <1>7 DEF c, e

LEMMA MkdirFailedImagesType ==
    ASSUME NEW d \in Disk
    PROVE  MkdirFailedImages(d) \in ImagesOf(NewDirFailed(CreateFile(d).disk))
<1> DEFINE c == CreateFile(d).disk
           made == CreateImages(d)
           node == [type |-> Directory, addr_0 |-> NoBlock]
           w == WriteInode(c, NoId, node)
           e == NewDirFailed(c)
<1>1. c \in Disk /\ made \in Seq(Disk)
  BY CreateFileType, CreateImagesType
<1>2. MkdirFailedImages(d) = made \o <<w, e>>
  BY DEF MkdirFailedImages
<1> HIDE DEF c, made
<1>3. node \in InodeT /\ NoId \in Ids
  BY DEF InodeT, Ids
<1> HIDE DEF node
<1>4. w \in Disk /\ e \in Disk
  BY <1>1, <1>3, WriteInodeType, NewDirFailedType
<1> HIDE DEF w, e
<1>5. <<w, e>> \in ImagesOf(e)
  BY <1>4, Images, ZenonT(60) DEF ImagesOf
<1>6. made \o <<w, e>> \in ImagesOf(e)
  BY <1>1, <1>5, ImagesEnd
<1> QED
  BY <1>2, <1>6 DEF e, c

LEMMA RmImagesType ==
    ASSUME NEW d \in Disk, NEW dir \in Ids, d.node[dir].addr_0 \in Blocks, NEW n,
           NEW k \in Match(d.data[d.node[dir].addr_0], n)
    PROVE  RmImages(d, dir, k) \in ImagesOf(DeleteEntry(d, dir, k))
<1> DEFINE b == d.node[dir].addr_0
           e == DeleteEntry(d, dir, k)
           c == [d.data[b] EXCEPT !.slots = e.data[b].slots]
           w == WriteContent(d, b, c)
<1>1. b \in Blocks
  OBVIOUS
<1>2. e \in Disk
  BY DeleteEntryType
<1>3. RmImages(d, dir, k) = <<w, e>>
  BY DEF RmImages
<1> HIDE DEF b, e
<1>4. c \in Content
  <2>1. d.data[b] \in Content /\ e.data[b].slots \in Seq(Entry)
    BY <1>1, <1>2, DiskFields
  <2> QED
    BY <2>1 DEF Content
<1> HIDE DEF c
<1>5. w \in Disk
  BY <1>1, <1>4, WriteContentType
<1> HIDE DEF w
<1>6. <<w, e>> \in ImagesOf(e)
  BY <1>2, <1>5, Images, ZenonT(60) DEF ImagesOf
<1> QED
  BY <1>3, <1>6 DEF e

\* rmDirEntry finds one entry of a name, the first.
LEMMA MatchUnique ==
    ASSUME NEW c \in Content, NEW n, NEW k \in Match(c, n), NEW l \in Match(c, n)
    PROVE  k = l
<1>1. k \in Nat /\ l \in Nat
  <2>1. c.slots \in Seq(Entry)
    BY DEF Content
  <2> QED
    BY <2>1, LenProperties DEF Match, Scanned
<1>2. k <= l /\ l <= k
  BY DEF Match
<1> QED
  BY <1>1, <1>2

-----------------------------------------------------------------------------
(* The images of each operation *)

\* createFile: whatever has been taken is written later, or never.
LEMMA CreateImagesSound ==
    ASSUME NEW d \in SoundDisk
    PROVE  CreateImages(d) \in Seq(SoundDisk)
<1> DEFINE i == AllocBit(d.imap)
           b == AllocBit(d.dmap)
           d1 == TakeInode(d, i)
           d2 == TakeBlock(d1, b)
<1>1. d \in Disk /\ DiskInv(d)
  BY DEF SoundDisk
<1>2. /\ i = NoId \/ (i \in Inodes /\ \A j \in Inodes : j < i => d.imap[j] = 1)
      /\ b = NoId \/ b \in Blocks
  BY <1>1, AllocatedFree
<1>3. CreateFile(d).disk \in SoundDisk
  BY <1>1, CreateFileType, CreateFileInv DEF SoundDisk
<1>4. ASSUME i # NoId PROVE d1 \in SoundDisk
  BY <1>1, <1>2, <1>4, TakeInodeType, TakeInodeInv DEF SoundDisk
<1>5. ASSUME i # NoId, b # NoId PROVE d2 \in SoundDisk
  <2>1. d1 \in Disk /\ DiskInv(d1)
    BY <1>4, <1>5 DEF SoundDisk
  <2> HIDE DEF d1
  <2>2. d2 \in Disk /\ DiskInv(d2)
    BY <1>2, <1>5, <2>1, TakeBlockType, TakeBlockInv
  <2> QED
    BY <2>2 DEF SoundDisk
<1>6. CreateImages(d) = IF i = NoId THEN <<>>
                        ELSE IF b = NoId THEN <<d1>>
                        ELSE <<d1, d2, CreateFile(d).disk>>
  BY DEF CreateImages
<1> HIDE DEF i, b, d1, d2
<1>7. CASE i = NoId
  BY <1>6, <1>7, EmptySeq
<1>8. CASE i # NoId /\ b = NoId
  BY <1>4, <1>6, <1>8, Images
<1>9. CASE i # NoId /\ b # NoId
  BY <1>3, <1>4, <1>5, <1>6, <1>9
<1> QED
  BY <1>7, <1>8, <1>9

\* A write that gives a block the entries it has on sound disk e is sound: its
\* counter does not matter.
LEMMA SlotsSound ==
    ASSUME NEW d \in Disk, NEW e \in SoundDisk, NEW b \in Blocks,
           e.imap = d.imap, e.dmap = d.dmap, e.node = d.node,
           \A x \in Blocks : x # b => e.data[x] = d.data[x]
    PROVE  WriteContent(d, b, [d.data[b] EXCEPT !.slots = e.data[b].slots]) \in SoundDisk
<1> DEFINE c == [d.data[b] EXCEPT !.slots = e.data[b].slots]
           w == WriteContent(d, b, c)
<1>1. e \in Disk /\ DiskInv(e)
  BY DEF SoundDisk
<1>2. d.data[b] \in Content /\ e.data[b] \in Content
  BY <1>1, DiskFields
<1>3. c \in Content /\ c.slots = e.data[b].slots
  BY <1>2 DEF Content
<1> HIDE DEF c
<1>4. /\ w \in Disk /\ w.imap = d.imap /\ w.dmap = d.dmap /\ w.node = d.node
      /\ w.data = [d.data EXCEPT ![b] = c]
  BY <1>3, WriteContentType
<1> HIDE DEF w
<1>5. \A x \in Blocks : w.data[x].slots = e.data[x].slots
  BY <1>3, <1>4, DiskFields
<1>6. \A x \in Blocks : \A k \in Live(w.data[x]) :
          k \in Live(e.data[x]) /\ w.data[x].slots[k].id = e.data[x].slots[k].id
  BY <1>5 DEF Live
<1>7. DiskInv(w)
  BY <1>1, <1>4, <1>6, EntriesKept
<1> QED
  BY <1>4, <1>7 DEF SoundDisk, w, c

\* addEntryToDir: between the entry and the counter the entry is there already.
LEMMA EntryImagesSound ==
    ASSUME NEW d \in SoundDisk, NEW n \in Name, NEW dir \in Initialised(d), NEW f \in Ids,
           f # NoId => /\ f \in Initialised(d)
                       /\ f > dir \/ Len(d.data[d.node[dir].addr_0].slots) < 2
    PROVE  /\ EntryImages(d, f, n, dir) \in Seq(SoundDisk)
           /\ EntryImages(d, f, n, dir) # <<>>
           /\ Last(EntryImages(d, f, n, dir)) = AddEntry(d, f, n, dir)
<1> DEFINE b == d.node[dir].addr_0
           e == AddEntry(d, f, n, dir)
           w == WriteContent(d, b, [d.data[b] EXCEPT !.slots = e.data[b].slots])
<1>1. d \in Disk /\ DiskInv(d)
  BY DEF SoundDisk
<1>2. dir \in Ids /\ b \in Blocks
  BY <1>1, InitialisedFields
<1>3. e \in SoundDisk
  BY <1>1, <1>2, AddEntryType, AddEntryInv DEF SoundDisk
<1>4. /\ e.imap = d.imap /\ e.dmap = d.dmap /\ e.node = d.node
      /\ \A x \in Blocks : x # b => e.data[x] = d.data[x]
  BY <1>1, AddEntryFields
<1>5. EntryImages(d, f, n, dir) = <<w, e>>
  BY DEF EntryImages
<1> HIDE DEF e, b
<1>6. w \in SoundDisk
  BY <1>1, <1>2, <1>3, <1>4, SlotsSound
<1>7. e = AddEntry(d, f, n, dir)
  BY DEF e
<1> HIDE DEF w
<1>8. <<w, e>> \in Seq(SoundDisk) /\ <<w, e>> # <<>> /\ Last(<<w, e>>) = e
  BY <1>3, <1>6, Images, ZenonT(60)
<1> QED
  BY <1>5, <1>7, <1>8

\* newDir: a directory without entries, then with ".", then with "..".
LEMMA DirImagesSound ==
    ASSUME NEW d \in SoundDisk, NEW i \in Initialised(d), NEW parent \in Initialised(d),
           d.data[d.node[i].addr_0].slots = <<>>
    PROVE  /\ DirImages(d, i, parent) \in Seq(SoundDisk)
           /\ DirImages(d, i, parent) # <<>>
           /\ Last(DirImages(d, i, parent)) = NewDir(d, i, parent)
<1> DEFINE t  == [d EXCEPT !.node[i].type = Directory]
           d1 == MakeDirectory(d, i, 0)
           d2 == AddEntry(d1, i, ".", i)
           s1 == EntryImages(d1, i, ".", i)
           s2 == EntryImages(d2, parent, "..", i)
           b  == d.node[i].addr_0
<1>1. d \in Disk /\ DiskInv(d) /\ "." \in Name /\ ".." \in Name
  BY DEF SoundDisk, Name
<1>2. i \in Ids /\ parent \in Ids /\ b \in Blocks /\ i # NoId /\ parent # NoId
  BY <1>1, InitialisedFields DEF Inodes
<1>3. t \in SoundDisk
  <2>1. /\ t \in Disk /\ t.imap = d.imap /\ t.dmap = d.dmap /\ t.data = d.data
        /\ t.node = [d.node EXCEPT ![i].type = Directory]
    BY <1>1, <1>2, ZenonT(60) DEF Disk, InodeT
  <2>2. \A j \in Inodes : t.node[j].addr_0 = d.node[j].addr_0
    <3>1. \A j \in Ids : d.node[j] \in InodeT
      BY <1>1, DiskFields
    <3>2. Inodes \subseteq Ids
      BY DEF Ids
    <3> HIDE DEF t
    <3> QED
      BY <1>1, <1>2, <2>1, <3>1, <3>2, DiskFields DEF InodeT
  <2> HIDE DEF t
  <2>3. DiskInv(t)
    BY <1>1, <2>1, <2>2, EntriesKept
  <2> QED
    BY <2>1, <2>3 DEF SoundDisk
<1>4. d1 \in Disk
  BY <1>1, <1>2, MakeDirectoryType
<1>5. /\ d1.imap = d.imap
      /\ d1.dmap = d.dmap
      /\ \A j \in Ids : d1.node[j].addr_0 = d.node[j].addr_0
      /\ \A x \in Blocks : d1.data[x].slots = d.data[x].slots
  BY <1>1, MakeDirectoryFields
<1> HIDE DEF d1
<1>6. DiskInv(d1) /\ Initialised(d1) = Initialised(d)
  <2>1. /\ Inodes \subseteq Ids
        /\ \A x \in Blocks : Live(d1.data[x]) = Live(d.data[x])
    BY <1>5 DEF Live, Ids
  <2> QED
    BY <1>1, <1>4, <1>5, <2>1, EntriesKept
<1>7. d1 \in SoundDisk /\ d1.node[i].addr_0 = b /\ Len(d1.data[b].slots) = 0
  BY <1>2, <1>4, <1>5, <1>6, EmptySeq DEF SoundDisk
<1>8. i \in Initialised(d1) /\ Len(d1.data[d1.node[i].addr_0].slots) < 2
  BY <1>6, <1>7
<1>9. s1 \in Seq(SoundDisk) /\ s1 # <<>>
  BY <1>1, <1>2, <1>7, <1>8, EntryImagesSound
<1>10. /\ d2 \in Disk /\ DiskInv(d2) /\ Initialised(d2) = Initialised(d)
       /\ d2.node = d1.node
       /\ Len(d2.data[d1.node[i].addr_0].slots) = Len(d1.data[d1.node[i].addr_0].slots) + 1
  <2>1. d2 \in Disk
    BY <1>1, <1>2, <1>4, AddEntryType
  <2>2. DiskInv(d2) /\ Initialised(d2) = Initialised(d)
    BY <1>1, <1>2, <1>4, <1>6, <1>8, AddEntryInv
  <2>3. d2.node = d1.node
    BY <1>1, <1>2, <1>4, <1>8, AddEntryFields
  <2>4. Len(d2.data[d1.node[i].addr_0].slots) = Len(d1.data[d1.node[i].addr_0].slots) + 1
    BY <1>1, <1>2, <1>4, <1>8, AddEntryLength
  <2> QED
    BY <2>1, <2>2, <2>3, <2>4
<1>11. d2 = AddEntry(d1, i, ".", i)
  OBVIOUS
<1> HIDE DEF d2, s1
<1>12. /\ d2 \in SoundDisk /\ i \in Initialised(d2) /\ parent \in Initialised(d2)
       /\ Len(d2.data[d2.node[i].addr_0].slots) < 2
  <2>1. Len(d2.data[d2.node[i].addr_0].slots) = 0 + 1
    BY <1>7, <1>10
  <2>2. d2 \in SoundDisk
    BY <1>10 DEF SoundDisk
  <2>3. i \in Initialised(d2) /\ parent \in Initialised(d2)
    BY <1>10
  <2> QED
    BY <2>1, <2>2, <2>3
<1>13. s2 \in Seq(SoundDisk) /\ s2 # <<>> /\ Last(s2) = AddEntry(d2, parent, "..", i)
  BY <1>1, <1>2, <1>12, EntryImagesSound
<1>14. DirImages(d, i, parent) = <<t, d1>> \o s1 \o s2
  BY <1>11 DEF DirImages, d1, s1
<1>15. NewDir(d, i, parent) = AddEntry(d2, parent, "..", i)
  BY <1>11 DEF NewDir, d1
<1> HIDE DEF t, s2
<1>16. <<t, d1>> \in Seq(SoundDisk)
  BY <1>3, <1>7
<1>17. <<t, d1>> \o s1 \in Seq(SoundDisk)
  BY <1>9, <1>16, ConcatLast
<1> HIDE DEF b
<1> DEFINE s == <<t, d1>> \o s1
<1> HIDE DEF s
<1>18. s \o s2 \in Seq(SoundDisk) /\ s \o s2 # <<>> /\ Last(s \o s2) = Last(s2)
  BY <1>13, <1>17, ConcatLast DEF s
<1> QED
  BY <1>13, <1>14, <1>15, <1>18 DEF s

-----------------------------------------------------------------------------
(* The images of each command *)

\* open: a file and its entry; of a failed createFile the entry alone.
LEMMA OpenImagesSound ==
    ASSUME NEW d \in SoundDisk, NEW n \in Name, NEW dir \in Initialised(d)
    PROVE  LET c == CreateFile(d)
           IN  /\ OpenImages(d, n, dir) \in Seq(SoundDisk)
               /\ OpenImages(d, n, dir) # <<>>
               /\ Last(OpenImages(d, n, dir)) = AddEntry(c.disk, c.id, n, dir)
<1> DEFINE c == CreateFile(d)
           made == CreateImages(d)
           entry == EntryImages(c.disk, c.id, n, dir)
<1>1. d \in Disk /\ DiskInv(d)
  BY DEF SoundDisk
<1>2. c.id \in Ids /\ c.disk \in SoundDisk
  BY <1>1, CreateFileType, CreateFileInv DEF SoundDisk
<1>3. /\ dir \in Initialised(c.disk)
      /\ c.id # NoId => c.id \in Initialised(c.disk) /\ c.id > dir
  BY <1>1, CreateFileInv
<1>4. made \in Seq(SoundDisk)
  BY CreateImagesSound
<1>5. OpenImages(d, n, dir) = made \o entry
  BY DEF OpenImages
<1> HIDE DEF c, made
<1>6. entry \in Seq(SoundDisk) /\ entry # <<>> /\ Last(entry) = AddEntry(c.disk, c.id, n, dir)
  BY <1>2, <1>3, EntryImagesSound
<1> HIDE DEF entry
<1>7. made \o entry \in Seq(SoundDisk) /\ made \o entry # <<>> /\ Last(made \o entry) = Last(entry)
  BY <1>4, <1>6, ConcatLast
<1> QED
  BY <1>5, <1>6, <1>7 DEF c

\* mkdir: a file, what makes it a directory, and its entry.
LEMMA MkdirImagesSound ==
    ASSUME NEW d \in SoundDisk, NEW n \in Name, NEW dir \in Initialised(d),
           CreateFile(d).id # NoId
    PROVE  LET c == CreateFile(d)
           IN  /\ MkdirImages(d, n, dir) \in Seq(SoundDisk)
               /\ MkdirImages(d, n, dir) # <<>>
               /\ Last(MkdirImages(d, n, dir)) =
                     AddEntry(NewDir(c.disk, c.id, dir), c.id, n, dir)
<1> DEFINE c == CreateFile(d)
           made == CreateImages(d)
           filled == DirImages(c.disk, c.id, dir)
           e == NewDir(c.disk, c.id, dir)
           entry == EntryImages(e, c.id, n, dir)
<1>1. d \in Disk /\ DiskInv(d)
  BY DEF SoundDisk
<1>2. c.id \in Ids /\ c.id # NoId /\ c.disk \in SoundDisk
  BY <1>1, CreateFileType, CreateFileInv DEF SoundDisk
<1>3. /\ dir \in Initialised(c.disk)
      /\ c.id \in Initialised(c.disk)
      /\ c.disk.data[c.disk.node[c.id].addr_0].slots = <<>>
      /\ c.id > dir
  BY <1>1, <1>2, CreateFileInv
<1>4. made \in Seq(SoundDisk)
  BY CreateImagesSound
<1>5. MkdirImages(d, n, dir) = made \o filled \o entry
  BY DEF MkdirImages
<1> HIDE DEF c, made
<1>6. filled \in Seq(SoundDisk)
  BY <1>2, <1>3, DirImagesSound
<1>7. c.disk \in Disk /\ DiskInv(c.disk) /\ dir \in Ids
  BY <1>2, <1>3, InitialisedFields DEF SoundDisk
<1>8. e \in Disk /\ DiskInv(e) /\ Initialised(e) = Initialised(c.disk)
  BY <1>2, <1>3, <1>7, NewDirType, NewDirInv
<1>9. e = NewDir(c.disk, c.id, dir)
  OBVIOUS
<1> HIDE DEF e, filled
<1>10. e \in SoundDisk /\ dir \in Initialised(e) /\ c.id \in Initialised(e)
  BY <1>3, <1>8 DEF SoundDisk
<1>11. entry \in Seq(SoundDisk) /\ entry # <<>> /\ Last(entry) = AddEntry(e, c.id, n, dir)
  BY <1>2, <1>3, <1>10, EntryImagesSound
<1> HIDE DEF entry
<1> DEFINE s == made \o filled
<1>12. s \in Seq(SoundDisk)
  BY <1>4, <1>6, ConcatLast, EmptySeq
<1>13. made \o filled \o entry = s \o entry
  OBVIOUS
<1> HIDE DEF s
<1>14. s \o entry \in Seq(SoundDisk) /\ s \o entry # <<>> /\ Last(s \o entry) = Last(entry)
  BY <1>11, <1>12, ConcatLast
<1> QED
  BY <1>5, <1>9, <1>11, <1>13, <1>14 DEF c

\* An inode in front of the inode region is nobody's.
LEMMA GhostSound ==
    ASSUME NEW d \in SoundDisk
    PROVE  WriteInode(d, NoId, [type |-> Directory, addr_0 |-> NoBlock]) \in SoundDisk
<1> DEFINE node == [type |-> Directory, addr_0 |-> NoBlock]
           w == WriteInode(d, NoId, node)
<1>1. d \in Disk /\ DiskInv(d)
  BY DEF SoundDisk
<1>2. node \in InodeT /\ NoId \in Ids /\ NoId \notin Inodes
  BY DEF InodeT, Ids, Inodes
<1> HIDE DEF node
<1>3. /\ w \in Disk /\ w.imap = d.imap /\ w.dmap = d.dmap /\ w.data = d.data
      /\ w.node = [d.node EXCEPT ![NoId] = node]
  BY <1>1, <1>2, WriteInodeType
<1> HIDE DEF w
<1>4. \A j \in Inodes : w.node[j].addr_0 = d.node[j].addr_0
  BY <1>1, <1>2, <1>3, DiskFields DEF Ids
<1>5. DiskInv(w)
  BY <1>1, <1>3, <1>4, EntriesKept
<1> QED
  BY <1>3, <1>5 DEF SoundDisk, w, node

LEMMA MkdirFailedImagesSound ==
    ASSUME NEW d \in SoundDisk
    PROVE  /\ MkdirFailedImages(d) \in Seq(SoundDisk)
           /\ MkdirFailedImages(d) # <<>>
           /\ Last(MkdirFailedImages(d)) = NewDirFailed(CreateFile(d).disk)
<1> DEFINE c == CreateFile(d).disk
           made == CreateImages(d)
           w == WriteInode(c, NoId, [type |-> Directory, addr_0 |-> NoBlock])
           e == NewDirFailed(c)
<1>1. d \in Disk /\ DiskInv(d)
  BY DEF SoundDisk
<1>2. c \in Disk /\ DiskInv(c)
  BY <1>1, CreateFileType, CreateFileInv
<1>3. made \in Seq(SoundDisk)
  BY CreateImagesSound
<1>4. MkdirFailedImages(d) = made \o <<w, e>>
  BY DEF MkdirFailedImages
<1>5. e = NewDirFailed(CreateFile(d).disk)
  OBVIOUS
<1> HIDE DEF c, made
<1>6. w \in SoundDisk
  BY <1>2, GhostSound DEF SoundDisk
<1>7. e \in SoundDisk
  BY <1>2, NewDirFailedType, NewDirFailedInv DEF SoundDisk
<1> HIDE DEF w, e
<1>8. <<w, e>> \in Seq(SoundDisk) /\ <<w, e>> # <<>> /\ Last(<<w, e>>) = e
  BY <1>6, <1>7, Images, ZenonT(60)
<1> DEFINE t == <<w, e>>
<1> HIDE DEF t
<1>9. made \o t \in Seq(SoundDisk) /\ made \o t # <<>> /\ Last(made \o t) = Last(t)
  BY <1>3, <1>8, ConcatLast DEF t
<1> QED
  BY <1>4, <1>5, <1>8, <1>9 DEF t

\* rmDirEntry: whether the counter has been written or not, an entry is gone.
LEMMA RmImagesSound ==
    ASSUME NEW d \in SoundDisk, NEW dir \in Initialised(d), NEW n,
           NEW k \in Match(d.data[d.node[dir].addr_0], n)
    PROVE  /\ DeleteEntry(d, dir, k) \in SoundDisk
           /\ DeleteEntry(d, dir, k).imap = d.imap
           /\ RmImages(d, dir, k) \in Seq(SoundDisk)
           /\ RmImages(d, dir, k) # <<>>
           /\ Last(RmImages(d, dir, k)) = DeleteEntry(d, dir, k)
<1> DEFINE b == d.node[dir].addr_0
           old == d.data[b]
           c == [cnt |-> old.cnt - 1,
                 slots |-> [old.slots EXCEPT ![k] = [id |-> NoId, name |-> old.slots[k].name]]]
           e == DeleteEntry(d, dir, k)
           w == WriteContent(d, b, [d.data[b] EXCEPT !.slots = e.data[b].slots])
<1>1. d \in Disk /\ DiskInv(d)
  BY DEF SoundDisk
<1>2. dir \in Ids /\ b \in Blocks
  BY <1>1, InitialisedFields
<1>3. e \in SoundDisk
  BY <1>1, <1>2, DeleteEntryType, DeleteEntryInv DEF SoundDisk
<1>4. e = WriteContent(d, b, c)
  BY DEF DeleteEntry
<1>5. RmImages(d, dir, k) = <<w, e>>
  BY DEF RmImages
<1> HIDE DEF e, c
<1>6. /\ e.imap = d.imap /\ e.dmap = d.dmap /\ e.node = d.node
      /\ e.data = [d.data EXCEPT ![b] = c]
  BY <1>1, <1>2, <1>4 DEF WriteContent, Disk
<1>7. \A x \in Blocks : x # b => e.data[x] = d.data[x]
  BY <1>1, <1>2, <1>6, DiskFields
<1> HIDE DEF b
<1>8. w \in SoundDisk
  BY <1>1, <1>2, <1>3, <1>6, <1>7, SlotsSound
<1>9. e = DeleteEntry(d, dir, k)
  BY DEF e
<1> HIDE DEF w
<1>10. <<w, e>> \in Seq(SoundDisk) /\ <<w, e>> # <<>> /\ Last(<<w, e>>) = e
  BY <1>3, <1>8, Images, ZenonT(60)
<1> QED
  BY <1>3, <1>5, <1>6, <1>9, <1>10

\* mkfs: the disks on the way are disks, and nothing more.
LEMMA MkfsImagesType ==
    ASSUME NEW d \in Disk
    PROVE  /\ MkfsImages(d) \in Seq(Disk)
           /\ MkfsImages(d) # <<>>
           /\ Last(MkfsImages(d)) = FormattedDisk
<1> DEFINE e1 == [d EXCEPT !.imap = ZeroDisk.imap]
           e2 == [e1 EXCEPT !.dmap = ZeroDisk.dmap, !.node[NoId] = ZeroDisk.node[NoId]]
           e3 == [e2 EXCEPT !.node = ZeroDisk.node]
           zeros == <<e1, e2, e3, ZeroDisk>>
           c == CreateFile(ZeroDisk)
           made == CreateImages(ZeroDisk)
           filled == DirImages(c.disk, c.id, Root)
<1>1. ZeroDisk \in Disk /\ ZeroDisk \in SoundDisk
  BY ZeroDiskType, ZeroDiskInv DEF SoundDisk
<1>2. /\ ZeroDisk.imap \in [Inodes -> {0, 1}]
      /\ ZeroDisk.dmap \in [Blocks -> {0, 1}]
      /\ ZeroDisk.node \in [Ids -> InodeT]
      /\ ZeroDisk.node[NoId] \in InodeT
  BY <1>1, DiskFields DEF Ids
<1>3. e1 \in Disk
  BY <1>2 DEF Disk
<1> HIDE DEF e1
<1>4. e2 \in Disk
  BY <1>2, <1>3 DEF Disk
<1> HIDE DEF e2
<1>5. e3 \in Disk
  BY <1>2, <1>4 DEF Disk
<1> HIDE DEF e3
<1>6. zeros \in Seq(Disk)
  BY <1>1, <1>3, <1>4, <1>5
<1>7. made \in Seq(Disk)
  BY <1>1, CreateImagesSound, SoundAreDisks
<1>8. c.id = Root /\ c.id # NoId /\ c.disk \in SoundDisk
  BY <1>1, CreateRoot, CreateFileType, CreateFileInv DEF SoundDisk
<1>9. /\ c.id \in Initialised(c.disk)
      /\ c.disk.data[c.disk.node[c.id].addr_0].slots = <<>>
  BY <1>1, <1>8, CreateFileInv DEF SoundDisk
<1>10. FormattedDisk = NewDir(c.disk, c.id, Root)
  BY DEF FormattedDisk
<1>11. MkfsImages(d) = zeros \o made \o filled
  BY DEF MkfsImages, e1, e2, e3
<1> HIDE DEF c, made, zeros
<1>12. filled \in Seq(SoundDisk) /\ filled # <<>> /\ Last(filled) = NewDir(c.disk, c.id, Root)
  BY <1>8, <1>9, DirImagesSound
<1> HIDE DEF filled
<1>13. filled \in Seq(Disk)
  BY <1>12, SoundAreDisks
<1> DEFINE s == zeros \o made
<1>14. s \in Seq(Disk)
  BY <1>6, <1>7, ConcatProperties
<1>15. zeros \o made \o filled = s \o filled
  OBVIOUS
<1> HIDE DEF s
<1>16. s \o filled \in Seq(Disk) /\ s \o filled # <<>> /\ Last(s \o filled) = Last(filled)
  BY <1>12, <1>13, <1>14, ConcatLast
<1> QED
  BY <1>10, <1>11, <1>12, <1>15, <1>16

-----------------------------------------------------------------------------
(* The types, and what the host file will be *)

\* Whatever is cut, mkfs too: what is on the way to the host file are disks, and
\* the last of them is the disk of the process.
CrashTyped == CrashTypeOK /\ WrittenBack

LEMMA CrashInitTyped == CrashInit => CrashTyped
BY InitTypeOK, EmptySeq DEF CrashInit, CrashTyped, CrashTypeOK, WrittenBack, Op, TypeOK

\* The first image reaches the host file; the last one is still the last.
LEMMA WriteImages ==
    ASSUME NEW S, NEW s \in Seq(S), s # <<>>
    PROVE  /\ Head(s) \in S /\ Tail(s) \in Seq(S)
           /\ Last(s) = IF Tail(s) = <<>> THEN Head(s) ELSE Last(Tail(s))
<1>1. /\ Head(s) \in S /\ Tail(s) \in Seq(S)
      /\ Head(s) = s[1]
      /\ Len(Tail(s)) = Len(s) - 1
      /\ \A k \in 1 .. Len(Tail(s)) : Tail(s)[k] = s[k + 1]
      /\ Len(s) \in Nat /\ Len(s) > 0
  BY HeadTailProperties, EmptySeq, LenProperties
<1>2. CASE Tail(s) = <<>>
  BY <1>1, <1>2, EmptySeq DEF Last
<1>3. CASE Tail(s) # <<>>
  <2>1. Len(Tail(s)) \in Nat /\ Len(Tail(s)) # 0
    BY <1>1, <1>3, EmptySeq, LenProperties
  <2>2. Tail(s)[Len(Tail(s))] = s[Len(s)]
    BY <1>1, <2>1
  <2> QED
    BY <1>1, <1>3, <2>2 DEF Last
<1> QED
  BY <1>2, <1>3

LEMMA WritesTyped ==
    ASSUME CrashTyped, TypeOK', NEW o \in Op, NEW images \in ImagesOf(disk'),
           Writes(o, images)
    PROVE  CrashTyped'
BY DEF CrashTyped, CrashTypeOK, WrittenBack, Writes, ImagesOf

LEMMA CrashNextTyped == CrashTyped /\ [CrashNext]_crashVars => CrashTyped'
<1> SUFFICES ASSUME CrashTyped, [CrashNext]_crashVars PROVE CrashTyped'
  OBVIOUS
<1>1. TypeOK /\ disk \in Disk /\ cwd \in Ids /\ {"create", "rm", "mkfs"} \subseteq Op
  BY DEF CrashTyped, CrashTypeOK, TypeOK, Ids, Op
<1>2. ASSUME Next PROVE TypeOK'
  BY <1>1, <1>2, NextTypeOK
<1>3. ASSUME OpenNew, Writes("create", OpenImages(disk, job.file, cwd)) PROVE CrashTyped'
  <2>1. job.file \in Name
    BY <1>1, <1>3, JobType DEF OpenNew, Arrived, Busy, TypeOK
  <2>2. OpenImages(disk, job.file, cwd) \in ImagesOf(disk')
    BY <1>1, <1>3, <2>1, OpenImagesType DEF OpenNew
  <2>3. TypeOK'
    BY <1>2, <1>3 DEF Next, Continue
  <2> QED
    BY <1>1, <1>3, <2>2, <2>3, WritesTyped
<1>4. ASSUME Mkdir, Writes("create", MkdirImages(disk, job.file, cwd)) PROVE CrashTyped'
  <2>1. job.file \in Name
    BY <1>1, <1>4, JobType DEF Mkdir, Arrived, Busy, TypeOK
  <2>2. MkdirImages(disk, job.file, cwd) \in ImagesOf(disk')
    BY <1>1, <1>4, <2>1, MkdirImagesType DEF Mkdir
  <2>3. TypeOK'
    BY <1>2, <1>4 DEF Next, Continue
  <2> QED
    BY <1>1, <1>4, <2>2, <2>3, WritesTyped
<1>5. ASSUME MkdirFailed, Writes("create", MkdirFailedImages(disk)) PROVE CrashTyped'
  <2>1. MkdirFailedImages(disk) \in ImagesOf(disk')
    BY <1>1, <1>5, MkdirFailedImagesType DEF MkdirFailed
  <2>2. TypeOK'
    BY <1>2, <1>5 DEF Next, Continue
  <2> QED
    BY <1>1, <1>5, <2>1, <2>2, WritesTyped
<1>6. ASSUME NEW n \in RmTarget, Rm(n), NEW k \in Match(Here, n), RmWrites(k)
      PROVE  CrashTyped'
  <2> DEFINE first == RmImages(disk, cwd, k)
             end == IF up' /\ job' = Idle THEN <<[disk' EXCEPT !.imap = disk.imap], disk'>>
                    ELSE <<>>
  <2>1. TypeOK' /\ disk' \in Disk
    BY <1>2, <1>6 DEF Next, Command, TypeOK
  <2>2. /\ disk.node[cwd].addr_0 \in Blocks
        /\ Here = disk.data[disk.node[cwd].addr_0]
    BY <1>1, <1>6, DiskFields DEF Rm, Scannable, Here, ContentOf, Zeros
  <2>3. first \in ImagesOf(DeleteEntry(disk, cwd, k))
    BY <1>1, <2>2, RmImagesType
  <2>4. Writes("rm", first \o end)
    BY <1>6 DEF RmWrites
  <2> HIDE DEF first
  <2>5. CASE up' /\ job' = Idle
    <3>1. [disk' EXCEPT !.imap = disk.imap] \in Disk
      BY <1>1, <2>1 DEF Disk
    <3>2. end \in ImagesOf(disk')
      <4> DEFINE image == [disk' EXCEPT !.imap = disk.imap]
      <4>1. image \in Disk /\ end = <<image, disk'>>
        BY <2>5, <3>1
      <4> HIDE DEF image, end
      <4>2. <<image, disk'>> \in Seq(Disk) /\ <<image, disk'>> # <<>>
            /\ Last(<<image, disk'>>) = disk'
        BY <2>1, <4>1, Images, ZenonT(60)
      <4> QED
        BY <4>1, <4>2 DEF ImagesOf
    <3> HIDE DEF end
    <3>3. first \o end \in ImagesOf(disk')
      BY <2>3, <3>2, ImagesEnd DEF ImagesOf
    <3> QED
      BY <1>1, <2>1, <2>4, <3>3, WritesTyped
  <2>6. CASE ~(up' /\ job' = Idle)
    <3>1. PICK l \in Match(Here, n) : disk' = DeleteEntry(disk, cwd, l)
      BY <1>6, <2>6 DEF Rm
    <3>2. Here \in Content
      BY <1>1, <2>2, DiskFields
    <3>3. k = l
      BY <3>1, <3>2, MatchUnique
    <3>4. first \o end = first
      BY <2>3, <2>6, ConcatEmptySeq DEF ImagesOf
    <3> HIDE DEF end
    <3> QED
      BY <1>1, <2>1, <2>3, <2>4, <3>1, <3>3, <3>4, WritesTyped
  <2> QED
    BY <2>5, <2>6
<1>7. ASSUME Mkfs, Writes("mkfs", MkfsImages(disk)) PROVE CrashTyped'
  <2>1. MkfsImages(disk) \in ImagesOf(disk')
    BY <1>1, <1>7, MkfsImagesType DEF Mkfs, ImagesOf
  <2>2. TypeOK'
    BY <1>2, <1>7 DEF Next, Command
  <2> QED
    BY <1>1, <1>7, <2>1, <2>2, WritesTyped
<1>8. CASE Quiet
  BY <1>2, <1>8 DEF Quiet, CrashTyped, CrashTypeOK, WrittenBack
<1>9. CASE Write
  <2>1. TypeOK'
    BY <1>1, <1>9 DEF Write, vars, TypeOK
  <2>2. todo \in Seq(Disk) /\ disk = Last(todo)
    BY <1>9 DEF Write, CrashTyped, CrashTypeOK, WrittenBack
  <2>3. /\ media' \in Disk /\ todo' \in Seq(Disk)
        /\ disk' = IF todo' = <<>> THEN media' ELSE Last(todo')
    BY <1>9, <2>2, WriteImages DEF Write, vars
  <2> QED
    BY <1>9, <2>1, <2>3 DEF Write, CrashTyped, CrashTypeOK, WrittenBack
<1>10. CASE Cut
  <2>1. disk' = media /\ media \in Disk /\ todo' = <<>> /\ todo' \in Seq(Disk)
    BY <1>10, EmptySeq DEF Cut, CrashTyped, CrashTypeOK
  <2>2. TypeOK'
    BY <1>1, <1>10, <2>1 DEF TypeOK, Cut
  <2> QED
    BY <1>10, <2>1, <2>2 DEF Cut, CrashTyped, CrashTypeOK, WrittenBack
<1>11. CASE UNCHANGED crashVars
  BY <1>1, <1>11 DEF crashVars, vars, CrashTyped, CrashTypeOK, WrittenBack, TypeOK
<1> QED
  BY <1>3, <1>4, <1>5, <1>6, <1>7, <1>8, <1>9, <1>10, <1>11 DEF CrashNext, Writing

\* The variables keep their types at every point of every command, also behind
\* a mkfs that was cut, where nothing else is left of the disk's order.
THEOREM CrashTypeCorrect == CrashSpec => []CrashTypeOK
<1>1. CrashTyped => CrashTypeOK
  BY DEF CrashTyped
<1> QED
  BY <1>1, CrashInitTyped, CrashNextTyped, PTL DEF CrashSpec

-----------------------------------------------------------------------------
(* The inductive invariant *)

\* Until a mkfs is cut: what is on the way to the host file is sound, ends with
\* the disk as the command leaves it, and the host file is sound unless mkfs is
\* at work.
Sound == /\ TypeOK /\ Inv
         /\ op \in Op
         /\ media \in Disk
         /\ todo \in Seq(Disk)
         /\ disk = IF todo = <<>> THEN media ELSE Last(todo)
         /\ Formatting \/ (DiskInv(media) /\ todo \in Seq(SoundDisk))

CrashInv == "mkfs" \in cuts \/ Sound

LEMMA CrashInitInv == CrashInit => CrashInv
<1> SUFFICES ASSUME CrashInit PROVE Sound
  BY DEF CrashInv
<1>1. TypeOK /\ Inv
  BY InitTypeOK, InitInv DEF CrashInit
<1>2. disk \in Disk /\ DiskInv(disk)
  BY <1>1 DEF TypeOK, Inv
<1> QED
  BY <1>1, <1>2, EmptySeq DEF CrashInit, Sound, Op

\* What the disk is before a command writes.
LEMMA BeforeWriting ==
    ASSUME Sound, todo = <<>>
    PROVE  TypeOK /\ Inv /\ disk \in SoundDisk /\ media = disk
BY DEF Sound, TypeOK, Inv, SoundDisk

\* A command has begun to write sound images that end with the disk it means.
LEMMA WritesSound ==
    ASSUME Sound, todo = <<>>, TypeOK', Inv', NEW o \in Op, NEW images \in Seq(SoundDisk),
           Writes(o, images), images # <<>>, disk' = Last(images)
    PROVE  Sound'
<1>1. todo' = images /\ media' = media /\ op' = o
  BY DEF Writes
<1>2. media \in Disk /\ DiskInv(media)
  BY BeforeWriting DEF SoundDisk
<1> QED
  BY <1>1, <1>2, SoundAreDisks DEF Sound

\* freeFile frees nothing: its two images are the disk that is written already.
LEMMA RmWritesImages ==
    ASSUME TypeOK, Inv, NEW n, Rm(n), NEW k \in Match(Here, n), RmWrites(k)
    PROVE  /\ cwd \in Initialised(disk)
           /\ k \in Match(disk.data[disk.node[cwd].addr_0], n)
           /\ disk' = DeleteEntry(disk, cwd, k)
           /\ Writes("rm", RmImages(disk, cwd, k) \o IF up' /\ job' = Idle THEN <<disk', disk'>> ELSE <<>>)
<1> DEFINE e == DeleteEntry(disk, cwd, k)
           end == IF up' /\ job' = Idle THEN <<[disk' EXCEPT !.imap = disk.imap], disk'>>
                  ELSE <<>>
           first == RmImages(disk, cwd, k)
<1>1. disk \in SoundDisk /\ cwd \in Initialised(disk) /\ disk \in Disk /\ DiskInv(disk)
  BY DEF TypeOK, Inv, Rm, Ready, Idle, Adrift, SoundDisk
<1>2. Here = disk.data[disk.node[cwd].addr_0]
  BY <1>1, InitialisedFields DEF Here, ContentOf, Blocks
<1>3. disk' = IF up' /\ job' = Idle THEN FreeFile(e, NamedBy(k)) ELSE e
  <2>1. PICK l \in Match(Here, n) :
            disk' = IF up' /\ job' = Idle THEN FreeFile(DeleteEntry(disk, cwd, l), NamedBy(l))
                    ELSE DeleteEntry(disk, cwd, l)
    BY DEF Rm
  <2>2. k = l
    BY <1>1, <1>2, <2>1, InitialisedFields, DiskFields, MatchUnique
  <2> QED
    BY <2>1, <2>2
<1>4. e \in SoundDisk /\ e.imap = disk.imap
  BY <1>1, <1>2, RmImagesSound
<1>5. NamedBy(k) \in Initialised(disk) \cup {NoId}
  <2>1. k \in DOMAIN Here.slots
    BY DEF Match, Scanned
  <2>2. NamedBy(k) # NoId => k \in Live(Here)
    BY <2>1 DEF NamedBy, Live
  <2> QED
    BY <1>1, <1>2, <2>2, InitialisedFields DEF NamedBy, DiskInv, EntriesWritten
<1>6. Initialised(e) = Initialised(disk)
  BY <1>1, <1>2, DeleteEntryInv
<1>7. Writes("rm", first \o end)
  BY DEF RmWrites
<1> HIDE DEF e, first
<1>8. FreeFile(e, NamedBy(k)) = e
  BY <1>4, <1>5, <1>6, FreeFileKeeps DEF SoundDisk
<1>9. disk' = e
  BY <1>3, <1>8
<1>10. [disk' EXCEPT !.imap = disk.imap] = disk'
  BY <1>4, <1>9 DEF SoundDisk, Disk
<1>11. end = IF up' /\ job' = Idle THEN <<disk', disk'>> ELSE <<>>
  BY <1>10
<1> HIDE DEF end
<1> QED
  BY <1>1, <1>2, <1>7, <1>9, <1>11 DEF e, first

LEMMA CrashNextInv == CrashInv /\ [CrashNext]_crashVars => CrashInv'
<1> SUFFICES ASSUME Sound, [CrashNext]_crashVars PROVE CrashInv'
  BY DEF CrashInv, CrashNext, Writing, Quiet, Write, Cut, RmWrites, Writes, crashVars
<1>1. TypeOK /\ Inv
  BY DEF Sound
<1>2. ASSUME Next PROVE TypeOK' /\ Inv'
  BY <1>1, <1>2, NextTypeOK, NextInv
<1>3. ASSUME todo = <<>>, OpenNew, Writes("create", OpenImages(disk, job.file, cwd))
      PROVE  Sound'
  <2>1. disk \in SoundDisk /\ cwd \in Initialised(disk) /\ job.file \in Name
    BY <1>1, <1>3, BeforeWriting, JobType DEF Inv, OpenNew, Arrived, Busy, TypeOK
  <2>2. disk' = AddEntry(CreateFile(disk).disk, CreateFile(disk).id, job.file, cwd)
    BY <1>3 DEF OpenNew
  <2>3. TypeOK' /\ Inv'
    BY <1>2, <1>3 DEF Next, Continue
  <2> DEFINE images == OpenImages(disk, job.file, cwd)
  <2>4. images \in Seq(SoundDisk) /\ images # <<>> /\ Last(images) = disk'
    BY <2>1, <2>2, OpenImagesSound
  <2>5. Writes("create", images) /\ "create" \in Op
    BY <1>3 DEF Op
  <2> HIDE DEF images
  <2> QED
    BY <1>3, <2>3, <2>4, <2>5, WritesSound
<1>4. ASSUME todo = <<>>, Mkdir, Writes("create", MkdirImages(disk, job.file, cwd))
      PROVE  Sound'
  <2>1. disk \in SoundDisk /\ cwd \in Initialised(disk) /\ job.file \in Name
    BY <1>1, <1>4, BeforeWriting, JobType DEF Inv, Mkdir, Arrived, Busy, TypeOK
  <2>2. /\ CreateFile(disk).id # NoId
        /\ disk' = AddEntry(NewDir(CreateFile(disk).disk, CreateFile(disk).id, cwd),
                            CreateFile(disk).id, job.file, cwd)
    BY <1>4 DEF Mkdir
  <2>3. TypeOK' /\ Inv'
    BY <1>2, <1>4 DEF Next, Continue
  <2> DEFINE images == MkdirImages(disk, job.file, cwd)
  <2>4. images \in Seq(SoundDisk) /\ images # <<>> /\ Last(images) = disk'
    BY <2>1, <2>2, MkdirImagesSound
  <2>5. Writes("create", images) /\ "create" \in Op
    BY <1>4 DEF Op
  <2> HIDE DEF images
  <2> QED
    BY <1>4, <2>3, <2>4, <2>5, WritesSound
<1>5. ASSUME todo = <<>>, MkdirFailed, Writes("create", MkdirFailedImages(disk))
      PROVE  Sound'
  <2>1. disk \in SoundDisk
    BY <1>5, BeforeWriting
  <2>2. disk' = NewDirFailed(CreateFile(disk).disk)
    BY <1>5 DEF MkdirFailed
  <2>3. TypeOK' /\ Inv'
    BY <1>2, <1>5 DEF Next, Continue
  <2> DEFINE images == MkdirFailedImages(disk)
  <2>4. images \in Seq(SoundDisk) /\ images # <<>> /\ Last(images) = disk'
    BY <2>1, <2>2, MkdirFailedImagesSound
  <2>5. Writes("create", images) /\ "create" \in Op
    BY <1>5 DEF Op
  <2> HIDE DEF images
  <2> QED
    BY <1>5, <2>3, <2>4, <2>5, WritesSound
<1>6. ASSUME todo = <<>>, NEW n \in RmTarget, Rm(n), NEW k \in Match(Here, n), RmWrites(k)
      PROVE  Sound'
  <2> DEFINE first == RmImages(disk, cwd, k)
             end == IF up' /\ job' = Idle THEN <<disk', disk'>> ELSE <<>>
  <2>1. TypeOK' /\ Inv' /\ disk \in SoundDisk /\ "rm" \in Op
    BY <1>2, <1>6, BeforeWriting DEF Next, Command, Op
  <2>2. /\ cwd \in Initialised(disk)
        /\ k \in Match(disk.data[disk.node[cwd].addr_0], n)
        /\ disk' = DeleteEntry(disk, cwd, k)
        /\ Writes("rm", first \o end)
    BY <1>1, <1>6, RmWritesImages
  <2>3. disk' \in SoundDisk /\ first \in Seq(SoundDisk) /\ first # <<>> /\ Last(first) = disk'
    BY <2>1, <2>2, RmImagesSound
  <2> HIDE DEF first
  <2>4. CASE up' /\ job' = Idle
    <3>1. end \in Seq(SoundDisk) /\ end # <<>> /\ Last(end) = disk'
      BY <2>3, <2>4, Images
    <3> HIDE DEF end
    <3>2. /\ first \o end \in Seq(SoundDisk)
          /\ first \o end # <<>>
          /\ Last(first \o end) = Last(end)
      BY <2>3, <3>1, ConcatLast
    <3> QED
      BY <1>6, <2>1, <2>2, <3>1, <3>2, WritesSound
  <2>5. CASE ~(up' /\ job' = Idle)
    <3>1. first \o end = first
      BY <2>3, <2>5, ConcatEmptySeq
    <3> HIDE DEF end
    <3> QED
      BY <1>6, <2>1, <2>2, <2>3, <3>1, WritesSound
  <2> QED
    BY <2>4, <2>5
<1>7. ASSUME todo = <<>>, Mkfs, Writes("mkfs", MkfsImages(disk))
      PROVE  Sound'
  <2>1. disk \in Disk /\ media \in Disk
    BY <1>7 DEF Sound, TypeOK
  <2>2. disk' = FormattedDisk
    BY <1>7 DEF Mkfs
  <2>3. TypeOK' /\ Inv'
    BY <1>2, <1>7 DEF Next, Command
  <2>4. op' = "mkfs" /\ todo' = MkfsImages(disk) /\ media' = media
    BY <1>7 DEF Writes
  <2>5. todo' \in Seq(Disk) /\ todo' # <<>> /\ Last(todo') = disk'
    BY <2>1, <2>2, <2>4, MkfsImagesType
  <2> QED
    BY <2>1, <2>3, <2>4, <2>5 DEF Sound, Formatting, Op
<1>8. CASE Quiet
  <2>1. TypeOK' /\ Inv'
    BY <1>2, <1>8 DEF Quiet
  <2> QED
    BY <1>8, <2>1 DEF Quiet, Sound, Formatting, CrashInv
<1>9. CASE Write
  <2>1. /\ todo # <<>> /\ media' = Head(todo) /\ todo' = Tail(todo) /\ op' = op
        /\ disk' = disk
    BY <1>9 DEF Write, vars
  <2>2. TypeOK' /\ Inv'
    BY <1>1, <1>9 DEF Write, vars, TypeOK, Inv
  <2>3. ASSUME NEW S, todo \in Seq(S)
        PROVE  /\ media' \in S /\ todo' \in Seq(S)
               /\ disk' = IF todo' = <<>> THEN media' ELSE Last(todo')
    BY <2>1, <2>3, WriteImages DEF Sound
  <2>4. /\ media' \in Disk /\ todo' \in Seq(Disk) /\ op' \in Op
        /\ disk' = IF todo' = <<>> THEN media' ELSE Last(todo')
    BY <2>1, <2>3 DEF Sound
  <2>5. CASE Formatting /\ todo' # <<>>
    BY <2>1, <2>2, <2>4, <2>5 DEF Sound, Formatting, CrashInv
  <2>6. CASE Formatting /\ todo' = <<>>
    <3>1. media' = disk' /\ DiskInv(disk')
      BY <2>2, <2>4, <2>6 DEF Inv
    <3> QED
      BY <2>2, <2>4, <2>6, <3>1, EmptySeq DEF Sound, CrashInv
  <2>7. CASE ~Formatting
    <3>1. todo \in Seq(SoundDisk)
      BY <2>7 DEF Sound
    <3>2. media' \in SoundDisk /\ todo' \in Seq(SoundDisk)
      BY <2>3, <3>1
    <3> QED
      BY <2>2, <2>4, <3>2 DEF Sound, SoundDisk, CrashInv
  <2> QED
    BY <2>5, <2>6, <2>7 DEF CrashInv
<1>10. CASE Cut
  <2>1. CASE op = "mkfs"
    BY <1>10, <2>1 DEF Cut, CrashInv
  <2>2. CASE op # "mkfs"
    <3>1. media \in Disk /\ DiskInv(media) /\ media' = media /\ disk' = media
          /\ todo' = <<>> /\ op' = op /\ op \in Op
      BY <1>10, <2>2 DEF Cut, Sound, Formatting
    <3>2. TypeOK'
      BY <1>1, <1>10, <3>1 DEF TypeOK, Cut
    <3>3. Inv'
      BY <1>10, <3>1 DEF Inv, Cut
    <3> QED
      BY <3>1, <3>2, <3>3, EmptySeq DEF Sound, CrashInv
  <2> QED
    BY <2>1, <2>2
<1>11. CASE UNCHANGED crashVars
  BY <1>11 DEF crashVars, vars, CrashInv, Sound, TypeOK, Inv, Formatting
<1> QED
  BY <1>3, <1>4, <1>5, <1>6, <1>7, <1>8, <1>9, <1>10, <1>11 DEF CrashNext, Writing, CrashInv

\* Whatever command is killed, at whatever of its writes, and however often:
\* what is named on the host file has been written, and what has been written
\* is allocated, with a block of its own; only a mkfs that is cut breaks this.
THEOREM MediaInvCorrect == CrashSpec => []MediaInv
<1>1. CrashInv => MediaInv
  BY DEF CrashInv, Sound, MediaInv
<1> QED
  BY <1>1, CrashInitInv, CrashNextInv, PTL DEF CrashSpec

-----------------------------------------------------------------------------
(* Directories that are finished *)

Own == {".", ".."}

\* The slots of a directory that can be entered, and gone back from.
Done(s) == Len(s) >= 2 /\ s[1].name = "." /\ s[2].name = ".."

\* The inodes that a block names, as more than "." and "..".
Entered(d) == {f \in Inodes : \E b \in Blocks : \E k \in Live(d.data[b]) :
                   /\ d.data[b].slots[k].id = f
                   /\ d.data[b].slots[k].name \notin Own}

Finished(d) == \A f \in Entered(d) : IsDir(d, f) => Done(SlotsOf(d, f))

LEMMA EnteredWritten ==
    ASSUME NEW d, DiskInv(d)
    PROVE  Entered(d) \subseteq Initialised(d)
BY DEF Entered, DiskInv, EntriesWritten

LEMMA EnteredFewer ==
    ASSUME NEW d, NEW e,
           \A b \in Blocks : \A k \in Live(e.data[b]) :
               k \in Live(d.data[b]) /\ e.data[b].slots[k] = d.data[b].slots[k]
    PROVE  Entered(e) \subseteq Entered(d)
BY DEF Entered

LEMMA SlotsFewer ==
    ASSUME NEW d, NEW e,
           \A b \in Blocks : e.data[b].slots = d.data[b].slots \/ e.data[b].slots = <<>>
    PROVE  Entered(e) \subseteq Entered(d)
<1>1. \A b \in Blocks : \A k \in Live(e.data[b]) :
          k \in Live(d.data[b]) /\ e.data[b].slots[k] = d.data[b].slots[k]
  BY EmptySeq DEF Live
<1> QED
  BY <1>1, EnteredFewer

LEMMA FinishedKept ==
    ASSUME NEW d, NEW e, Finished(d),
           \A f \in Entered(e) :
               \/ /\ f \in Entered(d)
                  /\ IsDir(e, f) => IsDir(d, f)
                  /\ Done(SlotsOf(d, f)) => Done(SlotsOf(e, f))
               \/ IsDir(e, f) => Done(SlotsOf(e, f))
    PROVE  Finished(e)
BY DEF Finished

-----------------------------------------------------------------------------
(* A write of a creation: names stay, what was finished and in step still is *)

Advances(d, e) == /\ Leads(d, e)
                  /\ Finished(d) => Finished(e)
                  /\ FullOrInStep(d) => FullOrInStep(e)

LEMMA AdvancesItself == \A d : Advances(d, d)
BY LeadsItself DEF Advances

LEMMA AdvancesOn ==
    ASSUME NEW d, NEW e, NEW f, Advances(d, e), Advances(e, f)
    PROVE  Advances(d, f)
BY LeadsOn DEF Advances

LEMMA CountsAdvance ==
    ASSUME NEW d \in Disk, NEW e \in Disk, MapsGrow(d, e),
           ~Full(d) /\ InStep(d) => InStep(e)
    PROVE  FullOrInStep(d) => FullOrInStep(e)
BY FullStays DEF FullOrInStep

LEMMA EmptyLeads ==
    ASSUME NEW d \in Disk, NEW e \in Disk,
           \A i \in Initialised(d) : e.node[i].addr_0 = d.node[i].addr_0,
           \A x \in Blocks : e.data[x] = d.data[x] \/ d.data[x].slots = <<>>
    PROVE  Leads(d, e)
<1>1. ASSUME NEW x \in Blocks PROVE Shows(d.data[x], e.data[x])
  <2>1. CASE d.data[x].slots = <<>>
    <3>1. Live(d.data[x]) = {}
      BY <2>1, NoneLive
    <3> QED
      BY <3>1 DEF Shows, Visible
  <2> QED
    BY <2>1, ShowsItself
<1> QED
  BY <1>1, BlocksLead, InitialisedFields

LEMMA MapsAdvance ==
    ASSUME NEW d \in Disk, NEW e \in Disk, MapsGrow(d, e), e.node = d.node, e.data = d.data
    PROVE  Advances(d, e) /\ Leads(e, d)
<1>1. Leads(d, e) /\ Leads(e, d)
  BY EmptyLeads
<1>2. Finished(d) => Finished(e)
  BY DEF Finished, Entered, IsDir, SlotsOf
<1>3. InStep(d) => InStep(e)
  BY DiskFields DEF InStep, MapsGrow
<1> QED
  BY <1>1, <1>2, <1>3, CountsAdvance DEF Advances

LEMMA CreateFileSlots ==
    ASSUME NEW d \in Disk
    PROVE  \A x \in Blocks : CreateFile(d).disk.data[x].slots \in {d.data[x].slots, <<>>}
<1> DEFINE i == AllocBit(d.imap)
           b == AllocBit(d.dmap)
           d1 == TakeInode(d, i)
           d2 == TakeBlock(d1, b)
<1>1. (i = NoId \/ i \in Inodes) /\ (b = NoId \/ b \in Blocks)
  BY AllocatedFree
<1>2. CASE i = NoId
  BY <1>2 DEF CreateFile, Created
<1>3. CASE i # NoId /\ b = NoId
  <2>1. CreateFile(d).disk = d1
    BY <1>3 DEF CreateFile, Created
  <2>2. d1.data = d.data
    BY <1>1, <1>3, TakeInodeType
  <2> QED
    BY <2>1, <2>2
<1>4. CASE i # NoId /\ b # NoId
  <2>1. CreateFile(d).disk = WriteFile(d2, i, b)
    BY <1>4 DEF CreateFile, Created
  <2>2. d1 \in Disk /\ d1.data = d.data
    BY <1>1, <1>4, TakeInodeType
  <2> HIDE DEF d1
  <2>3. d2 \in Disk /\ d2.data = d.data
    BY <1>1, <1>4, <2>2, TakeBlockType
  <2> HIDE DEF d2
  <2>4. \A x \in Blocks : WriteFile(d2, i, b).data[x].slots =
                             IF x = b THEN <<>> ELSE d2.data[x].slots
    BY <1>1, <1>4, <2>3, WriteFileFields
  <2> QED
    BY <2>1, <2>3, <2>4
<1> QED
  BY <1>2, <1>3, <1>4

LEMMA CreateFileAdvances ==
    ASSUME NEW d \in Disk, DiskInv(d)
    PROVE  LET c == CreateFile(d)
           IN  /\ Advances(d, c.disk)
               /\ c.id \notin Entered(c.disk)
               /\ c.id = NoId => Full(c.disk)
<1> DEFINE c == CreateFile(d)
<1>1. c.disk \in Disk /\ c.id \in Ids /\ MapsGrow(d, c.disk) /\ Leads(d, c.disk)
  BY CreateFileType, CreateFileInStep, CreateFileLeads
<1>2. Entered(c.disk) \subseteq Entered(d) /\ Entered(d) \subseteq Initialised(d)
  BY CreateFileSlots, SlotsFewer, EnteredWritten
<1>3. \A j \in Initialised(d) : /\ c.disk.node[j] = d.node[j]
                                /\ c.disk.data[d.node[j].addr_0] = d.data[d.node[j].addr_0]
  BY CreateFileWrites
<1>4. InStep(d) => InStep(c.disk)
  BY CreateFileInStep
<1>5. c.id = NoId => Full(d)
  BY NoFileIsFull
<1>6. c.id # NoId => \A j \in Initialised(d) : c.id > j
  BY CreateFileInv
<1> HIDE DEF c
<1>7. Finished(d) => Finished(c.disk)
  BY <1>2, <1>3 DEF Finished, IsDir, SlotsOf
<1>8. c.id \notin Entered(c.disk)
  <2> SUFFICES ASSUME c.id \in Initialised(d) PROVE FALSE
    BY <1>2
  <2>1. c.id \in Nat /\ c.id # NoId
    BY DEF Initialised, Inodes
  <2>2. c.id > c.id
    BY <1>6, <2>1
  <2> QED
    BY <2>1, <2>2
<1>9. Advances(d, c.disk)
  BY <1>1, <1>4, <1>7, CountsAdvance DEF Advances
<1> QED
  BY <1>1, <1>5, <1>8, <1>9, FullStays DEF c

\* The directory that an entry is written to keeps the entries it has.
LEMMA DoneKept ==
    ASSUME NEW s \in Seq(Entry), NEW en \in Entry, Done(s)
    PROVE  Done(Append(s, en))
<1>1. Len(s) \in Nat /\ 1 \in 1 .. Len(s) /\ 2 \in 1 .. Len(s)
  BY LenProperties DEF Done
<1>2. /\ Len(Append(s, en)) = Len(s) + 1
      /\ Append(s, en)[1] = s[1]
      /\ Append(s, en)[2] = s[2]
  BY <1>1, AppendProperties
<1> QED
  BY <1>1, <1>2 DEF Done

\* Block b of d with one entry more.
Extended(d, e, b, en) ==
    /\ e.imap = d.imap /\ e.dmap = d.dmap /\ e.node = d.node
    /\ \A x \in Blocks : x # b => e.data[x] = d.data[x]
    /\ e.data[b].slots = Append(d.data[b].slots, en)
    /\ e.data[b].cnt \in {d.data[b].cnt, d.data[b].cnt + 1}

LEMMA ExtendedEntered ==
    ASSUME NEW d \in Disk, NEW e \in Disk, NEW b \in Blocks, NEW en \in Entry,
           Extended(d, e, b, en), NEW f \in Entered(e)
    PROVE  f \in Entered(d) \/ (f = en.id /\ f # NoId /\ en.name \notin Own)
<1>1. PICK x \in Blocks : \E k \in Live(e.data[x]) :
          e.data[x].slots[k].id = f /\ e.data[x].slots[k].name \notin Own
  BY DEF Entered
<1>2. PICK k \in Live(e.data[x]) :
          e.data[x].slots[k].id = f /\ e.data[x].slots[k].name \notin Own
  BY <1>1
<1>3. CASE x # b
  <2>1. e.data[x] = d.data[x]
    BY <1>3 DEF Extended
  <2> QED
    BY <1>2, <2>1 DEF Entered
<1>4. CASE x = b
  <2> DEFINE c == d.data[b]
             g == e.data[b]
  <2>1. c \in Content /\ g.slots = Append(c.slots, en) /\ k \in Live(g)
    BY <1>4, DiskFields DEF Extended
  <2>2. g.slots[k].id = f /\ g.slots[k].name \notin Own /\ f # NoId
    BY <1>2, <1>4 DEF Entered, Inodes
  <2> HIDE DEF c, g
  <2>3. \/ k \in Live(c) /\ g.slots[k] = c.slots[k]
        \/ k = Len(c.slots) + 1 /\ g.slots[k] = en
    <3>1. \A m \in Live(g) : \/ m \in Live(c) /\ g.slots[m] = c.slots[m]
                             \/ m = Len(c.slots) + 1 /\ g.slots[m] = en
      BY <2>1, AppendLive
    <3> QED
      BY <2>1, <3>1
  <2>4. CASE k \in Live(c) /\ g.slots[k] = c.slots[k]
    <3>1. k \in Live(c) /\ c.slots[k].id = f /\ c.slots[k].name \notin Own /\ f \in Inodes
      BY <2>2, <2>4 DEF Entered
    <3> QED
      BY <3>1 DEF c, Entered
  <2>5. CASE g.slots[k] = en
    BY <2>2, <2>5
  <2> QED
    BY <2>3, <2>4, <2>5
<1> QED
  BY <1>3, <1>4

LEMMA ExtendedLeads ==
    ASSUME NEW d \in Disk, NEW e \in Disk, NEW b \in Blocks, NEW en \in Entry,
           Extended(d, e, b, en)
    PROVE  Leads(d, e)
<1> DEFINE c == d.data[b]
           g == e.data[b]
<1>1. /\ c \in Content /\ g \in Content /\ g.slots = Append(c.slots, en)
      /\ c.cnt \in Nat /\ g.cnt \in {c.cnt, c.cnt + 1}
  BY DiskFields DEF Extended
<1> HIDE DEF c, g
<1>2. Shows(c, g)
  <2>1. c.cnt <= g.cnt
    BY <1>1
  <2> QED
    BY <1>1, <2>1, AppendShows
<1>3. \A x \in Blocks : Shows(d.data[x], e.data[x])
  BY <1>2, ShowsItself DEF Extended, c, g
<1> QED
  BY <1>3, BlocksLead, InitialisedFields DEF Extended

LEMMA ExtendedInStep ==
    ASSUME NEW d \in Disk, NEW e \in Disk, NEW b \in Blocks, NEW en \in Entry,
           Extended(d, e, b, en), InStep(d), en.id # NoId, d.dmap[b] = 1
    PROVE  InStep(e)
<1> DEFINE c == d.data[b]
           g == e.data[b]
<1>1. /\ c \in Content /\ g \in Content /\ g.slots = Append(c.slots, en)
      /\ c.cnt \in Nat /\ g.cnt \in {c.cnt, c.cnt + 1}
      /\ c.cnt <= Cardinality(Live(c))
  BY DiskFields DEF Extended, InStep
<1> HIDE DEF c, g
<1>2. g.cnt <= Cardinality(Live(g))
  <2>1. c.cnt <= g.cnt /\ g.cnt <= c.cnt + 1
    BY <1>1
  <2> QED
    BY <1>1, <2>1, AppendInStep
<1>3. \A x \in Blocks : \/ e.data[x] = d.data[x]
                        \/ e.data[x].cnt <= Cardinality(Live(e.data[x]))
  BY <1>2 DEF Extended, g
<1> QED
  BY <1>3, BlocksInStep DEF Extended

\* An entry is written, and perhaps counted: one of a finished directory, of a
\* file, of "." or "..", or of a failed createFile.
LEMMA EntryAdvances ==
    ASSUME NEW d \in Disk, DiskInv(d), NEW e \in Disk, NEW dir \in Initialised(d),
           NEW en \in Entry, Extended(d, e, d.node[dir].addr_0, en),
           en.id = NoId => Full(d),
           en.id # NoId /\ en.name \notin Own /\ IsDir(d, en.id) => Done(SlotsOf(d, en.id)),
           en.id # NoId => en.id \in Initialised(d)
    PROVE  Advances(d, e)
<1> DEFINE b == d.node[dir].addr_0
<1>1. b \in Blocks /\ d.dmap[b] = 1
  BY InitialisedFields DEF DiskInv, WrittenAllocated
<1>2. Leads(d, e)
  BY <1>1, ExtendedLeads
<1>3. MapsGrow(d, e)
  BY DEF Extended, MapsGrow
<1>4. ASSUME ~Full(d), InStep(d) PROVE InStep(e)
  BY <1>1, <1>4, ExtendedInStep
<1>5. ASSUME Finished(d) PROVE Finished(e)
  <2>1. \A f \in Initialised(d) : IsDir(e, f) <=> IsDir(d, f)
    BY DEF Extended, IsDir
  <2>2. ASSUME NEW f \in Initialised(d), Done(SlotsOf(d, f)) PROVE Done(SlotsOf(e, f))
    <3>1. CASE d.node[f].addr_0 = b
      <4>1. SlotsOf(e, f) = Append(SlotsOf(d, f), en) /\ SlotsOf(d, f) \in Seq(Entry)
        BY <1>1, <3>1, DiskFields DEF Extended, SlotsOf
      <4> QED
        BY <2>2, <4>1, DoneKept
    <3>2. CASE d.node[f].addr_0 # b
      BY <2>2, <3>2, InitialisedFields DEF Extended, SlotsOf
    <3> QED
      BY <3>1, <3>2
  <2>3. ASSUME NEW f \in Entered(e)
        PROVE  \/ /\ f \in Entered(d)
                  /\ IsDir(e, f) => IsDir(d, f)
                  /\ Done(SlotsOf(d, f)) => Done(SlotsOf(e, f))
               \/ IsDir(e, f) => Done(SlotsOf(e, f))
    <3>1. f \in Entered(d) \/ (f = en.id /\ f # NoId /\ en.name \notin Own)
      BY <1>1, ExtendedEntered
    <3>2. CASE f \in Entered(d)
      <4>1. f \in Initialised(d)
        BY <3>2, EnteredWritten
      <4> QED
        BY <2>1, <2>2, <3>2, <4>1
    <3>3. CASE f = en.id /\ f # NoId /\ en.name \notin Own
      <4>1. f \in Initialised(d)
        BY <3>3
      <4> QED
        BY <2>1, <2>2, <3>3, <4>1
    <3> QED
      BY <3>1, <3>2, <3>3
  <2> QED
    BY <1>5, <2>3, FinishedKept
<1> QED
  BY <1>2, <1>3, <1>4, <1>5, CountsAdvance DEF Advances

\* A file that no name leads to becomes a directory, and its counter is set.
LEMMA TypeAdvances ==
    ASSUME NEW d \in Disk, DiskInv(d), NEW e \in Disk,
           NEW i \in Initialised(d), i \notin Entered(d), SlotsOf(d, i) = <<>>,
           e.imap = d.imap, e.dmap = d.dmap,
           \A j \in Ids : j # i => e.node[j] = d.node[j],
           e.node[i].addr_0 = d.node[i].addr_0,
           \A x \in Blocks : x # d.node[i].addr_0 => e.data[x] = d.data[x],
           e.data[d.node[i].addr_0].slots = <<>>,
           e.data[d.node[i].addr_0].cnt \in {0, d.data[d.node[i].addr_0].cnt}
    PROVE  Advances(d, e) /\ i \notin Entered(e)
<1> DEFINE b == d.node[i].addr_0
<1>1. b \in Blocks /\ d.data[b].slots = <<>> /\ d.dmap[b] = 1 /\ d.data[b].cnt \in Nat
  BY InitialisedFields, DiskFields DEF SlotsOf, DiskInv, WrittenAllocated
<1>2. \A j \in Initialised(d) : e.node[j].addr_0 = d.node[j].addr_0 /\ j \in Ids
  BY InitialisedFields
<1>3. Leads(d, e)
  BY <1>1, <1>2, EmptyLeads
<1>4. Entered(e) \subseteq Entered(d) /\ Entered(d) \subseteq Initialised(d)
  <2>1. \A x \in Blocks : e.data[x].slots = d.data[x].slots \/ e.data[x].slots = <<>>
    OBVIOUS
  <2> QED
    BY <2>1, SlotsFewer, EnteredWritten
<1>5. ASSUME Finished(d) PROVE Finished(e)
  <2>1. ASSUME NEW f \in Entered(e)
        PROVE  /\ f \in Entered(d)
               /\ IsDir(e, f) => IsDir(d, f)
               /\ Done(SlotsOf(d, f)) => Done(SlotsOf(e, f))
    <3>1. f \in Initialised(d) /\ f # i /\ f \in Entered(d) /\ f \in Ids
      BY <1>2, <1>4
    <3>2. d.node[f].addr_0 # b /\ d.node[f].addr_0 \in Blocks
      BY <3>1, InitialisedFields DEF DiskInv, BlocksDistinct
    <3>3. e.node[f] = d.node[f] /\ SlotsOf(e, f) = SlotsOf(d, f)
      BY <3>1, <3>2 DEF SlotsOf
    <3> QED
      BY <3>1, <3>3 DEF IsDir
  <2> QED
    BY <1>5, <2>1, FinishedKept
<1>6. ASSUME InStep(d) PROVE InStep(e)
  <2> DEFINE c == e.data[b]
  <2>1. CASE c.cnt = 0
    <3>1. c.cnt <= Cardinality(Live(c))
      BY <2>1, NoneInStep
    <3> HIDE DEF c
    <3>2. \A x \in Blocks : /\ e.dmap[x] = 0 => d.dmap[x] = 0 /\ e.data[x].cnt = d.data[x].cnt
                            /\ \/ e.data[x] = d.data[x]
                               \/ e.data[x].cnt <= Cardinality(Live(e.data[x]))
      BY <1>1, <3>1 DEF c
    <3> QED
      BY <1>6, <3>2, BlocksInStep
  <2>2. CASE c.cnt = d.data[b].cnt
    <3>1. Live(c) = Live(d.data[b])
      BY <1>1, NoneLive
    <3>2. \A x \in Blocks : e.data[x].cnt = d.data[x].cnt /\ Live(e.data[x]) = Live(d.data[x])
      BY <2>2, <3>1
    <3> QED
      BY <1>6, <3>2 DEF InStep
  <2> QED
    BY <2>1, <2>2
<1>7. MapsGrow(d, e)
  BY DEF MapsGrow
<1> QED
  BY <1>3, <1>4, <1>5, <1>6, <1>7, CountsAdvance DEF Advances

-----------------------------------------------------------------------------
(* The images between the disk a command begins with and the one it means *)

Between(d, e) == {x \in Disk : Advances(d, x) /\ Leads(x, e)}

LEMMA ConcatBetween ==
    ASSUME NEW d, NEW x, NEW e, Advances(d, x), Leads(x, e),
           NEW s \in Seq(Between(d, x)), NEW t \in Seq(Between(x, e))
    PROVE  s \o t \in Seq(Between(d, e))
<1> DEFINE S == Between(d, e)
<1>1. Between(d, x) \subseteq S
  BY LeadsOn DEF Between
<1>2. Between(x, e) \subseteq S
  BY AdvancesOn DEF Between
<1> HIDE DEF S
<1>3. s \in Seq(S) /\ t \in Seq(S)
  BY <1>1, <1>2
<1>4. s \o t \in Seq(S)
  BY <1>3, ConcatProperties
<1> QED
  BY <1>4 DEF S

LEMMA CreateImagesBetween ==
    ASSUME NEW d \in SoundDisk
    PROVE  CreateImages(d) \in Seq(Between(d, CreateFile(d).disk))
<1> DEFINE i == AllocBit(d.imap)
           b == AllocBit(d.dmap)
           d1 == TakeInode(d, i)
           d2 == TakeBlock(d1, b)
           e == CreateFile(d).disk
<1>1. d \in Disk /\ DiskInv(d) /\ e \in Disk /\ Advances(d, e)
  BY CreateFileType, CreateFileAdvances DEF SoundDisk
<1>2. /\ i = NoId \/ (i \in Inodes /\ d.imap[i] = 0)
      /\ b = NoId \/ (b \in Blocks /\ d.dmap[b] = 0)
  BY <1>1, AllocatedFree
<1>3. CreateImages(d) = IF i = NoId THEN <<>>
                        ELSE IF b = NoId THEN <<d1>> ELSE <<d1, d2, e>>
  BY DEF CreateImages
<1>4. CASE i = NoId
  BY <1>3, <1>4, EmptySeq
<1>5. ASSUME i # NoId
      PROVE  d1 \in Disk /\ d1.data = d.data /\ d1.node = d.node /\ Advances(d, d1) /\ Leads(d1, d)
  <2>1. /\ d1 \in Disk /\ d1.imap = [d.imap EXCEPT ![i] = 1] /\ d1.dmap = d.dmap
        /\ d1.node = d.node /\ d1.data = d.data
    BY <1>1, <1>2, <1>5, TakeInodeType
  <2> HIDE DEF d1
  <2>2. MapsGrow(d, d1)
    BY <1>1, <1>2, <1>5, <2>1, DiskFields DEF MapsGrow
  <2> QED
    BY <1>1, <2>1, <2>2, MapsAdvance
<1>6. CASE i # NoId /\ b = NoId
  <2>1. e = d1
    BY <1>6 DEF CreateFile, Created
  <2>2. d1 \in Between(d, e)
    BY <1>5, <1>6, <2>1, LeadsItself DEF Between
  <2> DEFINE S == Between(d, e)
  <2> HIDE DEF d1, e, S
  <2>3. <<d1>> \in Seq(S)
    BY <2>2, Images DEF S
  <2> QED
    BY <1>3, <1>6, <2>3 DEF S, e
<1>7. CASE i # NoId /\ b # NoId
  <2> HIDE DEF d1, e
  <2>1. /\ d2 \in Disk /\ d2.imap = d1.imap /\ d2.dmap = [d1.dmap EXCEPT ![b] = 1]
        /\ d2.node = d1.node /\ d2.data = d1.data
    BY <1>2, <1>5, <1>7, TakeBlockType
  <2> HIDE DEF d2
  <2>2. MapsGrow(d1, d2)
    BY <1>2, <1>5, <1>7, <2>1, DiskFields DEF MapsGrow
  <2>3. Advances(d1, d2) /\ Leads(d2, d1)
    BY <1>5, <1>7, <2>1, <2>2, MapsAdvance
  <2>4. Leads(d, e) /\ Advances(e, e) /\ Leads(e, e)
    BY <1>1, LeadsItself, AdvancesItself DEF Advances
  <2>5. d1 \in Between(d, e)
    BY <1>5, <1>7, <2>4, LeadsOn DEF Between
  <2>6. d2 \in Between(d, e)
    BY <1>5, <1>7, <2>1, <2>3, <2>4, LeadsOn, AdvancesOn DEF Between
  <2>7. e \in Between(d, e)
    BY <1>1, <2>4 DEF Between
  <2> DEFINE S == Between(d, e)
  <2> HIDE DEF S
  <2>8. <<d1, d2, e>> \in Seq(S)
    BY <2>5, <2>6, <2>7 DEF S
  <2> QED
    BY <1>3, <1>7, <2>8 DEF S, e
<1> QED
  BY <1>4, <1>6, <1>7

LEMMA EntryImagesBetween ==
    ASSUME NEW d \in SoundDisk, NEW n \in Name, NEW dir \in Initialised(d), NEW f \in Ids,
           f = NoId => Full(d),
           f # NoId /\ n \notin Own /\ IsDir(d, f) => Done(SlotsOf(d, f)),
           f # NoId => f \in Initialised(d)
    PROVE  /\ EntryImages(d, f, n, dir) \in Seq(Between(d, AddEntry(d, f, n, dir)))
           /\ Advances(d, AddEntry(d, f, n, dir))
<1> DEFINE b == d.node[dir].addr_0
           e == AddEntry(d, f, n, dir)
           c == [d.data[b] EXCEPT !.slots = e.data[b].slots]
           w == WriteContent(d, b, c)
           en == [id |-> f, name |-> n]
<1>1. d \in Disk /\ DiskInv(d) /\ en \in Entry /\ en.id = f /\ en.name = n
  BY DEF SoundDisk, Entry
<1>2. dir \in Ids /\ b \in Blocks /\ d.data[b] \in Content
  BY <1>1, InitialisedFields
<1>3. EntryImages(d, f, n, dir) = <<w, e>>
  BY DEF EntryImages
<1>4. e \in Disk
  BY <1>1, <1>2, AddEntryType
<1>5. /\ e.imap = d.imap /\ e.dmap = d.dmap /\ e.node = d.node
      /\ e.data[b].cnt = d.data[b].cnt + 1
  BY <1>1, <1>2, DiskFields DEF AddEntry, WriteContent
<1>6. /\ \A x \in Blocks : x # b => e.data[x] = d.data[x]
      /\ e.data[b].slots = Append(d.data[b].slots, en)
  BY <1>1, AddEntryFields
<1> HIDE DEF en
<1>7. Extended(d, e, b, en)
  <2> HIDE DEF e, b
  <2> QED
    BY <1>5, <1>6 DEF Extended
<1>8. c \in Content /\ c.slots = e.data[b].slots /\ c.cnt = d.data[b].cnt
  BY <1>1, <1>2, <1>4, DiskFields DEF Content
<1> HIDE DEF e, c
<1>9. Advances(d, e)
  BY <1>1, <1>4, <1>7, EntryAdvances
<1> HIDE DEF b
<1>10. /\ w \in Disk /\ w.imap = d.imap /\ w.dmap = d.dmap /\ w.node = d.node
       /\ w.data = [d.data EXCEPT ![b] = c]
  BY <1>1, <1>2, <1>8, WriteContentType
<1> HIDE DEF w
<1>11. w.data[b] = c /\ \A x \in Blocks : x # b => w.data[x] = d.data[x]
  BY <1>1, <1>2, <1>10, DiskFields
<1>12. Extended(d, w, b, en)
  BY <1>6, <1>8, <1>10, <1>11 DEF Extended
<1>13. Advances(d, w)
  BY <1>1, <1>10, <1>12, EntryAdvances DEF b
<1>14. Leads(w, e)
  <2>1. Shows(c, e.data[b])
    <3>1. e.data[b] \in Content /\ c.cnt <= e.data[b].cnt
      <4>1. e.data[b] \in Content /\ d.data[b].cnt \in Nat
        BY <1>1, <1>2, <1>4, DiskFields
      <4> QED
        BY <1>5, <1>8, <4>1
    <3>2. Live(e.data[b]) = Live(c) /\ \A k \in Live(c) : e.data[b].slots[k] = c.slots[k]
      BY <1>8 DEF Live
    <3> QED
      BY <1>8, <3>1, <3>2, GrownShows
  <2>2. \A x \in Blocks : Shows(w.data[x], e.data[x])
    BY <1>6, <1>11, <2>1, ShowsItself
  <2> QED
    BY <1>4, <1>5, <1>10, <2>2, BlocksLead, InitialisedFields
<1>15. w \in Between(d, e) /\ e \in Between(d, e)
  BY <1>4, <1>9, <1>10, <1>13, <1>14, LeadsItself DEF Between
<1>16. <<w, e>> \in Seq(Between(d, e))
  BY <1>15, Images
<1> QED
  BY <1>3, <1>9, <1>16 DEF e

\* newDir: no name leads to the directory while it has no "..".
LEMMA DirImagesBetween ==
    ASSUME NEW d \in SoundDisk, NEW i \in Initialised(d), NEW parent \in Initialised(d),
           d.data[d.node[i].addr_0].slots = <<>>, i \notin Entered(d)
    PROVE  /\ DirImages(d, i, parent) \in Seq(Between(d, NewDir(d, i, parent)))
           /\ Advances(d, NewDir(d, i, parent))
           /\ Done(SlotsOf(NewDir(d, i, parent), i))
<1> DEFINE t  == [d EXCEPT !.node[i].type = Directory]
           d1 == MakeDirectory(d, i, 0)
           d2 == AddEntry(d1, i, ".", i)
           e  == AddEntry(d2, parent, "..", i)
           s1 == EntryImages(d1, i, ".", i)
           s2 == EntryImages(d2, parent, "..", i)
           b  == d.node[i].addr_0
<1>1. d \in Disk /\ DiskInv(d) /\ "." \in Name /\ ".." \in Name
  BY DEF SoundDisk, Name
<1>2. i \in Ids /\ parent \in Ids /\ b \in Blocks /\ i # NoId /\ parent # NoId
  BY <1>1, InitialisedFields DEF Inodes
<1>3. /\ t \in Disk /\ t.imap = d.imap /\ t.dmap = d.dmap /\ t.data = d.data
      /\ t.node[i].addr_0 = b
      /\ \A j \in Ids : j # i => t.node[j] = d.node[j]
  <2> DEFINE node == [d.node[i] EXCEPT !.type = Directory]
  <2>1. d.node[i] \in InodeT /\ d.node \in [Ids -> InodeT]
    BY <1>1, <1>2, DiskFields
  <2>2. node \in InodeT /\ node.addr_0 = b
    BY <2>1 DEF InodeT
  <2>3. t = WriteInode(d, i, node)
    BY DEF WriteInode
  <2> HIDE DEF node, t
  <2>4. /\ t \in Disk /\ t.imap = d.imap /\ t.dmap = d.dmap /\ t.data = d.data
        /\ t.node = [d.node EXCEPT ![i] = node]
    BY <1>1, <1>2, <2>2, <2>3, WriteInodeType
  <2> QED
    BY <1>2, <2>1, <2>2, <2>4
<1>4. /\ d1 \in Disk /\ d1.imap = d.imap /\ d1.dmap = d.dmap
      /\ \A j \in Ids : j # i => d1.node[j] = d.node[j]
      /\ d1.node[i].addr_0 = b
      /\ \A x \in Blocks : x # b => d1.data[x] = d.data[x]
      /\ d1.data[b].cnt = 0 /\ d1.data[b].slots = <<>>
  <2>1. d1 \in Disk /\ d1.imap = d.imap /\ d1.dmap = d.dmap
    BY <1>1, MakeDirectoryContent
  <2>2. d1.node[i] = [type |-> Directory, addr_0 |-> b]
    BY <1>1, MakeDirectoryContent
  <2>3. d1.data[b] = [cnt |-> 0, slots |-> d.data[b].slots]
    BY <1>1, MakeDirectoryContent
  <2>4. /\ \A j \in Ids : j # i => d1.node[j] = d.node[j]
        /\ \A x \in Blocks : x # b => d1.data[x] = d.data[x]
    <3> HIDE DEF d1
    <3> QED
      BY <1>1, MakeDirectoryContent DEF d1
  <2> HIDE DEF d1, b
  <2> QED
    BY <2>1, <2>2, <2>3, <2>4 DEF b
<1>5. DirImages(d, i, parent) = <<t, d1>> \o s1 \o s2 /\ NewDir(d, i, parent) = e
  BY DEF DirImages, NewDir
<1> HIDE DEF t, d1
<1>6. Advances(d, t)
  BY <1>1, <1>2, <1>3, TypeAdvances DEF SlotsOf
<1>7. Advances(d, d1)
  BY <1>1, <1>2, <1>4, TypeAdvances DEF SlotsOf
<1>8. Leads(t, d1)
  <2>1. \A j \in Initialised(t) : d1.node[j].addr_0 = t.node[j].addr_0
    BY <1>3, <1>4, InitialisedFields
  <2>2. \A x \in Blocks : d1.data[x] = t.data[x] \/ t.data[x].slots = <<>>
    BY <1>3, <1>4
  <2> QED
    BY <1>3, <1>4, <2>1, <2>2, EmptyLeads
<1>9. DiskInv(d1) /\ Initialised(d1) = Initialised(d)
  <2>1. /\ \A j \in Inodes : d1.node[j].addr_0 = d.node[j].addr_0
        /\ \A x \in Blocks : d1.data[x].slots = d.data[x].slots
    BY <1>2, <1>4 DEF Ids
  <2>2. \A x \in Blocks : \A k \in Live(d1.data[x]) :
           k \in Live(d.data[x]) /\ d1.data[x].slots[k].id = d.data[x].slots[k].id
    BY <2>1 DEF Live
  <2> QED
    BY <1>1, <1>4, <2>1, <2>2, EntriesKept
<1>10. d1 \in SoundDisk /\ "." \in Own /\ ".." \in Own
  BY <1>4, <1>9 DEF SoundDisk, Own
<1>11. s1 \in Seq(Between(d1, d2)) /\ Advances(d1, d2)
  BY <1>1, <1>2, <1>9, <1>10, EntryImagesBetween
<1>12. d2 \in SoundDisk /\ Initialised(d2) = Initialised(d) /\ d2.node = d1.node
  <2>1. Len(d1.data[d1.node[i].addr_0].slots) < 2
    BY <1>4, EmptySeq
  <2>2. i \in Initialised(d1)
    BY <1>9
  <2>3. DiskInv(d2) /\ Initialised(d2) = Initialised(d1)
    BY <1>1, <1>2, <1>4, <1>9, <2>1, <2>2, AddEntryInv
  <2>4. d2 \in Disk
    BY <1>1, <1>2, <1>4, AddEntryType
  <2>5. d2.node = d1.node
    BY DEF AddEntry, WriteContent
  <2> QED
    BY <1>9, <2>3, <2>4, <2>5 DEF SoundDisk
<1>13. d2.data[b].slots = Append(<<>>, [id |-> i, name |-> "."])
  <2>1. i \in Initialised(d1)
    BY <1>9
  <2>2. d2.data[d1.node[i].addr_0].slots = Append(d1.data[d1.node[i].addr_0].slots,
                                                  [id |-> i, name |-> "."])
    BY <1>1, <1>2, <1>4, <2>1, AddEntryFields
  <2> QED
    BY <1>4, <2>2
<1> HIDE DEF d2, s1
<1>14. s2 \in Seq(Between(d2, e)) /\ Advances(d2, e)
  BY <1>1, <1>2, <1>10, <1>12, EntryImagesBetween
<1>15. Done(SlotsOf(e, i))
  <2>1. i \in Initialised(d2) /\ d2.node[i].addr_0 = b /\ d2 \in Disk
    BY <1>4, <1>12 DEF SoundDisk
  <2>2. e.data[d2.node[i].addr_0].slots = Append(d2.data[d2.node[i].addr_0].slots,
                                                 [id |-> parent, name |-> ".."])
    BY <1>1, <1>2, <2>1, AddEntryFields
  <2>3. e.node = d2.node
    BY DEF AddEntry, WriteContent
  <2>4. SlotsOf(e, i) = Append(Append(<<>>, [id |-> i, name |-> "."]),
                               [id |-> parent, name |-> ".."])
    BY <1>13, <2>1, <2>2, <2>3 DEF SlotsOf
  <2> QED
    BY <2>4 DEF Done
<1> HIDE DEF e, s2
<1>16. Advances(d, d2) /\ Advances(d, e) /\ Leads(d1, e)
  BY <1>7, <1>11, <1>14, AdvancesOn, LeadsOn DEF Advances
<1>17. <<t, d1>> \in Seq(Between(d, d1))
  <2> DEFINE S == Between(d, d1)
  <2>1. t \in S /\ d1 \in S
    BY <1>3, <1>4, <1>6, <1>7, <1>8, LeadsItself DEF Between
  <2> HIDE DEF S
  <2>2. <<t, d1>> \in Seq(S)
    BY <2>1
  <2> QED
    BY <2>2 DEF S
<1> DEFINE s == <<t, d1>>
<1> HIDE DEF s
<1>18. s \o s1 \in Seq(Between(d, d2))
  BY <1>7, <1>11, <1>17, ConcatBetween DEF s, Advances
<1> DEFINE r == s \o s1
<1> HIDE DEF r
<1>19. r \o s2 \in Seq(Between(d, e))
  BY <1>14, <1>16, <1>18, ConcatBetween DEF r, Advances
<1> QED
  BY <1>5, <1>15, <1>16, <1>19 DEF r, s

LEMMA OpenImagesBetween ==
    ASSUME NEW d \in SoundDisk, NEW n \in Name, NEW dir \in Initialised(d)
    PROVE  LET c == CreateFile(d)
               e == AddEntry(c.disk, c.id, n, dir)
           IN  OpenImages(d, n, dir) \in Seq(Between(d, e)) /\ Advances(d, e)
<1> DEFINE c == CreateFile(d)
           e == AddEntry(c.disk, c.id, n, dir)
           made == CreateImages(d)
           entry == EntryImages(c.disk, c.id, n, dir)
<1>1. d \in Disk /\ DiskInv(d)
  BY DEF SoundDisk
<1>2. c.id \in Ids /\ c.disk \in SoundDisk /\ Advances(d, c.disk) /\ (c.id = NoId => Full(c.disk))
  BY <1>1, CreateFileType, CreateFileInv, CreateFileAdvances DEF SoundDisk
<1>3. dir \in Initialised(c.disk) /\ (c.id # NoId => c.id \in Initialised(c.disk))
  BY <1>1, CreateFileInv
<1>4. c.id # NoId => ~IsDir(c.disk, c.id)
  <2> SUFFICES ASSUME c.id # NoId PROVE c.disk.node[c.id].type = RegularFile
    BY DEF IsDir
  <2>1. c.id \notin Initialised(d)
    <3> SUFFICES ASSUME c.id \in Initialised(d) PROVE FALSE
      OBVIOUS
    <3>1. c.id \in Nat /\ c.id > c.id
      BY <1>1, CreateFileInv DEF Initialised, Inodes
    <3> QED
      BY <3>1
  <2>2. \A j \in Initialised(c.disk) : j \in Initialised(d) \/ c.disk.node[j].type = RegularFile
    BY <1>1, CreateFileWrites
  <2> QED
    BY <1>3, <2>1, <2>2
<1>5. made \in Seq(Between(d, c.disk))
  BY CreateImagesBetween
<1>6. OpenImages(d, n, dir) = made \o entry
  BY DEF OpenImages
<1> HIDE DEF c, made
<1>7. entry \in Seq(Between(c.disk, e)) /\ Advances(c.disk, e)
  BY <1>2, <1>3, <1>4, EntryImagesBetween
<1> HIDE DEF entry, e
<1>8. made \o entry \in Seq(Between(d, e))
  BY <1>2, <1>5, <1>7, ConcatBetween DEF Advances
<1>9. Advances(d, e)
  BY <1>2, <1>7, AdvancesOn
<1> QED
  BY <1>6, <1>8, <1>9 DEF e, c

\* mkdir: the name is entered behind "." and "..".
LEMMA MkdirImagesBetween ==
    ASSUME NEW d \in SoundDisk, NEW n \in Name, NEW dir \in Initialised(d),
           CreateFile(d).id # NoId
    PROVE  LET c == CreateFile(d)
               e == AddEntry(NewDir(c.disk, c.id, dir), c.id, n, dir)
           IN  MkdirImages(d, n, dir) \in Seq(Between(d, e)) /\ Advances(d, e)
<1> DEFINE c == CreateFile(d)
           x == NewDir(c.disk, c.id, dir)
           e == AddEntry(x, c.id, n, dir)
           made == CreateImages(d)
           filled == DirImages(c.disk, c.id, dir)
           entry == EntryImages(x, c.id, n, dir)
<1>1. d \in Disk /\ DiskInv(d)
  BY DEF SoundDisk
<1>2. /\ c.id \in Ids /\ c.id # NoId /\ c.disk \in SoundDisk
      /\ Advances(d, c.disk) /\ c.id \notin Entered(c.disk)
  BY <1>1, CreateFileType, CreateFileInv, CreateFileAdvances DEF SoundDisk
<1>3. /\ dir \in Initialised(c.disk) /\ c.id \in Initialised(c.disk)
      /\ c.disk.data[c.disk.node[c.id].addr_0].slots = <<>>
  BY <1>1, <1>2, CreateFileInv
<1>4. made \in Seq(Between(d, c.disk))
  BY CreateImagesBetween
<1>5. MkdirImages(d, n, dir) = made \o filled \o entry
  BY DEF MkdirImages
<1> HIDE DEF c, made
<1>6. /\ filled \in Seq(Between(c.disk, x)) /\ Advances(c.disk, x)
      /\ Done(SlotsOf(x, c.id))
  BY <1>2, <1>3, DirImagesBetween
<1>7. x \in SoundDisk /\ dir \in Initialised(x) /\ c.id \in Initialised(x)
  <2>1. c.disk \in Disk /\ DiskInv(c.disk) /\ dir \in Ids
    BY <1>2, <1>3, InitialisedFields DEF SoundDisk
  <2> QED
    BY <1>2, <1>3, <2>1, NewDirType, NewDirInv DEF SoundDisk
<1> HIDE DEF x, filled
<1>8. entry \in Seq(Between(x, e)) /\ Advances(x, e)
  BY <1>2, <1>6, <1>7, EntryImagesBetween
<1> HIDE DEF entry, e
<1> DEFINE s == made \o filled
<1>9. s \in Seq(Between(d, x)) /\ Advances(d, x)
  BY <1>2, <1>4, <1>6, ConcatBetween, AdvancesOn DEF Advances
<1> HIDE DEF s
<1>10. s \o entry \in Seq(Between(d, e)) /\ Advances(d, e)
  BY <1>8, <1>9, ConcatBetween, AdvancesOn DEF Advances
<1> QED
  BY <1>5, <1>10 DEF e, x, c, s

\* The inode in front of the inode region is nobody's, and the disk is full.
LEMMA GhostAdvances ==
    ASSUME NEW d \in Disk, NEW e \in Disk, MapsGrow(d, e), Full(d), e.data = d.data,
           \A j \in Inodes : e.node[j] = d.node[j]
    PROVE  Advances(d, e) /\ Leads(e, d)
<1>1. /\ \A j \in Initialised(d) : e.node[j].addr_0 = d.node[j].addr_0
      /\ \A j \in Initialised(e) : d.node[j].addr_0 = e.node[j].addr_0
  BY DEF Initialised
<1>2. Leads(d, e) /\ Leads(e, d)
  BY <1>1, EmptyLeads
<1>3. Entered(e) = Entered(d) /\ Entered(d) \subseteq Inodes
  BY DEF Entered
<1>4. Finished(d) => Finished(e)
  BY <1>3 DEF Finished, IsDir, SlotsOf
<1> QED
  BY <1>2, <1>4, FullStays DEF Advances, FullOrInStep

LEMMA MkdirFailedImagesBetween ==
    ASSUME NEW d \in SoundDisk, CreateFile(d).id = NoId
    PROVE  LET e == NewDirFailed(CreateFile(d).disk)
           IN  MkdirFailedImages(d) \in Seq(Between(d, e)) /\ Advances(d, e)
<1> DEFINE c == CreateFile(d).disk
           made == CreateImages(d)
           node == [type |-> Directory, addr_0 |-> NoBlock]
           w == WriteInode(c, NoId, node)
           e == NewDirFailed(c)
<1>1. d \in Disk /\ DiskInv(d)
  BY DEF SoundDisk
<1>2. c \in Disk /\ Full(c) /\ Advances(d, c)
  BY <1>1, CreateFileType, CreateFileAdvances
<1>3. made \in Seq(Between(d, c))
  BY CreateImagesBetween
<1>4. MkdirFailedImages(d) = made \o <<w, e>>
  BY DEF MkdirFailedImages
<1> HIDE DEF c, made
<1>5. node \in InodeT /\ NoId \in Ids /\ NoId \notin Inodes
  BY DEF InodeT, Ids, Inodes
<1>6. e \in Disk /\ MapsGrow(c, e) /\ e.data = c.data /\ \A j \in Inodes : e.node[j] = c.node[j]
  <2>1. e.data = c.data /\ \A j \in Inodes : e.node[j] = c.node[j]
    BY <1>2, DiskFields DEF NewDirFailed, WriteInode, TakeBlock, Ids, Inodes
  <2> QED
    BY <1>2, <2>1, NewDirFailedType, NewDirFailedGrows
<1> HIDE DEF node, e
<1>7. /\ w \in Disk /\ w.imap = c.imap /\ w.dmap = c.dmap /\ w.data = c.data
      /\ w.node = [c.node EXCEPT ![NoId] = node]
  BY <1>2, <1>5, WriteInodeType
<1> HIDE DEF w
<1>8. MapsGrow(c, w) /\ \A j \in Inodes : w.node[j] = c.node[j]
  BY <1>2, <1>5, <1>7, DiskFields DEF MapsGrow
<1>9. Advances(c, e) /\ Advances(c, w) /\ Leads(w, c)
  BY <1>2, <1>6, <1>7, <1>8, GhostAdvances
<1>10. <<w, e>> \in Seq(Between(c, e))
  <2> DEFINE S == Between(c, e)
  <2>1. w \in S /\ e \in S
    BY <1>6, <1>7, <1>9, LeadsItself, LeadsOn DEF Between, Advances
  <2> HIDE DEF S
  <2>2. <<w, e>> \in Seq(S)
    BY <2>1
  <2> QED
    BY <2>2 DEF S
<1> DEFINE t == <<w, e>>
<1> HIDE DEF t
<1>11. made \o t \in Seq(Between(d, e)) /\ Advances(d, e)
  BY <1>2, <1>3, <1>9, <1>10, ConcatBetween, AdvancesOn DEF t, Advances
<1> QED
  BY <1>4, <1>11 DEF t, e, c

-----------------------------------------------------------------------------
(* The images of rm and the disk of mkfs *)

\* No directory of x misses a name that it has on disk e.
Spares(e, x) ==
    \A i \in Initialised(x) : DOMAIN TableOf(ContentOf(e, i)) \subseteq DOMAIN TableOf(ContentOf(x, i))

LEMMA NamesFewer ==
    ASSUME NEW c, NEW e, Visible(e) \subseteq Visible(c),
           \A k \in Visible(e) : e.slots[k] = c.slots[k]
    PROVE  DOMAIN TableOf(e) \subseteq DOMAIN TableOf(c)
BY DEF TableOf

LEMMA BlocksSpare ==
    ASSUME NEW e \in Disk, NEW x \in Disk, e.node = x.node,
           \A b \in Blocks : DOMAIN TableOf(e.data[b]) \subseteq DOMAIN TableOf(x.data[b])
    PROVE  Spares(e, x)
<1>1. ASSUME NEW i \in Initialised(x)
      PROVE  /\ ContentOf(e, i) = e.data[x.node[i].addr_0]
             /\ ContentOf(x, i) = x.data[x.node[i].addr_0]
  BY DEF Initialised, ContentOf
<1> QED
  BY <1>1, InitialisedFields DEF Spares

\* Block b of d with an entry deleted, whether it is counted or not.
LEMMA GoneFinished ==
    ASSUME NEW d \in Disk, DiskInv(d), NEW x \in Disk, NEW b \in Blocks, NEW g, NEW k,
           EntryGone(d.data[b], g, k), x.node = d.node,
           \A y \in Blocks : y # b => x.data[y] = d.data[y],
           x.data[b].slots = g.slots, Finished(d)
    PROVE  Finished(x)
<1> DEFINE c == d.data[b]
<1>1. /\ c.slots \in Seq(Entry) /\ g.slots \in Seq(Entry)
      /\ DOMAIN g.slots = DOMAIN c.slots
      /\ \A j \in DOMAIN c.slots : g.slots[j].name = c.slots[j].name
  <2>1. c.slots \in Seq(Entry)
    BY DiskFields
  <2> HIDE DEF c
  <2>2. EntryGone(c, g, k)
    BY DEF c
  <2>3. g.slots \in Seq(Entry) /\ DOMAIN g.slots = DOMAIN c.slots
    BY <2>2 DEF EntryGone, Content
  <2>4. \A j \in DOMAIN c.slots : g.slots[j].name = c.slots[j].name
    BY <2>2 DEF EntryGone
  <2> QED
    BY <2>1, <2>3, <2>4
<1>2. Live(g) \subseteq Live(c) /\ \A j \in Live(g) : g.slots[j] = c.slots[j]
  BY GoneLive
<1> HIDE DEF c
<1>3. Done(c.slots) => Done(g.slots)
  <2>1. /\ DOMAIN c.slots = 1 .. Len(c.slots) /\ DOMAIN g.slots = 1 .. Len(g.slots)
        /\ Len(c.slots) \in Nat /\ Len(g.slots) \in Nat
    BY <1>1, LenProperties
  <2>2. Len(g.slots) = Len(c.slots)
    BY <1>1, <2>1
  <2> QED
    BY <1>1, <2>1, <2>2 DEF Done
<1>4. Entered(x) \subseteq Entered(d)
  <2>1. Live(x.data[b]) = Live(g)
    BY DEF Live
  <2>2. \A y \in Blocks : \A j \in Live(x.data[y]) :
           j \in Live(d.data[y]) /\ x.data[y].slots[j] = d.data[y].slots[j]
    BY <1>2, <2>1 DEF c
  <2> QED
    BY <2>2, EnteredFewer
<1>5. ASSUME NEW f \in Entered(x)
      PROVE  /\ f \in Entered(d)
             /\ IsDir(x, f) => IsDir(d, f)
             /\ Done(SlotsOf(d, f)) => Done(SlotsOf(x, f))
  <2>1. f \in Entered(d) /\ f \in Initialised(d)
    BY <1>4, EnteredWritten
  <2>2. d.node[f].addr_0 \in Blocks
    BY <2>1, InitialisedFields
  <2> QED
    BY <1>3, <2>1, <2>2 DEF IsDir, SlotsOf, c
<1> QED
  BY <1>5, FinishedKept

Removing(d, e) == {x \in Disk : Spares(e, x) /\ (Finished(d) => Finished(x))}

\* rmDirEntry: the deleted entry takes another one's place in sight, until it
\* has been counted out.
LEMMA RmImagesSpare ==
    ASSUME NEW d \in SoundDisk, NEW dir \in Initialised(d), NEW n,
           NEW k \in Match(d.data[d.node[dir].addr_0], n)
    PROVE  LET e == DeleteEntry(d, dir, k)
           IN  /\ RmImages(d, dir, k) \in Seq(Removing(d, e))
               /\ d \in Removing(d, e)
               /\ e \in Removing(d, e)
               /\ FullOrInStep(d) => FullOrInStep(e)
<1> DEFINE b == d.node[dir].addr_0
           e == DeleteEntry(d, dir, k)
           g == e.data[b]
           c == d.data[b]
           m == [c EXCEPT !.slots = g.slots]
           w == WriteContent(d, b, m)
<1>1. d \in Disk /\ DiskInv(d)
  BY DEF SoundDisk
<1>2. dir \in Ids /\ b \in Blocks /\ c \in Content
  BY <1>1, InitialisedFields
<1>3. e \in Disk /\ EntryGone(c, g, k)
  BY <1>1, <1>2, DeleteEntryType, DeleteEntryGone
<1>4. e.imap = d.imap /\ e.dmap = d.dmap /\ e.node = d.node
  BY DEF DeleteEntry, WriteContent
<1>5. \A x \in Blocks : x # b => e.data[x] = d.data[x]
  BY <1>1, DeleteEntryFields
<1>6. FullOrInStep(d) => FullOrInStep(e)
  <2>1. InStep(d) => InStep(e)
    BY <1>1, DeleteEntryInStep DEF DiskInv
  <2> HIDE DEF e
  <2> QED
    BY <1>4, <2>1 DEF FullOrInStep, Full
<1>7. RmImages(d, dir, k) = <<w, e>>
  BY DEF RmImages
<1> HIDE DEF e
<1>8. g \in Content /\ g.cnt = c.cnt - 1 /\ c.cnt \in Nat /\ k \in Scanned(c)
  BY <1>2, <1>3 DEF EntryGone, Content
<1>9. m \in Content /\ m.slots = g.slots /\ m.cnt = c.cnt
  BY <1>2, <1>8 DEF Content
<1> HIDE DEF m
<1>10. /\ w \in Disk /\ w.node = d.node
       /\ w.data = [d.data EXCEPT ![b] = m]
  BY <1>1, <1>2, <1>9, WriteContentType
<1> HIDE DEF w
<1>11. w.data[b] = m /\ \A x \in Blocks : x # b => w.data[x] = d.data[x]
  BY <1>1, <1>2, <1>10, DiskFields
<1>12. ASSUME Finished(d) PROVE Finished(w) /\ Finished(e)
  <2>1. Finished(e)
    <3>1. e.data[b].slots = g.slots
      OBVIOUS
    <3> HIDE DEF g, b
    <3>2. EntryGone(d.data[b], g, k)
      BY <1>3
    <3> QED
      BY <1>1, <1>2, <1>3, <1>4, <1>5, <1>12, <3>1, <3>2, GoneFinished
  <2>2. Finished(w)
    <3>1. EntryGone(d.data[b], g, k)
      BY <1>3
    <3> HIDE DEF g, b
    <3>2. w.data[b].slots = g.slots
      BY <1>9, <1>11
    <3> QED
      BY <1>1, <1>2, <1>10, <1>11, <1>12, <3>1, <3>2, GoneFinished
  <2> QED
    BY <2>1, <2>2
<1>13. DOMAIN TableOf(g) \subseteq DOMAIN TableOf(c)
  <2>1. Live(g) = Live(c) \ {k} /\ \A j \in Live(g) : g.slots[j] = c.slots[j]
    BY <1>3, GoneLive
  <2> HIDE DEF g, c
  <2>2. Visible(g) \subseteq Visible(c)
    BY <1>2, <1>8, <2>1, DeleteShows
  <2>3. \A j \in Visible(g) : g.slots[j] = c.slots[j]
    BY <2>1 DEF Visible
  <2> QED
    BY <2>2, <2>3, NamesFewer
<1>14. DOMAIN TableOf(g) \subseteq DOMAIN TableOf(m)
  <2> HIDE DEF g, c
  <2>1. Live(m) = Live(g) /\ g.cnt <= m.cnt
    BY <1>8, <1>9 DEF Live
  <2>2. Shows(g, m)
    BY <1>8, <1>9, <2>1, GrownShows
  <2>3. Visible(g) \subseteq Visible(m) /\ \A j \in Visible(g) : g.slots[j] = m.slots[j]
    BY <2>2 DEF Shows
  <2> QED
    BY <2>3, NamesFewer
<1>15. Spares(e, d) /\ Spares(e, w) /\ Spares(e, e)
  <2>1. \A x \in Blocks : /\ DOMAIN TableOf(e.data[x]) \subseteq DOMAIN TableOf(d.data[x])
                          /\ DOMAIN TableOf(e.data[x]) \subseteq DOMAIN TableOf(w.data[x])
    BY <1>5, <1>11, <1>13, <1>14
  <2> QED
    BY <1>1, <1>3, <1>4, <1>10, <2>1, BlocksSpare
<1> DEFINE S == Removing(d, e)
<1>16. d \in S /\ w \in S /\ e \in S
  BY <1>1, <1>3, <1>10, <1>12, <1>15 DEF Removing
<1> HIDE DEF S
<1>17. <<w, e>> \in Seq(S)
  BY <1>16
<1> QED
  BY <1>6, <1>7, <1>16, <1>17 DEF S, e

LEMMA FormattedDiskFinished == Finished(ZeroDisk) /\ Finished(FormattedDisk)
<1> DEFINE c == CreateFile(ZeroDisk)
<1>1. Finished(ZeroDisk)
  <2>1. \A b \in Blocks : Live(ZeroDisk.data[b]) = {}
    BY NoneLive DEF ZeroDisk, Zeros
  <2> QED
    BY <2>1 DEF Finished, Entered
<1>2. /\ c.id = Root /\ c.id # NoId /\ c.disk \in SoundDisk
      /\ Advances(ZeroDisk, c.disk) /\ c.id \notin Entered(c.disk)
  BY ZeroDiskType, ZeroDiskInv, CreateRoot, CreateFileType, CreateFileInv, CreateFileAdvances
  DEF SoundDisk
<1>3. c.id \in Initialised(c.disk) /\ c.disk.data[c.disk.node[c.id].addr_0].slots = <<>>
  BY <1>2, ZeroDiskType, ZeroDiskInv, CreateFileInv
<1> HIDE DEF c
<1>4. Advances(c.disk, NewDir(c.disk, c.id, Root))
  BY <1>2, <1>3, DirImagesBetween
<1> QED
  BY <1>1, <1>2, <1>4 DEF Advances, FormattedDisk, c

-----------------------------------------------------------------------------
(* The commands under way *)

\* What is on the way of a creation: no name that the whole would not have, and
\* unless a cut rm (r) has left a counter too high, no counter too high.
Creating(e, r) == {x \in Disk : Leads(x, e) /\ Finished(x) /\ (r \/ FullOrInStep(x))}

\* What is on the way of rm: every name that the whole has.
Removed(e) == {x \in Disk : Spares(e, x) /\ Finished(x)}

RmCut == "rm" \in cuts

Orderly == /\ Finished(disk)
           /\ RmCut \/ FullOrInStep(disk)
           /\ todo # <<>> /\ op = "create" =>
                 media \in Creating(disk, RmCut) /\ todo \in Seq(Creating(disk, RmCut))
           /\ todo # <<>> /\ op = "rm" =>
                 media \in Removed(disk) /\ todo \in Seq(Removed(disk))

OrderInv == "mkfs" \in cuts \/ Orderly

LEMMA CrashInitOrder == CrashInit => OrderInv
BY FormattedDiskFinished, FormattedDiskInStep
DEF CrashInit, Init, OrderInv, Orderly, FullOrInStep

LEMMA CreatingBegins ==
    ASSUME Sound, Orderly, todo = <<>>, NEW images \in Seq(Between(disk, disk')),
           Advances(disk, disk'), Writes("create", images)
    PROVE  Orderly'
<1> DEFINE S == Creating(disk', RmCut)
<1>1. media = disk /\ disk \in Disk
  BY BeforeWriting DEF SoundDisk
<1>2. media' = media /\ todo' = images /\ op' = "create" /\ RmCut' = RmCut
  BY DEF Writes, RmCut
<1>3. Finished(disk) /\ (RmCut \/ FullOrInStep(disk))
  BY DEF Orderly
<1>4. Between(disk, disk') \subseteq S
  BY <1>3 DEF Between, Advances, Creating
<1>5. disk \in S
  BY <1>1, <1>3 DEF Creating, Advances
<1>6. Finished(disk') /\ (RmCut \/ FullOrInStep(disk'))
  BY <1>3 DEF Advances
<1> HIDE DEF S
<1>7. images \in Seq(S)
  BY <1>4
<1> QED
  BY <1>1, <1>2, <1>5, <1>6, <1>7 DEF Orderly, S

LEMMA RemovingBegins ==
    ASSUME Sound, Orderly, todo = <<>>, NEW images \in Seq(Removing(disk, disk')),
           disk \in Removing(disk, disk'), disk' \in Removing(disk, disk'),
           FullOrInStep(disk) => FullOrInStep(disk'), Writes("rm", images)
    PROVE  Orderly'
<1> DEFINE S == Removed(disk')
<1>1. media = disk
  BY BeforeWriting
<1>2. media' = media /\ todo' = images /\ op' = "rm" /\ RmCut' = RmCut
  BY DEF Writes, RmCut
<1>3. Finished(disk) /\ (RmCut \/ FullOrInStep(disk))
  BY DEF Orderly
<1>4. Removing(disk, disk') \subseteq S
  BY <1>3 DEF Removing, Removed
<1>5. disk \in S /\ Finished(disk')
  BY <1>3, <1>4 DEF Removing
<1> HIDE DEF S
<1>6. images \in Seq(S)
  BY <1>4
<1> QED
  BY <1>1, <1>2, <1>3, <1>5, <1>6 DEF Orderly, S

LEMMA RmOrder ==
    ASSUME Sound, Orderly, todo = <<>>, NEW n, Rm(n), NEW k \in Match(Here, n), RmWrites(k)
    PROVE  Orderly'
<1> DEFINE S == Removing(disk, disk')
           first == RmImages(disk, cwd, k)
           end == IF up' /\ job' = Idle THEN <<disk', disk'>> ELSE <<>>
<1>1. TypeOK /\ Inv /\ disk \in SoundDisk
  BY BeforeWriting
<1>2. /\ cwd \in Initialised(disk)
      /\ k \in Match(disk.data[disk.node[cwd].addr_0], n)
      /\ disk' = DeleteEntry(disk, cwd, k)
      /\ Writes("rm", first \o end)
  BY <1>1, RmWritesImages
<1>3. first \in Seq(S) /\ disk \in S /\ disk' \in S /\ (FullOrInStep(disk) => FullOrInStep(disk'))
  BY <1>1, <1>2, RmImagesSpare
<1> HIDE DEF S, first
<1>4. end \in Seq(S)
  BY <1>3, EmptySeq
<1> HIDE DEF end
<1>5. first \o end \in Seq(S)
  BY <1>3, <1>4, ConcatProperties
<1> QED
  BY <1>2, <1>3, <1>5, RemovingBegins DEF S

LEMMA CrashNextOrder == CrashInv /\ OrderInv /\ [CrashNext]_crashVars => OrderInv'
<1> SUFFICES ASSUME Sound, Orderly, [CrashNext]_crashVars PROVE OrderInv'
  BY DEF CrashInv, OrderInv, CrashNext, Writing, Quiet, Write, Cut, RmWrites, Writes, crashVars
<1>1. TypeOK /\ Inv
  BY DEF Sound
<1>2. ASSUME todo = <<>>, OpenNew, Writes("create", OpenImages(disk, job.file, cwd))
      PROVE  Orderly'
  <2>1. disk \in SoundDisk /\ cwd \in Initialised(disk) /\ job.file \in Name
    BY <1>1, <1>2, BeforeWriting, JobType DEF Inv, OpenNew, Arrived, Busy, TypeOK
  <2>2. disk' = AddEntry(CreateFile(disk).disk, CreateFile(disk).id, job.file, cwd)
    BY <1>2 DEF OpenNew
  <2>3. OpenImages(disk, job.file, cwd) \in Seq(Between(disk, disk')) /\ Advances(disk, disk')
    BY <2>1, <2>2, OpenImagesBetween
  <2> QED
    BY <1>2, <2>3, CreatingBegins
<1>3. ASSUME todo = <<>>, Mkdir, Writes("create", MkdirImages(disk, job.file, cwd))
      PROVE  Orderly'
  <2>1. disk \in SoundDisk /\ cwd \in Initialised(disk) /\ job.file \in Name
    BY <1>1, <1>3, BeforeWriting, JobType DEF Inv, Mkdir, Arrived, Busy, TypeOK
  <2>2. /\ CreateFile(disk).id # NoId
        /\ disk' = AddEntry(NewDir(CreateFile(disk).disk, CreateFile(disk).id, cwd),
                            CreateFile(disk).id, job.file, cwd)
    BY <1>3 DEF Mkdir
  <2>3. MkdirImages(disk, job.file, cwd) \in Seq(Between(disk, disk')) /\ Advances(disk, disk')
    BY <2>1, <2>2, MkdirImagesBetween
  <2> QED
    BY <1>3, <2>3, CreatingBegins
<1>4. ASSUME todo = <<>>, MkdirFailed, Writes("create", MkdirFailedImages(disk))
      PROVE  Orderly'
  <2>1. disk \in SoundDisk
    BY <1>4, BeforeWriting
  <2>2. CreateFile(disk).id = NoId /\ disk' = NewDirFailed(CreateFile(disk).disk)
    BY <1>4 DEF MkdirFailed
  <2>3. MkdirFailedImages(disk) \in Seq(Between(disk, disk')) /\ Advances(disk, disk')
    BY <2>1, <2>2, MkdirFailedImagesBetween
  <2> QED
    BY <1>4, <2>3, CreatingBegins
<1>5. ASSUME todo = <<>>, Mkfs, Writes("mkfs", MkfsImages(disk)) PROVE Orderly'
  BY <1>5, FormattedDiskFinished, FormattedDiskInStep
  DEF Mkfs, Writes, Orderly, FullOrInStep
<1>6. CASE Quiet
  BY <1>6 DEF Quiet, Orderly, RmCut, OrderInv
<1>7. CASE Write
  <2>1. /\ todo # <<>> /\ media' = Head(todo) /\ todo' = Tail(todo)
        /\ op' = op /\ disk' = disk /\ RmCut' = RmCut
    BY <1>7 DEF Write, vars, RmCut
  <2>2. ASSUME NEW S, todo \in Seq(S) PROVE media' \in S /\ todo' \in Seq(S)
    BY <2>1, <2>2, WriteImages
  <2>3. op = "create" => /\ media' \in Creating(disk, RmCut)
                         /\ todo' \in Seq(Creating(disk, RmCut))
    BY <2>1, <2>2 DEF Orderly
  <2>4. op = "rm" => media' \in Removed(disk) /\ todo' \in Seq(Removed(disk))
    BY <2>1, <2>2 DEF Orderly
  <2> QED
    BY <2>1, <2>3, <2>4 DEF Orderly, OrderInv
<1>8. CASE Cut
  <2>1. /\ todo # <<>> /\ disk' = media /\ todo' = <<>> /\ cuts' = cuts \cup {op}
        /\ op \in {"create", "rm", "mkfs"}
    BY <1>8 DEF Cut, Sound, Op
  <2>2. CASE op = "create"
    BY <2>1, <2>2 DEF Orderly, OrderInv, RmCut, Creating
  <2>3. CASE op = "rm"
    BY <2>1, <2>3 DEF Orderly, OrderInv, RmCut, Removed
  <2>4. CASE op = "mkfs"
    BY <2>1, <2>4 DEF OrderInv
  <2> QED
    BY <2>1, <2>2, <2>3, <2>4
<1>9. CASE UNCHANGED crashVars
  BY <1>9 DEF crashVars, vars, Orderly, RmCut, OrderInv
<1> QED
  BY <1>2, <1>3, <1>4, <1>5, <1>6, <1>7, <1>8, <1>9, RmOrder DEF CrashNext, Writing, OrderInv

LEMMA OrderCorrect == CrashSpec => [](CrashInv /\ OrderInv)
BY CrashInitInv, CrashNextInv, CrashInitOrder, CrashNextOrder, PTL DEF CrashSpec

-----------------------------------------------------------------------------
(* What a cut leaves *)

\* A directory of the host file, and what it shows.
LEMMA MediaContent ==
    ASSUME Sound, NEW i \in MediaDirs
    PROVE  /\ i \in Initialised(media) /\ i \in Ids
           /\ media.node[i].addr_0 \in Blocks
           /\ ContentOf(media, i) = media.data[media.node[i].addr_0]
           /\ ContentOf(media, i) \in Content
           /\ ContentOf(disk, i) \in Content
<1>1. media \in Disk /\ disk \in Disk /\ i \in Initialised(media)
  BY DEF Sound, TypeOK, MediaDirs
<1> QED
  BY <1>1, InitialisedFields, ContentOfType DEF ContentOf, Blocks

LEMMA MediaOrdered ==
    ASSUME Sound, Orderly
    PROVE  /\ Formatting \/ Finished(media)
           /\ op = "create" => Leads(media, disk)
           /\ op = "rm" => Spares(disk, media)
           /\ (op # "create" /\ todo # <<>>) \/ RmCut \/ FullOrInStep(media)
<1>1. CASE todo = <<>>
  <2>1. media = disk
    BY <1>1 DEF Sound
  <2>2. Spares(disk, disk)
    BY DEF Spares
  <2> QED
    BY <1>1, <2>1, <2>2, LeadsItself DEF Orderly
<1>2. CASE todo # <<>>
  BY <1>2 DEF Orderly, Creating, Removed, Formatting, Sound, Op
<1> QED
  BY <1>1, <1>2

\* A kill in the middle of open or mkdir enters no name that the command would
\* not have entered; in the middle of rm it leaves every name that would stay.
THEOREM SparesNamesCorrect == CrashSpec => []CutSparesNames
<1>1. CrashInv /\ OrderInv => CutSparesNames
  <2> SUFFICES ASSUME Sound, Orderly, NEW i \in MediaDirs
               PROVE  LET whole == DOMAIN TableOf(ContentOf(disk, i))
                      IN  /\ op = "rm" => whole \subseteq DOMAIN MediaTable(i)
                          /\ op = "create" => DOMAIN MediaTable(i) \subseteq whole
    BY DEF CrashInv, OrderInv, CutSparesNames
  <2> DEFINE c == ContentOf(media, i)
             e == ContentOf(disk, i)
  <2>1. i \in Initialised(media) /\ c \in Content /\ e \in Content
    BY MediaContent
  <2>2. op = "rm" => DOMAIN TableOf(e) \subseteq DOMAIN TableOf(c)
    BY <2>1, MediaOrdered DEF Spares
  <2>3. op = "create" => DOMAIN TableOf(c) \subseteq DOMAIN TableOf(e)
    <3>1. op = "create" => Shows(c, e)
      BY <2>1, MediaOrdered DEF Leads
    <3> HIDE DEF c, e
    <3> QED
      BY <2>1, <3>1, ShowsNames
  <2> QED
    BY <2>2, <2>3 DEF MediaTable
<1> QED
  BY <1>1, OrderCorrect, PTL

\* Whatever write of a mkdir is the last one, a directory that a name leads to
\* has its "." and "..".
THEOREM FinishedCorrect == CrashSpec => []NamedIsFinished
<1>1. CrashInv /\ OrderInv => NamedIsFinished
  <2> SUFFICES ASSUME Sound, Orderly, ~Formatting, NEW i \in MediaDirs,
                      NEW n \in DOMAIN MediaTable(i) \ {".", ".."},
                      MediaTable(i)[n] \in MediaDirs
               PROVE  LET c == ContentOf(media, MediaTable(i)[n])
                      IN  /\ Len(c.slots) >= 2
                          /\ c.slots[1].name = "."
                          /\ c.slots[2].name = ".."
    BY DEF CrashInv, OrderInv, NamedIsFinished
  <2> DEFINE f == MediaTable(i)[n]
             b == media.node[i].addr_0
             c == media.data[b]
  <2>1. b \in Blocks /\ c \in Content /\ MediaTable(i) = TableOf(c)
    BY MediaContent DEF MediaTable
  <2>2. f \in Inodes /\ IsDir(media, f) /\ ContentOf(media, f).slots = SlotsOf(media, f)
    <3>1. f \in MediaDirs
      OBVIOUS
    <3> HIDE DEF f
    <3> QED
      BY <3>1, MediaContent DEF MediaDirs, IsDir, SlotsOf, Initialised
  <2>3. f \in Entered(media)
    <3>1. PICK k \in Live(c) : n = c.slots[k].name /\ f = c.slots[k].id
      <4> HIDE DEF c
      <4> QED
        BY <2>1, TableEntry
    <3> QED
      BY <2>1, <2>2, <3>1 DEF Entered, Own
  <2>4. Finished(media)
    BY MediaOrdered
  <2> HIDE DEF f
  <2>5. Done(SlotsOf(media, f))
    BY <2>2, <2>3, <2>4 DEF Finished
  <2>6. Done(ContentOf(media, f).slots)
    BY <2>2, <2>5
  <2> QED
    BY <2>6 DEF Done, f
<1> QED
  BY <1>1, OrderCorrect, PTL

\* Entries are written before they are counted: a creation that is cut leaves no
\* counter above the entries that are there.
THEOREM StayInRangeCorrect == CrashSpec => []CreationsStayInRange
<1>1. CrashInv /\ OrderInv => CreationsStayInRange
  <2> SUFFICES ASSUME Sound, Orderly, ~RmCut, ~(op \in {"rm", "mkfs"} /\ todo # <<>>),
                      ~Full(media), NEW i \in MediaDirs
               PROVE  ContentOf(media, i).cnt <= Cardinality(Live(ContentOf(media, i)))
    BY DEF CrashInv, OrderInv, CreationsStayInRange, RmCut
  <2>1. op \in {"create", "rm", "mkfs"}
    BY DEF Sound, Op
  <2>2. FullOrInStep(media)
    BY <2>1, MediaOrdered
  <2> QED
    BY <2>2, MediaContent DEF FullOrInStep, InStep
<1> QED
  BY <1>1, OrderCorrect, PTL
=============================================================================
