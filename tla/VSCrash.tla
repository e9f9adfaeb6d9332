------------------------------- MODULE VSCrash -------------------------------
(***************************************************************************)
(* The process of VSFileSystem killed between two writes.  createFile,     *)
(* newDir, addEntryToDir, rmDirEntry and resetDisk (src/src/fs/vsfs.cpp)   *)
(* write a few bytes, move the stream and write the next few; every move   *)
(* and every flush hands the bytes to the host, so that they reach vdisk   *)
(* in the order of the code.                                               *)
(*                                                                         *)
(* `disk` of VSFileSystem is the disk as the command leaves it, `media` is *)
(* the host file.  A command that writes puts the images of the disk after *)
(* each of its writes into `todo`, and they reach `media` one at a time.   *)
(* The memory of the process is set with the first of them: nothing reads  *)
(* it before the last, and a kill loses it.                                *)
(***************************************************************************)
EXTENDS VSProperties, SequencesExt

CONSTANT CutOps      \* the commands a kill may cut

Op == {"create", "rm", "mkfs"}

ASSUME CrashAssumption == CutOps \subseteq Op

VARIABLES media,     \* the host file vdisk
          todo,      \* what it will hold after each of the writes to come
          op,        \* the last command that wrote
          cuts       \* history: the commands that were cut

crashVars == <<vars, media, todo, op, cuts>>

-----------------------------------------------------------------------------
(* The images of the disk after each write of an operation on disk d.  The *)
(* last one is what VSDisk gives for the whole operation.                  *)

\* Fault: the inode is written before its bit is set.
CreateImages_InodeFirst(d) ==
    LET i == AllocBit(d.imap)
        b == AllocBit(d.dmap)
    IN  IF i = NoId THEN <<>>
        ELSE IF b = NoId THEN <<TakeInode(d, i)>>
        ELSE <<TakeBlock(d, b), WriteFile(TakeBlock(d, b), i, b), CreateFile(d).disk>>

\* createFile: the inode's bit, the block's bit, the inode.
CreateImages(d) ==
    LET i == AllocBit(d.imap)
        b == AllocBit(d.dmap)
    IN  IF i = NoId THEN <<>>
        ELSE IF b = NoId THEN <<TakeInode(d, i)>>
        ELSE <<TakeInode(d, i), TakeBlock(TakeInode(d, i), b), CreateFile(d).disk>>

\* Fault of addEntryToDir: the counter goes up first.
EntryImages_CountFirst(d, f, n, dir) ==
    LET b == d.node[dir].addr_0
    IN  <<WriteContent(d, b, [d.data[b] EXCEPT !.cnt = @ + 1]), AddEntry(d, f, n, dir)>>

\* addEntryToDir: the entry's bytes lie behind the directory's size until the
\* inode is written with the new one; then the counter goes up.
EntryImages(d, f, n, dir) ==
    LET b == d.node[dir].addr_0
    IN  <<WriteContent(d, b, [d.data[b] EXCEPT !.slots = AddEntry(d, f, n, dir).data[b].slots]),
          AddEntry(d, f, n, dir)>>

\* newDir behind createFile: the type, the counter, "." and "..".
DirImages(d, i, parent) ==
    LET made == MakeDirectory(d, i, 0)
    IN  <<[d EXCEPT !.node[i].type = Directory], made>>
            \o EntryImages(made, i, ".", i)
            \o EntryImages(AddEntry(made, i, ".", i), parent, "..", i)

OpenImages(d, n, dir) ==
    LET c == CreateFile(d)
    IN  CreateImages(d) \o EntryImages(c.disk, c.id, n, dir)

\* Fault: the name is entered before there is a directory.
MkdirImages_NameFirst(d, n, dir) ==
    LET c     == CreateFile(d)
        named == AddEntry(c.disk, c.id, n, dir)
    IN  CreateImages(d) \o EntryImages(c.disk, c.id, n, dir) \o DirImages(named, c.id, dir)

MkdirImages(d, n, dir) ==
    LET c    == CreateFile(d)
        made == NewDir(c.disk, c.id, dir)
    IN  CreateImages(d) \o DirImages(c.disk, c.id, dir) \o EntryImages(made, c.id, n, dir)

\* mkdir on a full disk: what createFile took, the inode in front of the inode
\* region, and a block if there is one.
MkdirFailedImages(d) ==
    LET c == CreateFile(d).disk
    IN  CreateImages(d)
            \o <<WriteInode(c, NoId, [type |-> Directory, addr_0 |-> NoBlock]), NewDirFailed(c)>>

\* Fault: the counter goes down before the entry is deleted.
RmImages_CountFirst(d, dir, k) ==
    LET b == d.node[dir].addr_0
    IN  <<WriteContent(d, b, [d.data[b] EXCEPT !.cnt = @ - 1]), DeleteEntry(d, dir, k)>>

\* rmDirEntry up to its load: the entry's id, then the counter.
RmImages(d, dir, k) ==
    LET b == d.node[dir].addr_0
    IN  <<WriteContent(d, b, [d.data[b] EXCEPT !.slots = DeleteEntry(d, dir, k).data[b].slots]),
          DeleteEntry(d, dir, k)>>

\* mkfs: resetDisk from the front of the disk to its end, then the root.
MkfsImages(d) ==
    LET imap == [d EXCEPT !.imap = ZeroDisk.imap]
        dmap == [imap EXCEPT !.dmap = ZeroDisk.dmap, !.node[NoId] = ZeroDisk.node[NoId]]
        node == [dmap EXCEPT !.node = ZeroDisk.node]
        c    == CreateFile(ZeroDisk)
    IN  <<imap, dmap, node, ZeroDisk>> \o CreateImages(ZeroDisk) \o DirImages(c.disk, c.id, Root)

-----------------------------------------------------------------------------

CrashInit == Init /\ media = disk /\ todo = <<>> /\ op = "mkfs" /\ cuts = {}

\* The command's writes begin.
Writes(o, images) == /\ op' = o
                     /\ todo' = images
                     /\ UNCHANGED <<media, cuts>>

\* freeFile: the block's bit, the inode's bit; behind the load of the table.
RmWrites(k) ==
    Writes("rm", RmImages(disk, cwd, k)
                     \o IF up' /\ job' = Idle
                        THEN <<[disk' EXCEPT !.imap = disk.imap], disk'>> ELSE <<>>)

Writing == /\ todo = <<>>
           /\ \/ OpenNew /\ Writes("create", OpenImages(disk, job.file, cwd))
              \/ Mkdir /\ Writes("create", MkdirImages(disk, job.file, cwd))
              \/ MkdirFailed /\ Writes("create", MkdirFailedImages(disk))
              \/ \E n \in RmTarget : Rm(n) /\ \E k \in Match(Here, n) : RmWrites(k)
              \/ Mkfs /\ Writes("mkfs", MkfsImages(disk))

\* What a command does without writing, the loads of Start and of cd among it.
Quiet == /\ todo = <<>>
         /\ Next
         /\ UNCHANGED <<disk, media, todo, op, cuts>>

\* The next write reaches the host.
Write == /\ todo # <<>>
         /\ media' = Head(todo)
         /\ todo' = Tail(todo)
         /\ UNCHANGED <<vars, op, cuts>>

\* The process is killed with writes to come, and there is only the host file.
Cut == /\ todo # <<>>
       /\ op \in CutOps
       /\ up' = FALSE
       /\ disk' = media
       /\ todo' = <<>>
       /\ cuts' = cuts \cup {op}
       /\ UNCHANGED <<good, cwd, cwd_table, fd_cnt, fd_map, job, media, op>>

CrashNext == Writing \/ Quiet \/ Write \/ Cut

CrashSpec == CrashInit /\ [][CrashNext]_crashVars

-----------------------------------------------------------------------------
(* Properties *)

\* Every variable keeps its type.
CrashTypeOK == /\ TypeOK
               /\ media \in Disk
               /\ todo \in Seq(Disk)
               /\ op \in Op
               /\ cuts \subseteq CutOps

\* The writes to come end with the disk of the process, and when there are none
\* the host file is that disk.  (Used in the proofs.)
WrittenBack == disk = IF todo = <<>> THEN media ELSE Last(todo)

Formatting == op = "mkfs" /\ todo # <<>>

\* A kill between any two writes leaves a host file on which allocation, blocks
\* and entries agree: what is named has been written, and what has been written
\* is allocated.  mkfs, which wipes the maps first, is the exception.
MediaInv == "mkfs" \in cuts \/ Formatting \/ DiskInv(media)

\* The directories of the host file.
MediaDirs == {i \in Initialised(media) : media.node[i].type = Directory}
MediaTable(i) == TableOf(ContentOf(media, i))

\* A name does not lead to a directory that is not finished: whatever write a
\* mkdir is cut at, a directory that can be entered has its "." and "..".
NamedIsFinished ==
    "mkfs" \in cuts \/ Formatting \/
    \A i \in MediaDirs : \A n \in DOMAIN MediaTable(i) \ {".", ".."} :
        MediaTable(i)[n] \in MediaDirs =>
            LET c == ContentOf(media, MediaTable(i)[n])
            IN  /\ Len(c.slots) >= 2
                /\ c.slots[1].name = "."
                /\ c.slots[2].name = ".."

\* An rm that is cut takes away no name that the finished one would have left,
\* and a creation that is cut gives none that the finished one would not have
\* given.
CutSparesNames ==
    "mkfs" \in cuts \/
    \A i \in MediaDirs :
        LET whole == DOMAIN TableOf(ContentOf(disk, i))
        IN  /\ op = "rm" => whole \subseteq DOMAIN MediaTable(i)
            /\ op = "create" => DOMAIN MediaTable(i) \subseteq whole

\* No counter is above the entries that are there, so that the loader stays
\* inside each directory at the next start, whichever write a creation is cut
\* at; a cut rm and a full disk are what makes it read past the end.
CreationsStayInRange ==
    \/ {"rm", "mkfs"} \cap cuts # {} \/ (op \in {"rm", "mkfs"} /\ todo # <<>>) \/ Full(media)
    \/ \A i \in MediaDirs : ContentOf(media, i).cnt <= Cardinality(Live(ContentOf(media, i)))
=============================================================================
