------------------------------- MODULE VSDisk -------------------------------
(***************************************************************************)
(* The virtual disk of VSFileSystem and the helpers that read and write it *)
(* (src/src/fs/vsfs.cpp): the two allocation maps, the inodes and, in the  *)
(* first data block of each inode, a directory's entry counter and its     *)
(* entries.  Everything here is a function of the disk alone, the part of  *)
(* the system that survives a restart of the program.                      *)
(*                                                                         *)
(* Abstractions.  A directory entry is [id, name]: its length in bytes is  *)
(* not kept, so a directory is a sequence of entries that fits its first   *)
(* data block.  What regular files hold is the subject of module FileData. *)
(***************************************************************************)
EXTENDS Integers, Sequences, FiniteSets, FiniteSetsExt

CONSTANTS INum,      \* inum, the number of inodes
          DNum,      \* dnum, the number of data blocks
          FileName   \* the names the user types, besides "." and ".."

ASSUME DiskAssumption == /\ INum \in Nat \ {0}
                         /\ DNum \in Nat \ {0}
                         /\ FileName \cap {".", ".."} = {}

Inodes == 0 .. INum - 1
Blocks == 0 .. DNum - 1
NoId    == -1      \* the failure value of allocBit, and the id of a deleted entry
NoBlock == -1      \* addr_0 of an inode that is still all zeros: disk address 0
Ids    == Inodes \cup {NoId}
Elsewhere == INum   \* any other int, which is no inode's id
AnyId  == Inodes \cup {Elsewhere}
Name   == FileName \cup {".", ".."}
Root   == 0

RegularFile == 0   \* Inode::type
Directory   == 1

Entry   == [id : Ids, name : Name]
Content == [cnt : Nat, slots : Seq(Entry)]
InodeT  == [type : {RegularFile, Directory}, addr_0 : Blocks \cup {NoBlock}]

(* node[NoId] is the 256 bytes in front of the inode region, which         *)
(* readInode(-1) and writeInode(-1) take for an inode.                     *)
Disk == [imap : [Inodes -> {0, 1}],
         dmap : [Blocks -> {0, 1}],
         node : [Ids -> InodeT],
         data : [Blocks -> Content]]

Zeros == [cnt |-> 0, slots |-> <<>>]

\* A disk of zeros: what resetDisk leaves, and what a new vdisk file holds.
ZeroDisk == [imap |-> [i \in Inodes |-> 0],
             dmap |-> [b \in Blocks |-> 0],
             node |-> [i \in Ids |-> [type |-> RegularFile, addr_0 |-> NoBlock]],
             data |-> [b \in Blocks |-> Zeros]]

-----------------------------------------------------------------------------
(* Allocation maps *)

\* allocBit takes the first byte that is 0, and returns -1 when there is none.
Free(map) == {k \in DOMAIN map : map[k] = 0}
AllocBit(map) == IF Free(map) = {} THEN NoId ELSE Min(Free(map))

\* Faults: freeBit clears the byte, and what is freed is handed out again; it
\* clears the byte in front of it.
FreeBit_Clears(map, k)         == [map EXCEPT ![k] = 0]
FreeBit_ClearsPrevious(map, k) == IF k = 0 THEN map ELSE [map EXCEPT ![k - 1] = 0]

\* freeBit writes 1, the value allocBit writes.
FreeBit(map, k) == [map EXCEPT ![k] = 1]

Full(d) == AllocBit(d.imap) = NoId \/ AllocBit(d.dmap) = NoId

TakeInode(d, i) == [d EXCEPT !.imap[i] = 1]
TakeBlock(d, b) == [d EXCEPT !.dmap[b] = 1]

WriteInode(d, i, node) == [d EXCEPT !.node[i] = node]
WriteContent(d, b, c)  == [d EXCEPT !.data[b] = c]

\* What createFile writes: an inode of size 0, which is no entries.  The block
\* keeps its bytes, so what it holds where a counter would be is left alone.
WriteFile(d, i, b) ==
    WriteContent(WriteInode(d, i, [type |-> RegularFile, addr_0 |-> b]),
                 b, [cnt |-> d.data[b].cnt, slots |-> <<>>])

Created(i, d) == [id |-> i, disk |-> d]

\* Faults of createFile: one of the two bits is not set, or the check of the
\* block is missing.
CreateFile_KeepsInodeFree(d) ==
    LET i == AllocBit(d.imap)
        b == AllocBit(d.dmap)
    IN  IF i = NoId \/ b = NoId THEN Created(NoId, d)
        ELSE Created(i, WriteFile(TakeBlock(d, b), i, b))
CreateFile_KeepsBlockFree(d) ==
    LET i == AllocBit(d.imap)
        b == AllocBit(d.dmap)
    IN  IF i = NoId \/ b = NoId THEN Created(NoId, d)
        ELSE Created(i, WriteFile(TakeInode(d, i), i, b))
CreateFile_IgnoresNoBlock(d) ==
    LET i == AllocBit(d.imap)
        b == AllocBit(d.dmap)
    IN  IF i = NoId THEN Created(NoId, d)
        ELSE IF b = NoId THEN Created(i, TakeInode(d, i))
        ELSE Created(i, WriteFile(TakeBlock(TakeInode(d, i), b), i, b))

\* createFile: an inode, then a data block, then the inode is written.  When
\* there is no block left the inode's bit stays set.
CreateFile(d) ==
    LET i == AllocBit(d.imap)
        b == AllocBit(d.dmap)
    IN  IF i = NoId THEN Created(NoId, d)
        ELSE IF b = NoId THEN Created(NoId, TakeInode(d, i))
        ELSE Created(i, WriteFile(TakeBlock(TakeInode(d, i), b), i, b))

\* freeFile while no file uses addr_1.  For a deleted entry's id, -1, the two
\* writes fall outside both maps.
FreeFile(d, i) ==
    IF i = NoId THEN d
    ELSE [d EXCEPT !.imap = FreeBit(@, i),
                   !.dmap = IF d.node[i].addr_0 = NoBlock THEN @
                            ELSE FreeBit(@, d.node[i].addr_0)]

-----------------------------------------------------------------------------
(* Directories *)

ContentOf(d, i) == IF d.node[i].addr_0 = NoBlock THEN Zeros ELSE d.data[d.node[i].addr_0]

\* The positions of the entries of c that are not deleted.
Live(c) == {k \in DOMAIN c.slots : c.slots[k].id # NoId}

\* The entries the loader reaches: it counts cnt live entries and stops.
Visible(c) == {k \in Live(c) : Cardinality({j \in Live(c) : j <= k}) <= c.cnt}

\* map::insert keeps the first of several entries with one name.
Named(c, n) == {k \in Visible(c) : c.slots[k].name = n}
TableOf(c) == [n \in {c.slots[k].name : k \in Visible(c)} |-> c.slots[Min(Named(c, n))].id]

EmptyTable == [n \in {} |-> Root]

\* Fault: the grown size is not written back, and entries overwrite each other.
AddEntry_SizeNotWritten(d, f, n, dir) ==
    LET b == d.node[dir].addr_0
    IN  WriteContent(d, b, [cnt |-> d.data[b].cnt + 1, slots |-> <<[id |-> f, name |-> n]>>])

\* addEntryToDir: the entry goes behind the last one, the counter goes up.
AddEntry(d, f, n, dir) ==
    LET b == d.node[dir].addr_0
    IN  WriteContent(d, b, [cnt |-> d.data[b].cnt + 1,
                            slots |-> Append(d.data[b].slots, [id |-> f, name |-> n])])

\* The first two writes of newDir: the type, and the counter.
MakeDirectory(d, i, count) ==
    LET b == d.node[i].addr_0
    IN  WriteContent(WriteInode(d, i, [type |-> Directory, addr_0 |-> b]),
                     b, [cnt |-> count, slots |-> d.data[b].slots])

\* Faults of newDir: ".." is the root, and "." and ".." are counted twice.
NewDir_UnderRoot(d, i, parent) ==
    AddEntry(AddEntry(MakeDirectory(d, i, 0), i, ".", i), Root, "..", i)
NewDir_CountsTwice(d, i, parent) ==
    AddEntry(AddEntry(MakeDirectory(d, i, 2), i, ".", i), parent, "..", i)

\* newDir: a file that becomes a directory, with "." and ".." as its entries.
NewDir(d, i, parent) ==
    AddEntry(AddEntry(MakeDirectory(d, i, 0), i, ".", i), parent, "..", i)

\* newDir when createFile returned -1: it writes an inode in front of the inode
\* region, takes a data block if there is one, and computes address -4, where
\* the stream fails.
NewDirFailed(d) ==
    LET b == AllocBit(d.dmap)
        ghost == WriteInode(d, NoId, [type |-> Directory, addr_0 |-> NoBlock])
    IN  IF b = NoId THEN ghost ELSE TakeBlock(ghost, b)

\* mkfs up to the load of the root's table: zero the disk, make inode 0 a directory.
FormattedDisk ==
    LET c == CreateFile(ZeroDisk)
    IN  NewDir(c.disk, c.id, Root)

\* The positions rmDirEntry compares: it runs over the first cnt entries and
\* does not skip deleted ones.
Scanned(c) == {k \in DOMAIN c.slots : k <= c.cnt}
Match(c, n) == {k \in Scanned(c) : /\ c.slots[k].name = n
                                   /\ \A j \in Scanned(c) : c.slots[j].name = n => k <= j}

\* Faults of rmDirEntry: it counts down the root's counter, its own twice, or none.
DeleteEntry_CountsInRoot(d, dir, k) ==
    [d EXCEPT !.data[d.node[dir].addr_0].slots[k].id = NoId,
              !.data[d.node[Root].addr_0].cnt = @ - 1]
DeleteEntry_CountsTwice(d, dir, k) ==
    [d EXCEPT !.data[d.node[dir].addr_0].slots[k].id = NoId,
              !.data[d.node[dir].addr_0].cnt = @ - 2]
DeleteEntry_NoCount(d, dir, k) ==
    [d EXCEPT !.data[d.node[dir].addr_0].slots[k].id = NoId]

\* The disk after rmDirEntry has deleted entry k of dir and counted it out.
DeleteEntry(d, dir, k) ==
    LET b == d.node[dir].addr_0
        c == d.data[b]
    IN  WriteContent(d, b, [cnt |-> c.cnt - 1,
                            slots |-> [c.slots EXCEPT ![k] = [id |-> NoId, name |-> @.name]]])

-----------------------------------------------------------------------------
(* Loading a directory into memory *)

\* Outcomes of a load: the process ends in it, or goes on with table t, or it is
\* lost: the load does not come back, or comes back with what cannot be followed.
Crashed   == [up |-> FALSE, lost |-> FALSE, table |-> EmptyTable]
Loaded(t) == [up |-> TRUE, lost |-> FALSE, table |-> t]
Lost      == [up |-> TRUE, lost |-> TRUE, table |-> EmptyTable]

\* The inodes createFile has written.
Initialised(d) == {i \in Inodes : d.node[i].addr_0 # NoBlock}

\* The loader stays within the directory: it finds cnt live entries.
InRange(d, i) == /\ d.node[i].type = Directory
                 /\ ContentOf(d, i).cnt \in 1 .. Cardinality(Live(ContentOf(d, i)))

\* Table t after at most `surplus` more inserts, of any names and ids.
Beyond(t, surplus) ==
    LET NewNames == {S \in SUBSET (Name \ DOMAIN t) : Cardinality(S) <= surplus}
    IN  {[m \in DOMAIN t \cup DOMAIN g |-> IF m \in DOMAIN t THEN t[m] ELSE g[m]] :
            g \in UNION {[S -> AnyId] : S \in NewNames}}

\* The outcomes of loadCwdTable on inode i.  What is no directory, or is read
\* from a failed stream, has a counter that is no directory's: a regular file's
\* first bytes, the superblock's where nothing was written, what the stack held.
\* A counter of 0 leaves `en` uninitialised, and `delete[] en->name` may fault.
\* With a counter above the number of live entries the loader reads past the
\* end of the directory, where readData leaves the uninitialised buffers as
\* they are, once for each entry that is missing: it may fault, look for an
\* entry that is not deleted without end, or insert what it finds.
Loads(d, good, i) ==
    LET c == ContentOf(d, i)
        t == TableOf(c)
    IN  IF ~good \/ i \notin Initialised(d) \/ d.node[i].type = RegularFile THEN {Crashed, Lost}
        ELSE IF c.cnt = 0 THEN {Crashed, Loaded(t)}
        ELSE IF InRange(d, i) THEN {Loaded(t)}
        ELSE {Crashed, Lost}
                \cup {Loaded(u) : u \in Beyond(t, c.cnt - Cardinality(Live(c)))}
=============================================================================
