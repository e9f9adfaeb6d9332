---------------------------- MODULE VSProperties ----------------------------
(***************************************************************************)
(* What the commands of VSFileSystem keep true, and what its comments and  *)
(* its README say of them.                                                 *)
(***************************************************************************)
EXTENDS VSFileSystem

IsTable(t) == DOMAIN t \subseteq Name /\ t \in [DOMAIN t -> AnyId]

\* Every variable keeps its type.
TypeOK == /\ disk \in Disk
          /\ up \in BOOLEAN
          /\ good \in BOOLEAN
          /\ cwd \in Inodes
          /\ IsTable(cwd_table)
          /\ fd_cnt \in Nat \cup {-1}
          /\ DOMAIN fd_map \subseteq 0 .. fd_cnt
          /\ fd_map \in [DOMAIN fd_map -> AnyId \cup {NoId}]
          /\ job \in Job \cup {Idle, Adrift}

DirOf(i) == ContentOf(disk, i)
Directories == {i \in Initialised(disk) : IsDirectory(i)}

\* The entries a directory was not created with: all but its "." and "..".
Children(i) == {k \in Live(DirOf(i)) : k > 2}
ChildId(i, k) == DirOf(i).slots[k].id

-----------------------------------------------------------------------------
(* Invariants *)

\* Whatever is removed, in whatever order, an entry that is not deleted names
\* an inode that is allocated and written, with a data block that is allocated.
EntriesInitialised ==
    \A i \in Initialised(disk) : \A k \in Live(DirOf(i)) :
        /\ disk.imap[ChildId(i, k)] = 1
        /\ disk.node[ChildId(i, k)].addr_0 # NoBlock
        /\ disk.dmap[disk.node[ChildId(i, k)].addr_0] = 1

\* Two inodes never have the same data block, those of removed files included:
\* a descriptor left open on a removed file does not reach another file.
NoSharedBlock ==
    \A i, j \in Initialised(disk) :
        disk.node[i].addr_0 = disk.node[j].addr_0 => i = j

\* A directory's entries name inodes with larger ids than its own, so that the
\* recursion of tree() ends: no chain of directories comes back to its start.
ChildrenYounger == \A i \in Directories : \A k \in Children(i) : ChildId(i, k) > i

\* `cd d` followed by `cd ..` comes back: a subdirectory's ".." is the
\* directory that holds its entry, or has been removed.
DotDotReturns ==
    \A i \in Directories : \A k \in Children(i) :
        IsDirectory(ChildId(i, k)) =>
            DirOf(ChildId(i, k)).slots[2].id \in {i, NoId}

\* Apart from "." and ".." an inode has one entry: there are no hard links that
\* would let a file be removed twice.
OneParent ==
    \A i, j \in Directories : \A k \in Children(i), l \in Children(j) :
        ChildId(i, k) = ChildId(j, l) => i = j /\ k = l

\* rmDirEntry runs over cnt entries without looking for the directory's end:
\* there are that many, deleted ones included.
ScanInRange == \A i \in Directories : DirOf(i).cnt <= Len(DirOf(i).slots)

\* cwd_table is what the disk holds for the current directory, at every point
\* of every command, wherever a path, a failure or an early return has left it:
\* nothing that moves cwd or changes its directory forgets to reload the table.
TableFresh ==
    up /\ job # Adrift /\ good /\ InRange(disk, cwd) => cwd_table = TableOf(DirOf(cwd))

\* While there is a free inode and a free block, no directory's counter exceeds
\* the entries it has, and the stream has not failed: the loader does not read
\* past a directory's end, unless an allocation failed before.
OnlyFullBreaks ==
    Full(disk) \/ /\ good
                  /\ \A i \in Directories : DirOf(i).cnt <= Cardinality(Live(DirOf(i)))

\* The inductive invariant behind EntriesInitialised, NoSharedBlock and
\* ChildrenYounger.  It is about all blocks and all inodes, those of removed
\* directories included: their descriptors and their ".." may still be in use.

\* What is written is allocated.
WrittenAllocated(d) ==
    \A i \in Initialised(d) : d.imap[i] = 1 /\ d.dmap[d.node[i].addr_0] = 1

BlocksDistinct(d) ==
    \A i, j \in Initialised(d) : d.node[i].addr_0 = d.node[j].addr_0 => i = j

\* No inode is free in front of one that is taken.
TakenInOrder(d) ==
    \A i, j \in Inodes : i < j /\ d.imap[j] = 1 => d.imap[i] = 1

EntriesWritten(d) ==
    \A b \in Blocks : \A k \in Live(d.data[b]) : d.data[b].slots[k].id \in Initialised(d)

EntriesYounger(d) ==
    \A i \in Initialised(d) : \A k \in Live(d.data[d.node[i].addr_0]) :
        k > 2 => d.data[d.node[i].addr_0].slots[k].id > i

DiskInv(d) == /\ WrittenAllocated(d)
              /\ BlocksDistinct(d)
              /\ TakenInOrder(d)
              /\ EntriesWritten(d)
              /\ EntriesYounger(d)

\* While the process runs, its current directory has been loaded from the disk.
Inv == DiskInv(disk) /\ (up /\ job # Adrift => cwd \in Initialised(disk))

-----------------------------------------------------------------------------
(* Action properties *)

TableAt(i) == TableOf(DirOf(i))
Removal == \E n \in Name : Rm(n)

\* Only mkfs and rm take names away: opening, creating, walking, closing,
\* stopping and starting leave every name of every directory with its inode.
NamesKept ==
    [][~Mkfs /\ ~Removal =>
          \A i \in Directories :
              LET before == TableAt(i)
                  after  == TableAt(i)'
              IN  \A n \in DOMAIN before : n \in DOMAIN after /\ after[n] = before[n]]_vars

\* When the entry rm finds is not a deleted one, the other names of the
\* directory stay, though the counter and the entries are no longer in step.
RmSparesOthers ==
    [][\A n \in Name :
          (Rm(n) /\ \A k \in Match(Here, n) : NamedBy(k) # NoId) =>
              \A m \in DOMAIN TableAt(cwd) \ {n} :
                  m \in DOMAIN TableAt(cwd)' /\ TableAt(cwd)'[m] = TableAt(cwd)[m]]_vars

\* rm changes one directory: the entries of all the others are as they were.
RmIsLocal ==
    [][Removal => \A i \in Inodes \ {cwd} : DirOf(i)' = DirOf(i)]_vars

\* An inode that is handed out is named by no entry and is not the current
\* directory: it cannot be reached under an old name.  (mkfs hands out the root.)
FreshInodeUnnamed ==
    [][~Mkfs => \A f \in Inodes : disk.imap[f] = 0 /\ disk'.imap[f] = 1 =>
          /\ f # cwd
          /\ \A i \in Initialised(disk) : \A k \in Live(DirOf(i)) : ChildId(i, k) # f]_vars

-----------------------------------------------------------------------------
(* Liveness *)

\* The program keeps running the command it has begun; the user and the end of
\* the process are not fair.
FairSpec == Spec /\ WF_vars(Continue)

\* A command that has begun ends, or the process does.  A load that does not
\* come back is one of a file that was entered as a directory, or the disk is
\* full: while there is room, no directory makes the loader run past its end.
CommandEnds ==
    (job # Idle) ~> \/ job = Idle \/ ~up
                    \/ job = Adrift /\ (Full(disk) \/ ~IsDirectory(cwd))

-----------------------------------------------------------------------------
(* What comments and the README say, and the code does not do *)

\* rmdir: "This directory has to be empty when it is removed."
RemovedIsEmpty ==
    [][\A n \in Name : Rm(n) =>
          \A k \in Match(Here, n) :
              NamedBy(k) \in Directories => Children(NamedBy(k)) = {}]_vars

\* The directory the path of the command names: NoId when it names none.
NamedDirectory ==
    LET dirs == job.path.dirs
        dir[k \in 0 .. Len(dirs)] ==
            IF k = 0 THEN IF job.path.abs THEN Root ELSE job.saved
            ELSE IF dir[k - 1] \in Directories /\ dirs[k] \in DOMAIN TableAt(dir[k - 1])
                 THEN TableAt(dir[k - 1])[dirs[k]]
                 ELSE NoId
    IN  dir[Len(dirs)]

\* "add entry to d2" (of mkdir d1/d2/d3): the directory that open and mkdir add
\* an entry to is the one the path names.
CreatesWhereNamed == [][OpenNew \/ Mkdir => cwd = NamedDirectory]_vars

=============================================================================
