# Very Simple File System: TLA+ specification, model checking and proofs

The program is a file system inside one host file, `vdisk`, with a shell that
runs its commands (`src/src/fs/vsfs.cpp`, `vsfs.hpp`), and a Sun RPC service
that runs the shell's commands remotely (`src/src/rpc/`). `vsfs_rpc.cpp` is a
copy of `vsfs.cpp` whose `main` runs one command given by its arguments; the
definitions here are translated from `vsfs.cpp`, those of the service from
`src/src/rpc` and the `main` and `rpc` of `vsfs_rpc.cpp`.

## 1. The system

| component | state | operations | correct when |
|---|---|---|---|
| virtual disk (`vsfs.cpp` 184-220, 975-1212, 1428-1484, 1751-1849) | inode map, data map, inodes, blocks | allocBit, freeBit, createFile, newDir, addEntryToDir, freeFile, mkfs | what an entry names is allocated and written; no two inodes share a block |
| directory loading (1313-1385) | none | loadCwdTable, readEntry | it stays inside the directory and its counter agrees with its entries |
| namespace commands (273-348, 562-678, 1077-1296) | cwd, cwd_table, fd_cnt, fd_map, the state of the stream | mkfs, cd, open, close, mkdir, rm, rmdir, constructor | directories form a tree, cwd_table is the disk's, a command changes what its path names and nothing else |
| file data (674-965) | inode size, capacity, addr_0, addr_1; the words of blocks; offsets in fd_map | write, read, seek, cat, calcDiskAddr | every offset of a file has a word of its own, which holds what was last written there |
| import and export (350-445) | none of its own | open, write or read, close in one command | as for file data |
| ls, tree (620-672) | none | print | the recursion of tree ends, and prints all that is below once |
| command parsing (1228-1268, 1516-1592) | none | parseCmd, parsePath | the directory part and the name of a path |
| running binaries (1672-1713) | a temporary host file, a child process | execBinary, fork, execvp | one shell works on the disk |
| RPC service (`src/src/rpc`, `vsfs_rpc.cpp`) | the host file `tmp` | one process of the file system per call | a client is given the result of its own call, after its command has run |

**Interactions.** Commands are method calls in one thread. `open`, `mkdir`,
`import` and `export` call `cd` for the directory of their path, which moves the
members `cwd` and `cwd_table`, and move them back at their end. Everything that
lasts is on the disk; `cwd_table`, `fd_map` and the stream's state live as long
as the process. A write works on a copy of the inode and stores it at its end.
The RPC server forks a process for each call, which opens the same disk.

**What is hard.** The program has no locks and no messages between its parts
except RPC, so most of what is hard is *sequence* and *failure*: names created,
removed and removed again (rm compares deleted entries too, and its counter
drifts away from the entries); a failure half-way (a component of a path that
does not exist, `createFile` without a data block, a write without one), whose
`-1` the caller does not look at; in-memory state that outlives what it copies
(`cwd_table`, descriptors across `rm` and `mkfs`); the process ending inside a
command; addresses at block boundaries. Two processes on one disk and repeated
RPC calls are the concurrent part. `PROJECT.json` lists each hazard at its line
with the properties that watch it.

## 2. Modules

    VSDisk <- VSFileSystem <- VSProperties <- MCVSFileSystem       (TLC)
                                 ^
                                 |- VSCrash  <- MCVSCrash          (TLC)
                                 |- VSShells <- VSTree <- MCVSTree (TLC)

    VSDiskProofs <- VSProofs <- VSDirectoryProofs <- VSCrashProofs  (TLAPS)
                                          ^---- VSShellsProofs -> VSTree

    FileTape   <-INSTANCE-   FileProperties <- MCFileData         (TLC)
    FileData   <-EXTENDS--/        ^- FileProofs <- FileTapeProofs (TLAPS)

    ShellRpc   <- ShellRpcProperties <- MCShellRpc                (TLC)
                          ^- ShellRpcProofs                       (TLAPS)

### VSDisk: the disk and its helpers

Pure operators on a record `[imap, dmap, node, data]`: the two maps of bytes,
the inodes, the first data block of each inode. `AllocBit`, `FreeBit`,
`CreateFile`, `NewDir`, `AddEntry`, `DeleteEntry`, `FreeFile`, `FormattedDisk`
are the functions of the same names, with all their writes in order of effect.
`node[-1]` is there because `writeInode(-1)` does write there. `Loads` gives the
outcomes of `loadCwdTable` on an inode. Where it stays inside the directory there
is one, the table. With a counter of 0 it applies `delete[]` to an uninitialised
pointer, which may end the process or not. With a counter above the live entries
it reads past the end, once for each entry that is missing, where `readData`
leaves its buffers uninitialised: it may fault, never come back (the loop looks
for an entry that is not deleted), or insert any name with any id
(`Beyond`; all ints that are no inode's id are one, `Elsewhere`). A regular file,
an inode never written and a failed stream have some number for a counter, and
the load faults, does not come back, or comes back with a table of garbage. These
last two are one outcome, `Lost`.

### VSFileSystem: the process and the namespace commands

`disk` is on the host; `up`, `good`, `cwd`, `cwd_table`, `fd_cnt`, `fd_map` are
the members. `cd`, `open` and `mkdir` walk a path; each round of the loop in
`cd` is a step `Descend`, and the command under way is in `job`. `Start` is the
constructor, `Stop` the end of the process, possible between any two steps.
After a load that is `Lost` the process is `Adrift`: it runs, and is followed
again when mkfs formats the disk under it or when it ends and is started again.
`open` has an action for each way out (`OpenExisting`, `OpenRefused`, `OpenNew`,
`GiveUp` where cd returns -1 and the caller goes on), as `mkdir` and `rm` have,
with actions for the assertion of `rm` and for what it does where there is nothing
that it could scan (`RmUndefined`).

### VSCrash: the process killed between two writes

Each function of the disk writes a few bytes, moves the stream and writes the next
few; every move hands the buffered bytes to the host, so that they reach `vdisk` in
the order of the code. `media` is the host file, `todo` what it will hold after each
write to come. A command of VSFileSystem takes place as a whole on `disk` and puts
the images of the disk after each of its writes into `todo` (`CreateImages`,
`EntryImages`, `DirImages`, `RmImages`, `MkfsImages`); `Write` lets the next one
arrive and `Cut` ends the process between two. The last image of an operation is by
definition the disk that VSDisk gives for the whole of it (`WrittenBack`, which the
proofs use). A command's memory is set with its first write, since nothing reads it
before the last, and a kill loses it. The next `Start` loads `media`.

### VSShells: running binaries, and shells below each other

A first word that is no command is the name of a binary (`parseCmd`,
`execBinary`): it is looked up as `open` does (`BeginRun`, `RunMissing`), and
`export_` looks it up once more, with a second walk of the path from the saved
directory, now freshly loaded (`RunFound`, then the steps of `cd`, then
`ExportFound`, or `ExportMissing` where the first walk used a table that was out
of date). Then a child is forked. In `RunBinary` it runs the binary and ends; in
`RunShell` execvp fails, and the child returns from `execBinary` and goes on as a
shell, with a copy of the memory of its parent.
The variables of VSFileSystem are the memory of the shell that reads commands,
`waiting` the memories of those above it; `Resume` is the return of `wait`.
The module composes VSFileSystem with itself: all its actions are in `Work`.

### VSTree: the recursion of tree

`tree_inner` loads a directory into a table of its own and calls itself for each
directory in it. `walk` is the stack of calls, each the names it has yet to print,
and `shown` what has been printed; each name (`Show`) and each `Return` is a step,
and the process may end, or be lost in a load, at any of them. The properties need
no fairness: no inode is printed twice, so that there are finitely many steps, and
what is printed when the outermost call returns is everything below.

### FileTape and FileData: what files hold

`FileTape` is the abstract specification, of what the code gives its user: a file is
a size and a tape of words, zero where nothing was written; a descriptor is a file
and an offset; a write puts words on the tape and then sets the size. In two points
it follows the code against what is documented, and each has a run of its own: a
file that exists is opened at offset 0 (`opens_at_end`), and an import keeps the
rest of a longer file (`import_whole`). `FileData` is the code: data map, words of
blocks, inode with `size`, `capacity`, `addr_0`, `addr_1`, and `writeData` on the
copy of the inode in `job`, one step for each of its writes to the disk: words
(`WriteBlock`), the bit of the level 1 block (`AllocAddr1`), the bit of one more
block (`TakeBlock`; `job.got` is the block until its address is written), its
address (`PutAddress`). `EndWrite` is the rest of `write_`. `Restart` ends the
process between any two of these. `FileProperties` states the refinement
`FilesAreTapes`: the tape of a file is what `calcDiskAddr` finds for each offset.

### ShellRpc: the remote shell

A call is its client and its number; which command it carries is left out, since the
questions are which result a client gets, which commands have run, and how often: a
datagram is its call and the number of its copy, and `ran` has one for each time a
command was run. `Begin`, `Answered` and `TimedOut` are the client's loop; `Resend`
is the RPC library's, which is external: it sends a call again until an answer with
its number arrives or the time (25 seconds) is over, and the server's side keeps no
record of what it has answered. Datagrams are sets; one that is never received is a
lost one. The server runs one call at a time: `Fork` starts a process of the file
system and waits for it, the process empties `tmp`, runs the command and writes
`tmp` (`FsEnds`), dies before that in its constructor (`FsDies`, as on a disk that
was never formatted) or in its command (`FsAborts`, as in `RmAborts` of
VSFileSystem), and `Reply` sends what `tmp` holds. `ExecFails` is the child of a
failed execvp: it returns from `execfs` and is a server from then on, while the
first one waits for its end; `chain` holds the servers that wait. `ReplyCrashes` is
`printf` of the null pointer that `readResult` returns without the file. `ran`,
`unstarted` and `shown` are history variables that the properties are about.

## 3. Runs

All runs are TLC, exhaustive on the instance. Symmetry is declared only in runs
whose paths have no directory in them: the other paths name `foo` and not `bar`. The
view `MCView` drops the memory of a process that has ended, which `Start` sets anew;
in `one_dir`, `tree` and `crash` it drops the descriptors too, which change no step
while `MaxFd` is out of reach.

| run | instance | what it shows |
|---|---|---|
| `tree` | VSTree: 5 inodes, 5 blocks, two names of which one is removed, paths `n`, `../n`, `/foo/n`, `/foo/foo/n`, one waiting shell | `ChildrenYounger`, `DotDotReturns`, `OneParent`, `NoSharedBlock`, `RmIsLocal`: nested directories removed while current or on the way; `ShellsTypeOK`, `ShellsInv`, `FilesStay`, `FreshUnknown`, `NoSecondEntry`: what a shell that goes on finds; `TreeShowsOnce`, `TreeShowsAll` |
| `one_dir` | VSTree: 4 inodes, two names, up to 5 entries, paths `n` and `/n`, one waiting shell, a disk that is new at first | `ScanInRange`, `OnlyFullBreaks`, `RmSparesOthers`: names removed twice, created again; `ExportIsCurrent`: a binary whose name has come to mean something else below the shell that runs it |
| `full_disk` | 4 inodes, 3 blocks, one name, paths `n` and `foo/foo/n` | `TypeOK`, `Inv`, `EntriesInitialised`, `NamesKept`, `FreshInodeUnnamed`: every way createFile fails, and all that follows; `TableFresh`: wherever walks, refusals and failures leave cwd; `CommandEnds` under the fairness below |
| `crash` | VSCrash: 3 inodes, 3 blocks, two names, bare paths, open, mkdir and rm cut between any two writes, any number of times | `CrashTypeOK`, `MediaInv`, `NamedIsFinished`, `CutSparesNames`, `CreationsStayInRange`: what the next start finds |
| `tapes` | FileData: blocks of 3 words, 5 blocks, 2 files, 2 descriptors, offsets up to 7 | `TypeOK`, `FileInv` (the inductive invariant of the proofs), `OffsetsMapped`, `AddressesApart`, `FreeIsZero`, `ReadsFile`, `FilesAreTapes`, `WriteEnds` |
| `answers` | ShellRpc: a client with two calls, each sent at most twice, one with one call sent once, every fault | `TypeOK`, `OwnIfStarted`, `AnsweredInOrder`, `RunsOncePerSend`: answers lost, late and repeated, commands run twice, servers that fail |

**Bounds.** Ids come from the maps in order and are never handed out again, so four
inodes are the root and three creations: a directory in a directory in the root, or
a directory with two files, which is what each property relates (two entries, two
directories, a parent and a child). `tree` has a fifth, so that a shell below
another one can create beside and inside what the other has made; one shell that
waits is enough, since a third one meets the second as the second meets the first.
The constraint `NotReformatted` of that run leaves out what follows an mkfs typed
below a waiting shell, where `ShellsInv` and `FreshUnknown` say nothing. `crash` has
the root and two creations: one that is cut and one after it, or a directory and an
entry in it, and `CutOps` is creation and removal (section 5 says why mkfs is left
out). `CutSparesNames` says for each of the two what a cut does not do: a cut rm
takes no name that the finished one leaves, a cut creation gives none that the
finished one does not. (A cut rm may show a name that the finished one does not, one
that the counter had hidden, and a cut creation lacks the name it was to give.) In
`one_dir` five entries are `.`, `..`, two names and one of them made again after it
was deleted; `MaxSlots` stops creation behind that, and failed creations on the full
disk add entries before it. `/n` is the path that looks in the table as it is, so
that a shell that goes on uses its old one. The disk is new at first: the
constructor's load is undefined there, and a process that survives it can format the
disk. In `full_disk`, `MaxFd = 0` allows one descriptor, which is enough to keep a
removed file reachable. In `tapes`, blocks of 3 words give a file of 7 words its direct block and
two blocks behind the level 1 block; the write of 4 words from offsets 0 and 3
crosses block boundaries, starts at one, overlaps an earlier write, and leaves a
hole (at 3 in an empty file). Such a file takes four blocks, its level 1 block counted:
with five, two files compete, in every order, and cuts use blocks up. Two level 1
blocks that are both in use would need a sixth block (398 000 states, which hold all
the properties, in more time than a run should take); for any number of blocks and
files, section 4 has the proofs. `RunsDry = FALSE` lets no write begin that would find no block at its
end; the other case is the run `no_block`, and with it liveness is not checked. In
`full_disk` there are three blocks, so that the third creation finds an inode and no
block and the fourth no inode; the path of two components lets a create go on after
a walk has loaded a directory that the full disk has broken. In `answers` the second
client is the other one whose result `tmp` may hold; two calls of one client, each
sent twice, are what an old request or answer needs to arrive during a later call.
The server may stop for good and the clients run out of calls, so that deadlock is
not checked there.

**Fairness.** `WF(Continue)` only, in VSFileSystem and FileData: once a command runs,
the single thread keeps executing it. Commands, `Stop` and `Restart` are the
user's and the host's and have none. The loop of a load is one step, and one that
need not end is the outcome `Lost`: `CommandEnds` says that a command comes to its
end unless it is lost in a file that was entered as a directory, or on a full disk.
VSCrash, VSShells and VSTree have safety properties only. ShellRpc has no
fairness and no liveness property: datagrams may all be lost, and the server
waits without limit for a process that may not come back.

### What the code does not do

Each of these runs finds a violation of a statement the repository makes.

| run | property | the code |
|---|---|---|
| `rmdir_empty` | `RemovedIsEmpty` | a second rm of a deleted name counts a live entry out, and a directory with a file in it counts as empty (1118) |
| `lookup` | `CreatesWhereNamed` | when a component does not exist open and mkdir go on where the walk stopped, and create there (1282) |
| `no_block` | `OffsetsMapped` | a write on a full disk uses block -1, in the inode region (857) |
| `opens_at_end` | `OpensAtEnd` | an existing file is opened for writing at offset 0 (276), where the comment at 299 says its end |
| `import_whole` | `ImportedIsWhole` | import writes over the front of a longer file and keeps its size and tail (351), so that an export differs from what was imported |
| `stale` | `ResultIsOwn` | after a failed execvp the child answers as the server, with the result of an earlier call, of another client too (`shell_server.c` 30) |

The instances are the smallest that show it. Met while modelling and not given
a run: `freeBit` writes 1, the value that `allocBit` writes, so that rm frees
nothing (1193, against the comment at 1161); the constructor loads the root of a
disk that was never formatted, which is undefined, before mkfs can be typed (74,
against the greeting at 1720); `open` returns early (`"r"` of a missing file, an
unknown flag), and mkdir when it finds no inode or block (1286), without going
back to the saved directory; `cd` into a written regular file
reads its words as a counter of entries; `mkfs` keeps the descriptor table and
its counter, so that descriptors opened before it mean files of the new disk; a
remote command is run at least once for a result, and twice when its request is
sent again; after a failed mkdir on a full disk, rm of a deleted name meets the
inode written at id -1 and the assertion of `checkDirEmpty` (1045) fails
(`RmAborts`); a live entry beyond the first `cnt` is not found by rm any more; the
README's "deleted entry will be skipped" is so for the loader and not for
`rmDirEntry`, and new entries are appended where it says that a deleted one's
place is used again; a creation that ends between its entry and the counter leaves
an entry that the next creation makes visible in place of its own.

## 4. Proofs

TLAPS checks these for every number of inodes, blocks, words and files, every set
of names and paths and every bound, from the assumptions on the constants alone:
`DiskAssumption` and `ProcessAssumption` (there is an inode and a block; `.` and
`..` are not among the user's names), `CrashAssumption` (what is cut is one of the
three commands), `ShellsAssumption` (a number of shells), `RpcAssumption`, and
`FileAssumption` (a block has two words, data and lengths are what their names
say, seeks stay within the bound `MaxOffset`).

| theorem | module | statement |
|---|---|---|
| `TypeCorrect` | VSProofs | `Spec => []TypeOK` |
| `InvCorrect` | VSProofs | `Spec => []Inv` |
| `EntriesCorrect`, `BlocksCorrect`, `YoungerCorrect` | VSProofs | `Spec => []` of `EntriesInitialised`, `NoSharedBlock`, `ChildrenYounger` |
| `FreshCorrect` | VSProofs | `Spec => FreshInodeUnnamed` |
| `TableCorrect`, `ScanCorrect` | VSDirectoryProofs | `Spec => []` of `TableFresh`, `ScanInRange` |
| `ParentCorrect`, `DotDotCorrect` | VSDirectoryProofs | `Spec => []` of `OneParent`, `DotDotReturns` |
| `LocalCorrect` | VSDirectoryProofs | `Spec => RmIsLocal` |
| `RangeCorrect` | VSDirectoryProofs | `Spec => []OnlyFullBreaks` |
| `NamesCorrect`, `SparesCorrect` | VSDirectoryProofs | `Spec => NamesKept`, `Spec => RmSparesOthers` |
| `ShellsTypeCorrect`, `ShellsInvCorrect` | VSShellsProofs | `ShellsSpec => []ShellsTypeOK`, `ShellsSpec => []ShellsInv` |
| `FilesStayCorrect`, `FreshUnknownCorrect` | VSShellsProofs | `ShellsSpec => FilesStay`, `ShellsSpec => FreshUnknown` |
| `NoSecondEntryCorrect` | VSShellsProofs | `ShellsSpec => NoSecondEntry`, where no user removes `.` or `..` and every path makes `open` load a directory |
| `ExportCorrect` | VSShellsProofs | `ShellsSpec => ExportIsCurrent` |
| `TreeIsShells` | VSShellsProofs | `TreeSpec => ShellsOrLost`: the steps of `ShellsSpec`, and one in which tree loses the shell |
| `ShowsOnceCorrect`, `ShowsAllCorrect` | VSShellsProofs | `TreeSpec => []` of `TreeShowsOnce`, `TreeShowsAll`, up to an mkfs typed below a shell that waits |
| `CrashTypeCorrect` | VSCrashProofs | `CrashSpec => []CrashTypeOK` |
| `MediaInvCorrect` | VSCrashProofs | `CrashSpec => []MediaInv` |
| `FinishedCorrect`, `SparesNamesCorrect`, `StayInRangeCorrect` | VSCrashProofs | `CrashSpec => []` of `NamedIsFinished`, `CutSparesNames`, `CreationsStayInRange` |
| `FileTypeCorrect`, `ReadsFileCorrect` | FileProofs | `Spec => []` of `TypeOK`, `ReadsFile` |
| `FileInvCorrect` | FileProofs | `Spec => []FileInv` |
| `OffsetsMappedCorrect`, `AddressesApartCorrect`, `FreeIsZeroCorrect` | FileProofs | `~RunsDry` implies `Spec => []` of `OffsetsMapped`, `AddressesApart`, `FreeIsZero` |
| `FilesAreTapesCorrect` | FileTapeProofs | `~RunsDry` implies `Spec => FilesAreTapes` |
| `RpcTypeCorrect` | ShellRpcProofs | `Spec => []TypeOK` |
| `OwnCorrect`, `OrderCorrect`, `OncePerSendCorrect` | ShellRpcProofs | `Spec => []` of `OwnIfStarted`, `AnsweredInOrder`, `RunsOncePerSend` |

**The namespace.** None of the three invariants is inductive. That entries name
written inodes says nothing of an entry in the block of an inode that is itself
not reachable; that children have larger ids needs that the next free inode is
above all that exist, which needs that ids are taken in order; that blocks are
apart needs that a written inode's block is allocated. `Inv` is their
conjunction, about *all* inodes and blocks, those of removed files and
directories included, since a descriptor, `cwd` or a `..` may still mean them:
`WrittenAllocated`, `BlocksDistinct`, `TakenInOrder`, `EntriesWritten`,
`EntriesYounger`, and that a running process that is not adrift stands in a
written directory. That
rm frees nothing is what makes it hold: with a `freeBit` that wrote 0 an entry,
a descriptor or a `..` could mean an inode handed out again (the mutant of
`FreshInodeUnnamed` has that `freeBit`). `VSDiskProofs` has the types of
the disk's operators and what each keeps of `DiskInv`, one lemma per operator;
`VSProofs` goes through the actions. These theorems are about `Spec`, the one
process of VSFileSystem; the run `tree` checks some of the properties under
`TreeSpec` too, where `ShellsInvCorrect` and the lemma `ShellsTreeCorrect` have the
invariants they rest on.

**Directories.** Three more invariants stand on `Inv`, each about all inodes that are
written. `CountsFit` is `ScanInRange` on a disk: creation adds an entry and one to
the counter, removal leaves the entry and takes one off. `IsTree` is what makes
the directories a tree: no inode is named twice (`NamedOnce`, since an inode that
is entered is one that createFile has just written, and that entries name written
inodes only), and the second entry of a directory that is named is where it is
named (`DotsFit`), which needs that no directory has fewer than two entries
(`HasDots`), or the entry that names it would be taken for a `..`. `TableFresh` is
inductive as it stands: each command that changes a directory ends with a load,
and what moves cwd loads what it moves to.
`RmIsLocal` is that two directories have no block in common.

**Names.** The loader reads the first `cnt` entries that are not deleted, so what a
directory shows depends on its counter and on which of its entries are live. The
proofs compare two contents: `Shows(c, e)` says that every name of `c` is in `e`
with its inode. An entry added behind the others adds to what is reached and
hides nothing, whatever the counter, which is `NamesKept`. One live entry less and
a counter less by one reach the same other entries (`Live` loses one element, and
the entries in front of any other one are at most one fewer), which is
`RmSparesOthers`; a deleted entry found by rm takes one off the counter and no
entry away, which is the case the property leaves out. `OnlyFullBreaks` is not
inductive: that a creation which finds an inode and a block keeps it in step
needs that the maps only grow between two `mkfs`, so that a disk that is full
stays full (`FullStays`), and that the stream fails only on a full disk.

**Shells.** A step of a shell keeps `Inv` as before. That a shell which goes on
finds its directory rests on a fact about two disks: an inode that is written keeps
its type and its block in every step but mkfs, which is `FilesStay` and is proved
first. `FreshUnknown` speaks of memories as old as a fork, whose tables may be
stale. `ShellsKnown` says that every table of theirs names written inodes: a table
is loaded from entries that are live (`LoadKnown`), which needs that counters and
entries are in step and streams are good, which holds while the disk has room; and
what has been written stays written below a stale table, which is `FilesStay` again.

`NoSecondEntry` needs an invariant about what a stale table is good for: not to
look up a name, but to come to the directory that is loaded before the name is
looked up. `TablesReload` says that every table, the stale ones included, has `.`
and `..`, and that an `open` under way has one of the two in front of it or has
loaded the directory it stands in. That a load finds `.` and `..` is `DotsLive`:
the first two entries of a written directory are not deleted, and the counter
covers them, for it is at least 2. The hypotheses say what this needs of the user,
and the code breaks the property without either: after `rm .` the path `./n` finds
no first component, and `/n` is cut to a bare name, so that the old table is used
as it is (`ParsePath`). All else is covered: deeper paths, components that are not
found later on, full disks.

`ExportIsCurrent` rests on `ExportLoaded`: from the return of the first lookup on,
the table is the one of the directory the shell stands in, whichever table the
first lookup used.

**Tree.** A step of `tree` is a step of the shells, leaves their variables alone, or
loses the shell in a load and changes nothing else (`LostInTree`), which is
`TreeIsShells`: what is proved of `ShellsSpec` holds while tree runs. What there is
to show is that a process which dies in a load is one that ends (`Stop`), and that
mkfs does not (`MkfsGoesOn`). `WalkFits` is the invariant of the
recursion: what has been printed and what the calls have yet to print are apart,
no two calls have a name of one inode, and all of it together is what the
directories that were entered list. A directory that is entered adds what it lists:
that none of it is there already is `IsTree`, in which an inode is entered in one
directory only, and that the walk does not come back to where it began is
`EntriesYounger`. When the outermost call has nothing left to print, what was
printed is closed under names, and each of it came from a name below, which is
`ReachableFrom`, the least set with that property. Both theorems hold up to an mkfs
below a waiting shell, as `ShellsInv` does, and need no room on the disk but that no
counter is above its entries (`NoOverrun`).

**Crashes.** `MediaInv` is not inductive: the writes to come have to be sound as
well. `CrashInv` says that each image in `todo` is a disk on which `DiskInv`
holds, that they end with the disk of the process, and that the media is one;
the proof goes through the images of each operation in the order of the code,
and shows for each that the half-written state is sound. The order matters: an
inode's bit is set before the inode is written, a directory is filled before it
is named. With a cut mkfs nothing is claimed. `CrashTyped` is the part of it that
needs no order and so covers a cut mkfs too: the types, and that the images end
with the disk of the whole operation.

The other three say what that order is for, and need more of the images than that
each is sound. `OrderInv` says of those of a creation that each leads to the disk
at the end (`Leads`: no directory shows a name it will not show), and of those of
rm that each shows what will stay (`Spares`); of all that directories which are
entered are `Finished`, and, as long as no rm has been cut, that no counter is above
the live entries. `Advances` and `Between` carry these through the images of
each operation, one lemma per operation as for `MediaInv`. A kill makes any of
the images the next disk, which is why they are required of the disk as well.

**Files.** None of `OffsetsMapped`, `AddressesApart` and `FreeIsZero` is inductive.
`PutAddress` stores an address in the level 1 block through the copy of the inode,
so that the addresses of one file stay what they are only if no other file holds
that block; a block that `AllocDataBlock` hands out is nobody's only if every block
that is held is taken, the one of a write cut half-way included. `FileInv` has these
facts: `Shapes` (the inodes, and the copy that a write works on, which has grown
from the inode on the disk and is otherwise equal to it), `Layout` (each block held
by an inode is taken, no block is held twice, those not taken are zero),
`PendingSound` (the block that a write has taken and not yet put down is taken, held
by no inode, and zero) and `Roomy` (the write under way finds the blocks it still
needs). `Layout` is stated over the `Current` inodes, the copy in place of the inode
that is being written; when the process ends, the old inode holds a part of what its
copy held, which keeps it. `Shapes` and the types hold on a full disk too; `Layout`
does not, as the run `no_block` shows, and the theorems that need it have the
hypothesis `~RunsDry`: no write begins that will not find its blocks.

`FilesAreTapesCorrect` maps each action to one of `FileTape` or to none: `WriteBlock`
puts words on the tape, at the offsets that `CalcDiskAddr` finds for them and
nowhere else, since addresses are apart; `AllocAddr1` and `TakeBlock` change no
tape, as they write bits only, nor does `PutAddress`, as the new block is zero like
the tape behind the capacity; `EndWrite` sets the size; `Restart`
drops a copy that has grown, and with it what was written into blocks that the
inode on the disk does not know, all of it behind the size, where the tape of
`FileTape` may lose words.

**The remote shell.** `OwnIfStarted` is about a client that has received;
`AnswersFit` says of every answer under way, and of `tmp` while a server answers,
whose result it is. `AnsweredInOrder` needs `InOrder`, on the numbers of the calls
that are under way. `RunsOncePerSend` needs `Served`: a datagram that is served or
was run is not on its way any more, and what a client sends it has not sent before.

**Model-checked only.** `CommandEnds` and `WriteEnds`: liveness is outside the
prover's reach. `WriteEnds` is checked where the blocks of a write are there. Of the
finite part of it, `ShowsOnceCorrect` proves that tree prints at most as many names
as there are inodes. The properties of the violation runs are refuted, not proved.
With that every invariant and every action property of a passing run is stated by a
theorem.

## 5. Abstractions, and what is not modelled

- An entry has no length in bytes: a directory is taken to fit its first block.
- VSCrash has no kill in the middle of one write, and takes the host to keep what
  the program has handed over, in its order: the host does not crash.
- A cut mkfs is left out of the runs (`CutOps`): mkfs wipes the maps before the
  inodes, so that the old tree may still be loaded while every inode is free, and
  the next creation overwrites inode 0. No part of the repository promises
  anything about that state.
- FileData takes a word for a byte where the code counts bytes, an address being
  a word. It takes files from where `VSFileSystem` has created them; a failed
  creation and a second rm of a name are VSFileSystem's. Offsets are never
  negative and stay below `Cap1`, behind which calcDiskAddr returns an
  uninitialised value. What is written outside the data region and the block in
  front of it is not kept. `cat` reads and prints, as `export` does.
- In VSShells: what a binary does to the disk is outside, as it has no access but
  through the program. A host file that cannot be written, into which export_ then
  writes nothing, is left out. A fork that fails ends the shell (`Stop`). Only
  the shell that reads commands is killed. Parent and child share the input, of
  which the child reads all; the parent waits.
- What an adrift process does on the disk is not followed: after a load of garbage,
  or on a failed stream, it could create files under names and in inodes that
  nothing determines. It is followed again from its next mkfs or the next start.
- In the run `tree` and in `one_dir` what follows an mkfs typed below a waiting
  shell is not explored; the theorems about `ShellsSpec` cover it where they say so.
- `tree` prints a directory in the order of its table, here in any order; `ls`
  prints `cwd_table` and changes no state.
- Splitting a command line into words, and the messages printed.
- In ShellRpc: the text of commands and results (`readResult` does not end its
  buffer with a zero, and both sides use a result as a format), so that two runs
  of one call have one result; a process of the file system that does not end is
  one that is never scheduled; the portmapper and the TCP transport the server
  also registers, which the client does not use.
- `vsfs_rpc.cpp` repeats `vsfs.cpp` line by line but for its `main` and `rpc`; its
  copies are not modelled a second time.

## 6. Plan

Done: `VSDisk`, `VSFileSystem`, `VSCrash`, `VSShells`, `VSTree`, `FileTape`,
`FileData`, `ShellRpc`; types, the inductive invariants and the properties of
section 4 proved. Next, in this order:

1. `VSNames`, an abstract specification (a map from directories and names to
   inodes) that the commands of VSFileSystem implement while the disk is not full
   and no name is removed twice.
2. Its refinement as a theorem: the step lemmas from `Shows` of VSDirectoryProofs.
