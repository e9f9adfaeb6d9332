---------------------------- MODULE VSFileSystem ----------------------------
(***************************************************************************)
(* The process: the class VSFileSystem of src/src/fs/vsfs.cpp, its members *)
(* and the namespace commands of its shell (mkfs, cd, open, close, mkdir,  *)
(* rm and rmdir), with the constructor and the end of the process.         *)
(*                                                                         *)
(* cd, open and mkdir walk a path: the loop of cd() loads one directory    *)
(* per component, and each iteration is a step.  The command under way is  *)
(* in `job`, so that nothing but the end of the process comes between its  *)
(* steps.  A process whose load did not come back, or came back with what  *)
(* is not followed here, is Adrift: it is followed again from its next     *)
(* mkfs, or from the next start.  (The jobs "run" and "export", for a name *)
(* that is no command, are the subject of module VSShells.)                *)
(***************************************************************************)
EXTENDS VSDisk

CONSTANTS FreshDisk,  \* TRUE: the disk file is new; FALSE: mkfs has run on it
          Path,       \* the directory parts of the paths the user types
          Target,     \* the last components of those paths
          RmTarget,   \* the names the user gives to rm and rmdir
          MaxSlots,   \* bound: nothing is created once a directory has so many entries
          MaxFd       \* bound: the largest descriptor of a session

Flag == {"r", "w", "other"}

ASSUME ProcessAssumption == /\ FreshDisk \in BOOLEAN
                            /\ Path \subseteq [abs : BOOLEAN, dirs : Seq(Name)]
                            /\ Target \cup RmTarget \subseteq Name
                            /\ MaxSlots \in Nat
                            /\ MaxFd \in Nat

VARIABLES disk,       \* the virtual disk
          up,         \* the process is running
          good,       \* the state of the fstream `disk`: FALSE once failbit is set
          cwd,        \* inode id of the current directory
          cwd_table,  \* name -> inode id, the loaded current directory
          fd_cnt,     \* the last descriptor given out
          fd_map,     \* descriptor -> inode id
          job         \* the command under way

vars == <<disk, up, good, cwd, cwd_table, fd_cnt, fd_map, job>>

Idle   == [op |-> "idle"]
Adrift == [op |-> "adrift"]
PathT  == [abs : BOOLEAN, dirs : Seq(Name)]
Job    == [op : {"cd", "open", "mkdir", "run", "export"}, path : PathT, rest : Seq(Name),
           saved : Inodes, file : Name, flag : Flag]

\* Every load goes through here: of inode i, with j as what is to be done next.
LoadTable(d, i, j) ==
    \E r \in Loads(d, good', i) : /\ up' = r.up
                                  /\ cwd_table' = r.table
                                  /\ job' = IF r.lost THEN Adrift ELSE j

\* Two loads in a row, of inode i and then of inode k.
LoadTables(d, i, k, j) ==
    \E q \in Loads(d, good', i), r \in Loads(d, good', k) :
        /\ up' = (q.up /\ r.up)
        /\ cwd_table' = r.table
        /\ job' = IF q.lost \/ r.lost THEN Adrift ELSE j

\* Fault: the counter goes up in a copy only.
RegisterFD_KeepsCounter(i) ==
    /\ fd_cnt' = fd_cnt
    /\ fd_map' = [fd \in DOMAIN fd_map \cup {fd_cnt + 1} |->
                    IF fd = fd_cnt + 1 THEN i ELSE fd_map[fd]]

\* registerFD
RegisterFD(i) == /\ fd_cnt' = fd_cnt + 1
                 /\ fd_map' = [fd \in DOMAIN fd_map \cup {fd_cnt + 1} |->
                                 IF fd = fd_cnt + 1 THEN i ELSE fd_map[fd]]

-----------------------------------------------------------------------------
(* The life of the process *)

Init == /\ disk = IF FreshDisk THEN ZeroDisk ELSE FormattedDisk
        /\ up = FALSE
        /\ good = TRUE
        /\ cwd = Root
        /\ cwd_table = EmptyTable
        /\ fd_cnt = -1
        /\ fd_map = [fd \in {} |-> Root]
        /\ job = Idle

\* The constructor: the members are set up and the root directory is loaded.
Start == /\ ~up
         /\ good' = TRUE
         /\ cwd' = Root
         /\ fd_cnt' = -1
         /\ fd_map' = [fd \in {} |-> Root]
         /\ LoadTable(disk, Root, Idle)
         /\ UNCHANGED disk

\* End of input, or the process is killed: at any point of a command.
Stop == /\ up
        /\ up' = FALSE
        /\ UNCHANGED <<disk, good, cwd, cwd_table, fd_cnt, fd_map, job>>

Ready == up /\ job = Idle

\* mkfs closes no descriptor.
Mkfs == /\ up /\ job \in {Idle, Adrift}
        /\ good
        /\ disk' = FormattedDisk
        /\ cwd' = Root
        /\ UNCHANGED <<good, fd_cnt, fd_map>>
        /\ LoadTable(disk', cwd', Idle)

\* On a failed stream nothing reaches the disk, and the load reads nothing.
MkfsOnDeadStream == /\ Ready
                    /\ ~good
                    /\ up' \in BOOLEAN
                    /\ job' = Adrift
                    /\ UNCHANGED <<disk, good, cwd, cwd_table, fd_cnt, fd_map>>

-----------------------------------------------------------------------------
(* Paths *)

\* Fault: a bare name is left in the directory that is loaded.
ParsePath_BareName(p) == IF p.dirs # <<>> THEN p ELSE [abs |-> FALSE, dirs |-> <<>>]

\* parsePath: what open and mkdir pass to cd.  A bare name becomes "./name";
\* of "/name" only the empty string is left in front of the last slash.
ParsePath(p) == IF p.dirs # <<>> THEN p
                ELSE [abs |-> FALSE, dirs |-> IF p.abs THEN <<>> ELSE <<".">>]

\* The start of cd(): an absolute path loads the root first.
Begin(p, op, n, flag) ==
    /\ Ready
    /\ UNCHANGED <<disk, good, fd_cnt, fd_map>>
    /\ LET j == [op |-> op, path |-> p, rest |-> p.dirs, saved |-> cwd, file |-> n, flag |-> flag]
       IN  IF p.abs THEN cwd' = Root /\ LoadTable(disk, Root, j)
           ELSE job' = j /\ UNCHANGED <<up, cwd, cwd_table>>

BeginCd(p) == Begin(p, "cd", ".", "r")

HasRoom == \A b \in Blocks : Len(disk.data[b].slots) < MaxSlots

BeginOpen(p, n, flag) ==
    /\ fd_cnt < MaxFd
    /\ flag = "w" => HasRoom
    /\ Begin(ParsePath(p), "open", n, flag)

BeginMkdir(p, n) ==
    /\ HasRoom
    /\ Begin(ParsePath(p), "mkdir", n, "w")

Busy    == up /\ job \notin {Idle, Adrift}
Walking == Busy /\ job.rest # <<>>

\* Fault: the directory that is entered is not loaded.
Descend_NoLoad == /\ Walking
                  /\ Head(job.rest) \in DOMAIN cwd_table
                  /\ LET i == cwd_table[Head(job.rest)]
                     IN  cwd' = IF i \in Inodes THEN i ELSE cwd
                  /\ job' = [job EXCEPT !.rest = Tail(@)]
                  /\ UNCHANGED <<disk, up, good, cwd_table, fd_cnt, fd_map>>

\* One component found: it becomes the current directory, whatever its type.
\* (An id that is no inode's loses the process, and is not kept in cwd.)
Descend == /\ Walking
           /\ Head(job.rest) \in DOMAIN cwd_table
           /\ UNCHANGED <<disk, good, fd_cnt, fd_map>>
           /\ LET i == cwd_table[Head(job.rest)]
              IN  /\ cwd' = IF i \in Inodes THEN i ELSE cwd
                  /\ LoadTable(disk, i, [job EXCEPT !.rest = Tail(@)])

\* A component not found: cd returns -1, and its caller does not look.
GiveUp == /\ Walking
          /\ Head(job.rest) \notin DOMAIN cwd_table
          /\ job' = [job EXCEPT !.rest = <<>>]
          /\ UNCHANGED <<disk, up, good, cwd, cwd_table, fd_cnt, fd_map>>

Arrived(op) == Busy /\ job.op = op /\ job.rest = <<>>

EndCd == /\ Arrived("cd")
         /\ job' = Idle
         /\ UNCHANGED <<disk, up, good, cwd, cwd_table, fd_cnt, fd_map>>

-----------------------------------------------------------------------------
(* open and close *)

Found == job.file \in DOMAIN cwd_table

OpenExisting == /\ Arrived("open")
                /\ Found
                /\ job.flag \in {"r", "w"}
                /\ RegisterFD(cwd_table[job.file])
                /\ cwd' = job.saved
                /\ UNCHANGED <<disk, good>>
                /\ LoadTable(disk, cwd', Idle)

\* The early returns of open: the current directory stays where cd left it.
OpenRefused == /\ Arrived("open")
               /\ job.flag = "other" \/ (job.flag = "r" /\ ~Found)
               /\ job' = Idle
               /\ UNCHANGED <<disk, up, good, cwd, cwd_table, fd_cnt, fd_map>>

\* A failed createFile is not noticed: the entry and the descriptor get id -1.
OpenNew == /\ Arrived("open")
           /\ ~Found
           /\ job.flag = "w"
           /\ good
           /\ LET c == CreateFile(disk)
              IN  /\ disk' = AddEntry(c.disk, c.id, job.file, cwd)
                  /\ RegisterFD(c.id)
           /\ cwd' = job.saved
           /\ UNCHANGED good
           /\ LoadTables(disk', cwd, cwd', Idle)

\* releaseFD
Close(fd) == /\ Ready
             /\ fd \in DOMAIN fd_map
             /\ fd_map' = [g \in DOMAIN fd_map \ {fd} |-> fd_map[g]]
             /\ UNCHANGED <<disk, up, good, cwd, cwd_table, fd_cnt, job>>

-----------------------------------------------------------------------------
(* mkdir, rm and rmdir *)

\* mkdir does not look whether the name exists.
Mkdir == /\ Arrived("mkdir")
         /\ good
         /\ LET c == CreateFile(disk)
            IN  /\ c.id # NoId
                /\ disk' = AddEntry(NewDir(c.disk, c.id, cwd), c.id, job.file, cwd)
         /\ cwd' = job.saved
         /\ UNCHANGED <<good, fd_cnt, fd_map>>
         /\ LoadTables(disk', cwd, cwd', Idle)

\* createFile failed: newDir works on inode -1 until the stream fails, then
\* mkdir returns without going back to the saved directory.
MkdirFailed == /\ Arrived("mkdir")
               /\ good
               /\ LET c == CreateFile(disk)
                  IN  c.id = NoId /\ disk' = NewDirFailed(c.disk)
               /\ good' = FALSE
               /\ job' = Idle
               /\ UNCHANGED <<up, cwd, cwd_table, fd_cnt, fd_map>>

Here == ContentOf(disk, cwd)

\* The directory that entry k of the current directory names.
NamedBy(k) == Here.slots[k].id
IsDirectory(i) == disk.node[i].type = Directory

\* rmDirEntry can follow the entries: they are a directory's, and there are some.
Scannable == good /\ IsDirectory(cwd) /\ Here.cnt > 0

\* The assertions of checkDirEmpty.
AssertHolds(k) == IsDirectory(NamedBy(k)) => ContentOf(disk, NamedBy(k)).cnt >= 2

\* rmdir is rm: neither looks at the type it was asked to remove.
Rm(n) ==
    /\ Ready
    /\ Scannable
    /\ UNCHANGED <<good, cwd, fd_cnt, fd_map>>
    /\ \E k \in Match(Here, n) :
          /\ IsDirectory(NamedBy(k)) => ContentOf(disk, NamedBy(k)).cnt = 2
          /\ LET deleted == DeleteEntry(disk, cwd, k)
             IN  /\ LoadTable(deleted, cwd, Idle)
                 /\ disk' = IF up' /\ job' = Idle THEN FreeFile(deleted, NamedBy(k))
                            ELSE deleted

\* The first entry of that name is a directory whose counter is below 2: abort.
RmAborts(n) ==
    /\ Ready
    /\ Scannable
    /\ \E k \in Match(Here, n) : ~AssertHolds(k)
    /\ up' = FALSE
    /\ UNCHANGED <<disk, good, cwd, cwd_table, fd_cnt, fd_map, job>>

\* Nothing to scan: with a counter of 0 `delete en` frees an uninitialised
\* pointer, which may fault; in a regular file, or on a failed stream, the
\* counter is not a directory's, and rm may do anything.
RmUndefined ==
    /\ Ready
    /\ ~Scannable
    /\ up' \in BOOLEAN
    /\ job' \in IF good /\ IsDirectory(cwd) THEN {Idle} ELSE {Idle, Adrift}
    /\ UNCHANGED <<disk, good, cwd, cwd_table, fd_cnt, fd_map>>

\* open and mkdir on a failed stream: nothing reaches the disk, the bytes that
\* allocBit tests are uninitialised, and so is the counter of the load at the
\* end.  mkdir may find no free byte in them and return before it.
CreateOnDeadStream ==
    /\ ~good
    /\ Arrived("mkdir") \/ (Arrived("open") /\ ~Found /\ job.flag = "w")
    /\ up' \in BOOLEAN
    /\ job' \in IF job.op = "mkdir" THEN {Idle, Adrift} ELSE {Adrift}
    /\ UNCHANGED <<disk, good, cwd, cwd_table, fd_cnt, fd_map>>

-----------------------------------------------------------------------------

Command == \/ Mkfs \/ MkfsOnDeadStream
           \/ \E p \in Path : BeginCd(p)
           \/ \E p \in Path, n \in Target, flag \in Flag : BeginOpen(p, n, flag)
           \/ \E p \in Path, n \in Target : BeginMkdir(p, n)
           \/ \E fd \in DOMAIN fd_map : Close(fd)
           \/ \E n \in RmTarget : Rm(n) \/ RmAborts(n)
           \/ RmUndefined

Continue == \/ Descend \/ GiveUp \/ EndCd
            \/ OpenExisting \/ OpenRefused \/ OpenNew
            \/ Mkdir \/ MkdirFailed \/ CreateOnDeadStream

Next == Start \/ Stop \/ Command \/ Continue

Spec == Init /\ [][Next]_vars
=============================================================================
