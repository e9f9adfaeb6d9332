------------------------------- MODULE VSShells -------------------------------
(***************************************************************************)
(* Shells below each other on one disk.  A first word that is no command   *)
(* is the name of a binary: parseCmd opens it, exports it to a host file   *)
(* and execBinary (src/src/fs/vsfs.cpp) forks to run that.  A host file    *)
(* that export has just made may not be executed, so that execvp fails in  *)
(* the child, and the child returns from execBinary: it goes on reading    *)
(* commands, with a copy of the memory of the first shell and the same     *)
(* disk, and the first shell waits for it to end.                          *)
(*                                                                         *)
(* The variables of VSFileSystem are the shell that reads the commands,    *)
(* `waiting` is the memories of the shells above it.                       *)
(***************************************************************************)
EXTENDS VSProperties, Functions

CONSTANT MaxWaiting   \* bound: the number of shells that wait

ASSUME ShellsAssumption == MaxWaiting \in Nat

VARIABLES waiting,      \* the memories of the shells that wait, the first one's first
          reformatted   \* history: mkfs has been typed below a shell that waits

shellsVars == <<vars, waiting, reformatted>>

Memory == [good |-> good, cwd |-> cwd, cwd_table |-> cwd_table,
           fd_cnt |-> fd_cnt, fd_map |-> fd_map]

-----------------------------------------------------------------------------

ShellsInit == Init /\ waiting = <<>> /\ reformatted = FALSE

\* Another program starts when no shell of the last one is left.
StartFirst == /\ waiting = <<>>
              /\ Start
              /\ UNCHANGED <<waiting, reformatted>>

\* The shell below ends, wait() returns, and the shell above goes on with the
\* memory it had.
Resume == /\ ~up
          /\ waiting # <<>>
          /\ LET last == Len(waiting)
             IN  /\ good' = waiting[last].good
                 /\ cwd' = waiting[last].cwd
                 /\ cwd_table' = waiting[last].cwd_table
                 /\ fd_cnt' = waiting[last].fd_cnt
                 /\ fd_map' = waiting[last].fd_map
                 /\ waiting' = SubSeq(waiting, 1, last - 1)
          /\ up' = TRUE
          /\ job' = Idle
          /\ UNCHANGED <<disk, reformatted>>

\* Everything that module VSFileSystem has.
Work == /\ Stop \/ Command \/ Continue
        /\ reformatted' = (reformatted \/ (waiting # <<>> /\ Mkfs))
        /\ UNCHANGED waiting

\* The binary is looked up as open does.
BeginRun(p, n) ==
    /\ fd_cnt + 1 < MaxFd
    /\ Begin(ParsePath(p), "run", n, "r")
    /\ UNCHANGED <<waiting, reformatted>>

\* "no such file": the current directory stays where cd left it.
RunMissing == /\ Arrived("run")
              /\ ~Found
              /\ job' = Idle
              /\ UNCHANGED <<disk, up, good, cwd, cwd_table, fd_cnt, fd_map>>
              /\ UNCHANGED <<waiting, reformatted>>

\* Fault: export_ goes on with the table that parseCmd looked in.
RunFound_NoLoad ==
    /\ Arrived("run")
    /\ Found
    /\ fd_cnt' = fd_cnt + 1
    /\ cwd' = job.saved
    /\ job' = [job EXCEPT !.op = "export", !.rest = job.path.dirs]
    /\ UNCHANGED <<disk, up, good, cwd_table, fd_map, waiting, reformatted>>

\* parseCmd opens and closes it, and export_ walks the path again, now from a
\* directory that has been loaded.
RunFound ==
    /\ Arrived("run")
    /\ Found
    /\ fd_cnt' = fd_cnt + 1
    /\ UNCHANGED <<disk, good, fd_map, waiting, reformatted>>
    /\ LET export == [job EXCEPT !.op = "export", !.rest = job.path.dirs]
       IN  IF job.path.abs THEN cwd' = Root /\ LoadTables(disk, job.saved, Root, export)
           ELSE cwd' = job.saved /\ LoadTable(disk, job.saved, export)

\* export_ opens and closes the binary once more.
ExportFound == /\ Arrived("export")
               /\ Found
               /\ fd_cnt' = fd_cnt + 1
               /\ cwd' = job.saved
               /\ UNCHANGED <<disk, good, fd_map>>
               /\ LoadTable(disk, cwd', Idle)

\* export_ does not find it, and leaves an empty host file.
ExportMissing == /\ Arrived("export")
                 /\ ~Found
                 /\ job' = Idle
                 /\ UNCHANGED <<disk, up, good, cwd, cwd_table, fd_cnt, fd_map>>

Exported == (ExportFound \/ ExportMissing) /\ UNCHANGED reformatted

\* The child runs the binary and ends.  (When fork fails the shell ends: Stop.)
RunBinary == Exported /\ UNCHANGED waiting

\* execvp fails, and the child is a shell.
RunShell == /\ Exported
            /\ up' /\ job' = Idle
            /\ Len(waiting) < MaxWaiting
            /\ waiting' = Append(waiting, Memory')

ShellsNext == \/ StartFirst \/ Resume \/ Work
              \/ \E p \in Path, n \in Target : BeginRun(p, n)
              \/ RunMissing \/ RunFound \/ RunBinary \/ RunShell

ShellsSpec == ShellsInit /\ [][ShellsNext]_shellsVars

-----------------------------------------------------------------------------
(* Properties *)

IsMemory(m) == /\ m.good \in BOOLEAN
               /\ m.cwd \in Inodes
               /\ IsTable(m.cwd_table)
               /\ m.fd_cnt \in Nat \cup {-1}
               /\ DOMAIN m.fd_map \subseteq 0 .. m.fd_cnt
               /\ m.fd_map \in [DOMAIN m.fd_map -> AnyId \cup {NoId}]

\* Every variable keeps its type.
ShellsTypeOK == /\ TypeOK
                /\ waiting \in Seq({m \in Range(waiting) : IsMemory(m)})
                /\ reformatted \in BOOLEAN

\* Whatever the shells below have created and removed, a shell goes on in a
\* directory that is on the disk, and the disk is sound; only mkfs typed below
\* it takes its directory away.
ShellsInv == reformatted \/ /\ Inv
                            /\ \A k \in DOMAIN waiting : waiting[k].cwd \in Initialised(disk)

\* An inode keeps its block, and stays the file or the directory it is, until
\* the disk is formatted: what the descriptors, the tables and the current
\* directory of a shell that waits mean is not changed below it.
FilesStay ==
    [][~Mkfs => \A i \in Initialised(disk) : disk'.node[i] = disk.node[i]]_shellsVars

\* While there is room on the disk, an inode that is handed out is unknown to
\* every shell: none has it as its current directory or in its table, though a
\* shell below may have removed what the table names.
FreshUnknown ==
    [][~reformatted /\ ~Full(disk) /\ ~Mkfs =>
          \A f \in Inodes : disk.imap[f] = 0 /\ disk'.imap[f] = 1 =>
              \A k \in DOMAIN waiting :
                  f # waiting[k].cwd /\ f \notin Range(waiting[k].cwd_table)]_shellsVars

\* A shell that goes on with an old table does not enter a second file under a
\* name that a shell below it has entered: the directory a file is created in
\* has been loaded again.  (Unless a path leaves the old table in use: "/n", of
\* which open keeps the bare name, and one whose first component is not found, as
\* "." is not after "rm .".)
NoSecondEntry ==
    [][~reformatted /\ OpenNew => job.file \notin DOMAIN TableAt(cwd)]_shellsVars

\* What is exported and run is what the directory names when it is exported,
\* though the name may have been looked up first in the table of a shell that
\* has waited, and the file removed or created again below it.
ExportIsCurrent ==
    [][ExportFound /\ InRange(disk, cwd) =>
          /\ job.file \in DOMAIN TableAt(cwd)
          /\ cwd_table[job.file] = TableAt(cwd)[job.file]]_shellsVars

=============================================================================
