-------------------------------- MODULE VSTree --------------------------------
(***************************************************************************)
(* The command tree: tree_inner (src/src/fs/vsfs.cpp) loads a directory    *)
(* into a table of its own, prints its names, and calls itself for every   *)
(* directory among them.  The stack of its calls is `walk`, and `shown` is *)
(* what it has printed; every name printed and every return is a step.     *)
(*                                                                         *)
(* The table of a directory is in the order of the names, here they are    *)
(* printed in any order.  (ls prints cwd_table and changes no state.)      *)
(***************************************************************************)
EXTENDS VSShells, SequencesExt

VARIABLES walk,   \* the calls of tree_inner, the innermost last: what they have yet to print
          shown   \* the inodes printed

treeVars == <<shellsVars, walk, shown>>

-----------------------------------------------------------------------------

\* Fault: "." is printed and entered as the other names are.
Listed_WithDot(t) == [n \in DOMAIN t \ {".."} |-> t[n]]

\* The names of a table that are printed.
Listed(t) == [n \in DOMAIN t \ {".", ".."} |-> t[n]]

\* loadDirTable reads what loadCwdTable reads: the process may die or be lost.
Call(calls, i) ==
    \E r \in Loads(disk, good, i) :
        /\ up' = r.up
        /\ job' = IF r.lost THEN Adrift ELSE job
        /\ walk' = IF r.up /\ ~r.lost THEN Append(calls, Listed(r.table)) ELSE <<>>

TreeInit == ShellsInit /\ walk = <<>> /\ shown = <<>>

UnchangedShell == UNCHANGED <<disk, good, cwd, cwd_table, fd_cnt, fd_map, waiting, reformatted>>

\* The other commands; between them nothing is left of a tree.
OtherCommand == walk = <<>> /\ ShellsNext /\ UNCHANGED <<walk, shown>>

BeginTree == /\ Ready
             /\ walk = <<>>
             /\ Call(<<>>, cwd)
             /\ UNCHANGED shown
             /\ UnchangedShell

\* The calls, with name n of the innermost one printed.
Rest(n) == Front(walk) \o <<[m \in DOMAIN Last(walk) \ {n} |-> Last(walk)[m]]>>

IsFile(i) == i \in Inodes /\ ~IsDirectory(i)

ShowFile(n) == /\ IsFile(Last(walk)[n])
               /\ walk' = Rest(n)
               /\ UNCHANGED <<up, job>>

ShowDirectory(n) == ~IsFile(Last(walk)[n]) /\ Call(Rest(n), Last(walk)[n])

Show(n) == /\ ShowFile(n) \/ ShowDirectory(n)
           /\ shown' = IF walk' = <<>> THEN <<>> ELSE Append(shown, Last(walk)[n])
           /\ UnchangedShell

\* Fault: the innermost call returns with the names of a directory left.
Return_Early == /\ walk' = Front(walk)
                /\ shown' = IF walk' = <<>> THEN <<>> ELSE shown
                /\ UNCHANGED <<up, job>>
                /\ UnchangedShell

\* The innermost call returns.
Return == /\ DOMAIN Last(walk) = {}
          /\ walk' = Front(walk)
          /\ shown' = IF walk' = <<>> THEN <<>> ELSE shown
          /\ UNCHANGED <<up, job>>
          /\ UnchangedShell

\* The process ends in the middle of a tree.
StopTree == /\ walk # <<>>
            /\ Stop
            /\ walk' = <<>>
            /\ shown' = <<>>
            /\ UNCHANGED <<waiting, reformatted>>

Walk == walk # <<>> /\ (Return \/ \E n \in DOMAIN Last(walk) : Show(n))

TreeNext == OtherCommand \/ BeginTree \/ Walk \/ StopTree

TreeSpec == TreeInit /\ [][TreeNext]_treeVars

-----------------------------------------------------------------------------
(* Properties *)

\* No counter is above the entries of its directory: the loader reads no entry
\* that is not there.
NoOverrun == \A i \in Directories : DirOf(i).cnt <= Cardinality(Live(DirOf(i)))

\* What the names in directory i mean.
ListedIn(i) == Range(Listed(TableAt(i)))

\* With a directory, S has what the directory's names mean.
ClosedByNames(S) == \A i \in S \cap Directories : ListedIn(i) \subseteq S

\* The inodes below directory i that a walk by names comes to: those in every
\* set that has i and cannot be left by a name.
ReachableFrom(i) ==
    {j \in Inodes \ {i} : \A S \in SUBSET Inodes : i \in S /\ ClosedByNames(S) => j \in S}

\* tree prints no file and no directory twice, so that its recursion comes to an
\* end, after at most as many names as there are inodes; unless a full disk has
\* put a counter above its entries.
TreeShowsOnce == NoOverrun => IsInjective(shown)

\* When tree is about to return, it has printed everything that a cd or an open
\* below the current directory can reach by name.
TreeShowsAll ==
    NoOverrun /\ Len(walk) = 1 /\ DOMAIN Last(walk) = {} => Range(shown) = ReachableFrom(cwd)

=============================================================================
