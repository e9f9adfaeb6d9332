------------------------------ MODULE MCVSCrash ------------------------------
(* Instances of VSCrash for TLC. *)
EXTENDS VSCrash

CONSTANTS foo, bar

\* A bare name, and a name in the directory /foo.
BareOnly == {[abs |-> FALSE, dirs |-> <<>>]}
Below    == BareOnly \cup {[abs |-> TRUE, dirs |-> <<foo>>]}

OneName  == {foo}
TwoNames == {foo, bar}

\* Sound where every path is a bare name.
MCSymmetry == Permutations({foo, bar})

\* The memory of a process that has ended is gone: Start sets all of it.  While
\* MaxFd is out of reach descriptors change no step.  Which command wrote last
\* matters while it has writes to come.
MCView == <<disk, up, IF up THEN <<good, cwd, cwd_table, job>> ELSE <<>>, media, todo,
            IF todo = <<>> THEN "mkfs" ELSE op, cuts>>
=============================================================================
