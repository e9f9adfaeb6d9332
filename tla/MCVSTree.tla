------------------------------- MODULE MCVSTree -------------------------------
(* Instances of VSTree, the shells and tree on one disk, for TLC. *)
EXTENDS VSTree

CONSTANTS foo, bar

Relative(seq) == [abs |-> FALSE, dirs |-> seq]
Absolute(seq) == [abs |-> TRUE, dirs |-> seq]

\* A bare name; the parent; the directories /foo and /foo/foo.
Around == {Relative(<<>>), Relative(<<"..">>), Absolute(<<foo>>), Absolute(<<foo, foo>>)}

\* A bare name, and "/name", which looks in the table as it is.
AsItIs == {Relative(<<>>), Absolute(<<>>)}

OneName  == {foo}
TwoNames == {foo, bar}

\* Sound where no path has a name in it.
MCSymmetry == Permutations({foo, bar})

\* What follows mkfs below a shell that waits is not explored.
NotReformatted == ~reformatted

\* Only a run walks its path twice.
WithPath(j) == IF j.op = "run" \/ j \in {Idle, Adrift} THEN j
               ELSE [j EXCEPT !.path = Relative(<<>>)]

\* The memory of a process that has ended is gone, and descriptors change no
\* step as long as MaxFd is out of reach.
WithoutFds(m) == <<m.good, m.cwd, m.cwd_table>>
MCView == <<disk, up, IF up THEN <<good, cwd, cwd_table, WithPath(job), walk, shown>> ELSE <<>>,
            [k \in DOMAIN waiting |-> WithoutFds(waiting[k])], reformatted>>
=============================================================================
