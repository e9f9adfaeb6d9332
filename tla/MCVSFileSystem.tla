--------------------------- MODULE MCVSFileSystem ---------------------------
(* Instances of VSFileSystem for TLC. *)
EXTENDS VSProperties, TLC

CONSTANTS foo, bar

Relative(seq) == [abs |-> FALSE, dirs |-> seq]
Absolute(seq) == [abs |-> TRUE, dirs |-> seq]

\* A bare name; and a name in the subdirectory foo; and one in foo/foo.
BareOnly == {Relative(<<>>)}
Below    == BareOnly \cup {Relative(<<foo>>)}
Deep     == BareOnly \cup {Relative(<<foo, foo>>)}

OneName  == {foo}
TwoNames == {foo, bar}

\* Sound where every path is a bare name: the others name foo only.
MCSymmetry == Permutations({foo, bar})

\* The memory of a process that has ended is gone: Start sets all of it.
MCView == IF up THEN vars ELSE <<disk, up, good>>
=============================================================================
