------------------------------ MODULE FileTape ------------------------------
(***************************************************************************)
(* What a user of open, seek, read, write, import and close sees of the    *)
(* files: a file is a tape of words, continuous and zero where nothing was *)
(* written, with a size; a descriptor is a file and an offset.  A write    *)
(* may be cut short by the end of the process; what it has put behind the  *)
(* size is then kept or lost, and nothing else changes.                    *)
(*                                                                         *)
(* Two things are as the code has them and not as they are documented:     *)
(* every open starts at offset 0, that of an existing file for writing     *)
(* too, and an import over a longer file leaves the rest of it in place    *)
(* (OpensAtEnd and ImportedIsWhole in module FileProperties).              *)
(***************************************************************************)
EXTENDS Integers, Sequences

CONSTANTS File,       \* the files
          Fd,         \* the descriptors
          Data,       \* the sequences of words that are written
          MaxOffset   \* bound: the offsets of a tape are below it

VARIABLES size,     \* file -> its size
          tape,     \* file -> offset -> word
          fds,      \* descriptor -> its file and offset
          writing   \* the write under way

vars == <<size, tape, fds, writing>>

Offset == 0 .. MaxOffset - 1
NoWrite == [idle |-> TRUE]

Init == /\ size = [f \in File |-> 0]
        /\ tape = [f \in File |-> [p \in Offset |-> 0]]
        /\ fds = [fd \in {} |-> 0]
        /\ writing = NoWrite

Ready == writing = NoWrite

With(fd, f, at) == [g \in DOMAIN fds \cup {fd} |-> IF g = fd THEN [file |-> f, off |-> at] ELSE fds[g]]
Without(fd)     == [g \in DOMAIN fds \ {fd} |-> fds[g]]

Open(fd, f) == /\ Ready
               /\ fd \notin DOMAIN fds
               /\ fds' = With(fd, f, 0)
               /\ UNCHANGED <<size, tape, writing>>

Close(fd) == /\ Ready
             /\ fds' = Without(fd)
             /\ UNCHANGED <<size, tape, writing>>

\* seek, and read: the offset moves, the file stays.
Move(fd, at) == /\ Ready
                /\ fds' = With(fd, fds[fd].file, at)
                /\ UNCHANGED <<size, tape, writing>>

Write(fd, data) == /\ Ready
                   /\ writing' = [fd |-> fd, at |-> fds[fd].off, left |-> data, closes |-> FALSE]
                   /\ UNCHANGED <<size, tape, fds>>

Import(fd, f, data) == /\ Ready
                       /\ fd \notin DOMAIN fds
                       /\ fds' = With(fd, f, 0)
                       /\ writing' = [fd |-> fd, at |-> 0, left |-> data, closes |-> TRUE]
                       /\ UNCHANGED <<size, tape>>

Target == fds[writing.fd].file

\* The next n words are put on the tape.
Put(n) == /\ ~Ready
          /\ n \in 1 .. Len(writing.left)
          /\ tape' = [tape EXCEPT ![Target] =
                        [p \in Offset |-> IF p \in writing.at .. writing.at + n - 1
                                          THEN writing.left[p - writing.at + 1] ELSE @[p]]]
          /\ writing' = [writing EXCEPT !.at = @ + n, !.left = SubSeq(@, n + 1, Len(@))]
          /\ UNCHANGED <<size, fds>>

\* All is written: the file has grown, the descriptor has moved or is closed.
EndWrite == /\ ~Ready
            /\ writing.left = <<>>
            /\ size' = [size EXCEPT ![Target] = IF writing.at > @ THEN writing.at ELSE @]
            /\ fds' = IF writing.closes THEN Without(writing.fd)
                      ELSE With(writing.fd, Target, writing.at)
            /\ writing' = NoWrite
            /\ UNCHANGED tape

Restart == /\ fds' = [fd \in {} |-> 0]
           /\ writing' = NoWrite
           /\ DOMAIN tape' = File
           /\ \A f \in File : /\ DOMAIN tape'[f] = Offset
                              /\ \A p \in Offset :
                                    \/ tape'[f][p] = tape[f][p]
                                    \/ p >= size[f] /\ tape'[f][p] = 0
           /\ UNCHANGED size

Next == \/ \E fd \in Fd, f \in File : Open(fd, f)
        \/ \E fd \in DOMAIN fds : Close(fd)
        \/ \E fd \in DOMAIN fds, at \in 0 .. MaxOffset : Move(fd, at)
        \/ \E fd \in DOMAIN fds, data \in Data : Write(fd, data)
        \/ \E fd \in Fd, f \in File, data \in Data : Import(fd, f, data)
        \/ \E n \in 1 .. MaxOffset : Put(n)
        \/ EndWrite
        \/ Restart

Spec == Init /\ [][Next]_vars
=============================================================================
