------------------------------ MODULE ShellRpc ------------------------------
(***************************************************************************)
(* The remote shell (src/src/rpc): clients call over UDP, the server runs  *)
(* one process of the file system (src/src/fs/vsfs_rpc.cpp) per request    *)
(* and returns what that process has left in the file "tmp".               *)
(*                                                                         *)
(* A call is its client and its number; the command it carries is no part  *)
(* of it, what commands do is the subject of VSFileSystem and FileData.    *)
(* The RPC library is external: it sends a call again until an answer with *)
(* the call's number arrives or the time is over, and the server's part    *)
(* keeps no record of what it has answered.  Datagrams arrive in any order *)
(* and late; nothing makes one arrive, so that it may as well be lost.     *)
(***************************************************************************)
EXTENDS Integers, Sequences, FiniteSets

CONSTANTS Client,
          Faults,     \* what may go wrong: a subset of Fault
          MaxCalls,   \* bound: the number of calls of each client
          MaxSends    \* bound: how often the library sends a call before its time is over

\* fork fails; execvp fails; the process dies in its constructor, or in its command.
Fault == {"fork", "exec", "start", "abort"}

ASSUME RpcAssumption == Faults \subseteq Fault /\ MaxCalls \in [Client -> Nat] /\ MaxSends \in [Client -> Nat \ {0}]

\* A call is numbered by the library.
Call   == {call \in [from : Client, xid : Nat \ {0}] : call.xid <= MaxCalls[call.from]}
NoCall == [none |-> TRUE]

\* What "tmp" may be: missing, emptied and not yet written, or the result of a call.
NoFile == [file |-> FALSE]
Empty  == [file |-> TRUE]
Result == Call \cup {NoFile, Empty}

VARIABLES calls,      \* the client's last call, how often it was sent, and whether it waits
          requests,   \* the datagrams on their way to the server
          replies,    \* and on their way back
          phase,      \* what the serving process does
          req,        \* the datagram it serves
          chain,      \* those served by the processes that wait for it, oldest first
          fs,         \* the datagram whose command the file system's process runs
          tmp,        \* the file that it writes its output to
          ran,        \* history: the datagrams whose commands were begun, in order
          unstarted,  \* history: the calls for which no file system came up
          shown       \* history: what the clients were given for their calls

net     == <<requests, replies>>
server  == <<phase, req, chain>>
history == <<ran, unstarted, shown>>
vars    == <<calls, net, server, fs, tmp, history>>

Init == /\ calls = [c \in Client |-> [xid |-> 0, sent |-> 0, waits |-> FALSE]]
        /\ requests = {} /\ replies = {}
        /\ phase = "idle" /\ req = NoCall /\ chain = <<>>
        /\ fs = NoCall
        /\ tmp = NoFile
        /\ ran = <<>> /\ unstarted = {} /\ shown = {}

-----------------------------------------------------------------------------
(* The client *)

Current(c) == [from |-> c, xid |-> calls[c].xid]
Datagram(call, n) == [call |-> call, copy |-> n]

Begin(c) == /\ ~calls[c].waits
            /\ calls[c].xid < MaxCalls[c]
            /\ calls' = [calls EXCEPT ![c] = [xid |-> @.xid + 1, sent |-> 1, waits |-> TRUE]]
            /\ requests' = requests \cup {Datagram(Current(c)', 1)}
            /\ UNCHANGED <<replies, server, fs, tmp, history>>

\* Fault: once more than the time allows.
Resend_OneMore(c) == /\ calls[c].waits
                     /\ calls[c].sent <= MaxSends[c]
                     /\ calls' = [calls EXCEPT ![c].sent = @ + 1]
                     /\ requests' = requests \cup {Datagram(Current(c), calls'[c].sent)}
                     /\ UNCHANGED <<replies, server, fs, tmp, history>>

Resend(c) == /\ calls[c].waits
             /\ calls[c].sent < MaxSends[c]
             /\ calls' = [calls EXCEPT ![c].sent = @ + 1]
             /\ requests' = requests \cup {Datagram(Current(c), calls'[c].sent)}
             /\ UNCHANGED <<replies, server, fs, tmp, history>>

\* The answer is printed.  Without a result it is an error, and "call failed" is.
Answered(c) == /\ calls[c].waits
               /\ \E m \in replies :
                     /\ m.call = Current(c)
                     /\ replies' = replies \ {m}
                     /\ shown' = shown \cup {[call |-> m.call, res |-> m.res]}
               /\ calls' = [calls EXCEPT ![c].waits = FALSE]
               /\ UNCHANGED <<requests, server, fs, tmp, ran, unstarted>>

\* "call failed": the time is over.
TimedOut(c) == /\ calls[c].waits
               /\ calls[c].sent = MaxSends[c]
               /\ calls' = [calls EXCEPT ![c].waits = FALSE]
               /\ UNCHANGED <<net, server, fs, tmp, history>>

-----------------------------------------------------------------------------
(* The server *)

\* Faults: the server does not wait for the process; the request is not taken
\* from the socket.
Fork_NoWait == /\ phase = "idle"
               /\ fs = NoCall
               /\ req' \in requests
               /\ requests' = requests \ {req'}
               /\ fs' = req'
               /\ phase' = "replies"
               /\ UNCHANGED <<calls, replies, chain, tmp, history>>
Fork_KeepsRequest == /\ phase = "idle"
                     /\ req' \in requests
                     /\ fs' = req'
                     /\ phase' = "waits"
                     /\ UNCHANGED <<calls, net, chain, tmp, history>>

Fork == /\ phase = "idle"
        /\ req' \in requests
        /\ requests' = requests \ {req'}
        /\ fs' = req'
        /\ phase' = "waits"
        /\ UNCHANGED <<calls, replies, chain, tmp, history>>

\* The child of a failed execvp returns from execfs and goes on as the server,
\* while the server waits for its end.
ExecFails == /\ "exec" \in Faults
             /\ phase = "idle"
             /\ req' \in requests
             /\ requests' = requests \ {req'}
             /\ phase' = "replies"
             /\ chain' = Append(chain, req')
             /\ unstarted' = unstarted \cup {req'.call}
             /\ UNCHANGED <<calls, replies, fs, tmp, ran, shown>>

\* The serving process ends.  The one that waits for it, if any, then answers its own request.
ServerEnds == IF chain = <<>> THEN phase' = "down" /\ req' = NoCall /\ UNCHANGED chain
              ELSE /\ phase' = "replies"
                   /\ req' = chain[Len(chain)]
                   /\ chain' = SubSeq(chain, 1, Len(chain) - 1)

ForkFails == /\ "fork" \in Faults
             /\ phase = "idle"
             /\ \E m \in requests : requests' = requests \ {m}
             /\ ServerEnds
             /\ UNCHANGED <<calls, replies, fs, tmp, history>>

\* Without the file there is no result to encode, and the answer is an error.
Reply == /\ phase = "replies"
         /\ replies' = replies \cup {[call |-> req.call, res |-> tmp]}
         /\ phase' = "idle"
         /\ req' = NoCall
         /\ UNCHANGED <<calls, requests, chain, fs, tmp, history>>

\* But printf has been given a null pointer first.
ReplyCrashes == /\ phase = "replies"
                /\ tmp = NoFile
                /\ ServerEnds
                /\ UNCHANGED <<calls, net, fs, tmp, history>>

-----------------------------------------------------------------------------
(* The process of the file system.  The constructor comes before rpc(), which *)
(* opens "tmp" and so empties it, and closes it after the command.            *)

\* wait returns in the server.
FsGone == fs' = NoCall /\ phase' = IF phase = "waits" THEN "replies" ELSE phase

FsDies == /\ "start" \in Faults
          /\ fs # NoCall
          /\ FsGone
          /\ unstarted' = unstarted \cup {fs.call}
          /\ UNCHANGED <<calls, net, req, chain, tmp, ran, shown>>

\* Fault: the output is written, and what the command wrote to the disk is not.
FsEnds_LosesWrites == /\ fs # NoCall
                      /\ tmp' = fs.call
                      /\ FsGone
                      /\ UNCHANGED <<calls, net, req, chain, history>>

\* The command of a call that was sent twice is run twice.
FsEnds == /\ fs # NoCall
          /\ ran' = Append(ran, fs)
          /\ tmp' = fs.call
          /\ FsGone
          /\ UNCHANGED <<calls, net, req, chain, unstarted, shown>>

\* The command is cut short, or its output is not written.
FsAborts == /\ "abort" \in Faults
            /\ fs # NoCall
            /\ ran' = Append(ran, fs)
            /\ tmp' = Empty
            /\ FsGone
            /\ UNCHANGED <<calls, net, req, chain, unstarted, shown>>

-----------------------------------------------------------------------------

Next == \/ \E c \in Client : Begin(c) \/ Resend(c) \/ Answered(c) \/ TimedOut(c)
        \/ Fork \/ ExecFails \/ ForkFails \/ Reply \/ ReplyCrashes
        \/ FsDies \/ FsEnds \/ FsAborts

Spec == Init /\ [][Next]_vars
=============================================================================
