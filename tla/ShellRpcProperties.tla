------------------------- MODULE ShellRpcProperties -------------------------
(***************************************************************************)
(* What a client of the remote shell may take an answer for.               *)
(***************************************************************************)
EXTENDS ShellRpc

Request == [call : Call, copy : Nat]

\* Every variable keeps its type.
TypeOK == /\ calls \in [Client -> [xid : Nat, sent : Nat, waits : BOOLEAN]]
          /\ \A c \in Client : calls[c].xid <= MaxCalls[c] /\ calls[c].sent <= MaxSends[c]
          /\ requests \subseteq Request
          /\ replies \subseteq [call : Call, res : Result]
          /\ phase \in {"idle", "waits", "replies", "down"}
          /\ req \in Request \cup {NoCall}
          /\ chain \in Seq(Request)
          /\ fs \in Request \cup {NoCall}
          /\ tmp \in Result
          /\ ran \in Seq(Request)
          /\ unstarted \subseteq Call
          /\ shown \subseteq [call : Call, res : Result]

\* The call's result; nothing, where the command has aborted; "call failed".
Honest(s) == s.res \in {s.call, Empty, NoFile}

\* "When the command is executed, result is returned to rpc server and then to
\* rpc client" (README): a result that a client is given for a call is that call's.
ResultIsOwn == \A s \in shown : Honest(s)

\* Messages lost, repeated and out of order, several clients, processes that
\* abort and servers that end never give a client the result of another call;
\* only a file system that has not come up does.
OwnIfStarted == \A s \in shown : Honest(s) \/ s.call \in unstarted

RunsOf(call) == {k \in DOMAIN ran : ran[k].call = call}
GivenOwn     == {s.call : s \in {t \in shown : t.res = t.call}}

\* A command whose result was given has been run, and before any run of a later
\* command of that client: repeated requests do not let a call overtake.
AnsweredInOrder ==
    \A call \in GivenOwn :
        \E k \in RunsOf(call) : \A l \in DOMAIN ran :
            ran[l].call.from = call.from /\ ran[l].call.xid > call.xid => k < l

\* Nothing keeps a command from running again when its call was sent again, not
\* even behind a later one; but one datagram is run once, whichever server takes
\* it and whichever answers: no command runs more often than its call was sent.
RunsOncePerSend ==
    /\ \A k, l \in DOMAIN ran : ran[k] = ran[l] => k = l
    /\ \A k \in DOMAIN ran : ran[k].copy \in 1 .. MaxSends[ran[k].call.from]
=============================================================================
