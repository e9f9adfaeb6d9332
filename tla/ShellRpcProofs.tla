--------------------------- MODULE ShellRpcProofs ---------------------------
(***************************************************************************)
(* The properties of the remote shell, for any clients, any numbers of     *)
(* calls and repetitions, and any set of faults.                           *)
(***************************************************************************)
EXTENDS ShellRpcProperties, SequenceTheorems, TLAPS

-----------------------------------------------------------------------------
(* Types *)

\* A process that serves has a request to serve; a file system runs for the one
\* that is waited for, and for no other.
Serving == /\ phase \in {"waits", "replies"} => req \in Request
           /\ phase = "waits" => fs = req
           /\ phase # "waits" => fs = NoCall

\* A client that waits has made a call.
Numbered == \A c \in Client : calls[c].waits => calls[c].xid # 0

Typed == TypeOK /\ Serving /\ Numbered

LEMMA NoneIsRequest == NoCall \notin Request
<1>1. ASSUME NEW m \in Request PROVE m # NoCall
  <2>1. DOMAIN m = {"call", "copy"}
    BY DEF Request
  <2>2. DOMAIN NoCall = {"none"} /\ "none" \notin {"call", "copy"}
    BY DEF NoCall
  <2> QED
    BY <2>1, <2>2
<1> QED
  BY <1>1

\* A command begun, perhaps for a second time.
LEMMA RunType ==
    ASSUME ran \in Seq(Request), NEW m \in Request, ran' = Append(ran, m)
    PROVE  /\ ran' \in Seq(Request)
           /\ DOMAIN ran \subseteq DOMAIN ran'
           /\ \A k \in DOMAIN ran : ran'[k] = ran[k]
           /\ \A k \in DOMAIN ran' : k \in DOMAIN ran \/ ran'[k] = m
           /\ \A k \in DOMAIN ran, l \in DOMAIN ran' : l \in DOMAIN ran \/ k < l
           /\ \A k, l \in DOMAIN ran' : k \in DOMAIN ran \/ l \in DOMAIN ran \/ k = l
           /\ \E k \in DOMAIN ran' : ran'[k] = m
<1>1. /\ Append(ran, m) \in Seq(Request)
      /\ Len(Append(ran, m)) = Len(ran) + 1
      /\ \A k \in 1 .. Len(ran) : Append(ran, m)[k] = ran[k]
      /\ Append(ran, m)[Len(ran) + 1] = m
  BY AppendProperties
<1>2. /\ DOMAIN ran = 1 .. Len(ran) /\ Len(ran) \in Nat
      /\ DOMAIN Append(ran, m) = 1 .. Len(ran) + 1
  BY <1>1, LenProperties
<1> QED
  BY <1>1, <1>2

\* What becomes of the datagram when the file system's process has ended.
LEMMA FsServes ==
    ASSUME Serving, fs # NoCall
    PROVE  phase = "waits" /\ fs = req /\ req \in Request
BY DEF Serving

\* The call of the client.
LEMMA CurrentCall ==
    ASSUME TypeOK, NEW c \in Client, calls[c].xid # 0
    PROVE  Current(c) \in Call
BY DEF TypeOK, Current, Call

\* The server that waited takes over, with the request it serves.
LEMMA ServerEndsType ==
    ASSUME chain \in Seq(Request), ServerEnds
    PROVE  /\ chain' \in Seq(Request)
           /\ phase' \in {"replies", "down"}
           /\ req' \in Request \cup {NoCall}
           /\ phase' = "replies" => req' \in Request /\ \E k \in DOMAIN chain : req' = chain[k]
           /\ \A k \in DOMAIN chain' : k \in DOMAIN chain /\ chain'[k] = chain[k]
<1>1. CASE chain = <<>>
  BY <1>1 DEF ServerEnds
<1>2. CASE chain # <<>>
  <2> DEFINE last == Len(chain)
  <2>1. last \in Nat /\ last > 0 /\ DOMAIN chain = 1 .. last
    BY <1>2, EmptySeq, LenProperties
  <2>2. chain[last] \in Request
    BY <2>1, ElementOfSeq
  <2>3. /\ SubSeq(chain, 1, last - 1) \in Seq(Request)
        /\ Len(SubSeq(chain, 1, last - 1)) = last - 1
        /\ \A k \in 1 .. last - 1 : SubSeq(chain, 1, last - 1)[k] = chain[k]
    BY <2>1, SubSeqProperties
  <2>4. DOMAIN SubSeq(chain, 1, last - 1) = 1 .. last - 1
    BY <2>1, <2>3, LenProperties
  <2>5. phase' = "replies" /\ req' = chain[last] /\ chain' = SubSeq(chain, 1, last - 1)
    BY <1>2 DEF ServerEnds
  <2> QED
    BY <2>1, <2>2, <2>3, <2>4, <2>5
<1> QED
  BY <1>1, <1>2

LEMMA InitTyped == Init => Typed
BY RpcAssumption, EmptySeq DEF Init, Typed, TypeOK, Serving, Numbered, Call, Result

LEMMA NextTyped == Typed /\ [Next]_vars => Typed'
<1> SUFFICES ASSUME Typed, [Next]_vars PROVE Typed'
  OBVIOUS
<1> USE DEF Typed, Serving, Numbered, net, server, history
<1>1. TypeOK
  OBVIOUS
<1>2. ASSUME NEW c \in Client, Begin(c) PROVE Typed'
  <2>1. calls[c].xid \in Nat /\ MaxCalls[c] \in Nat /\ MaxSends[c] \in Nat \ {0}
    BY RpcAssumption, <1>1 DEF TypeOK
  <2>2. calls' = [calls EXCEPT ![c] = [xid |-> calls[c].xid + 1, sent |-> 1, waits |-> TRUE]]
    BY <1>2 DEF Begin
  <2>3. calls'[c] = [xid |-> calls[c].xid + 1, sent |-> 1, waits |-> TRUE]
    BY <1>1, <2>2 DEF TypeOK
  <2>4. [from |-> c, xid |-> calls'[c].xid] \in Call
    BY <1>2, <2>1, <2>3 DEF Call, Begin
  <2>5. requests' \subseteq Request
    BY <1>1, <1>2, <2>4 DEF Begin, Current, Datagram, Request, TypeOK
  <2>6. /\ calls' \in [Client -> [xid : Nat, sent : Nat, waits : BOOLEAN]]
        /\ \A d \in Client : calls'[d].xid <= MaxCalls[d] /\ calls'[d].sent <= MaxSends[d]
    <3>1. calls'[c].xid <= MaxCalls[c] /\ calls'[c].sent <= MaxSends[c]
      BY <1>2, <2>1, <2>3 DEF Begin
    <3>2. [xid |-> calls[c].xid + 1, sent |-> 1, waits |-> TRUE] \in [xid : Nat, sent : Nat, waits : BOOLEAN]
      BY <2>1
    <3> QED
      BY <1>1, <2>2, <3>1, <3>2 DEF TypeOK
  <2> QED
    BY <1>1, <1>2, <2>5, <2>6 DEF Begin, TypeOK
<1>3. ASSUME NEW c \in Client, Resend(c) PROVE Typed'
  <2>1. /\ calls[c] \in [xid : Nat, sent : Nat, waits : BOOLEAN]
        /\ calls[c].sent < MaxSends[c]
        /\ MaxSends[c] \in Nat
    BY RpcAssumption, <1>1, <1>3 DEF Resend, TypeOK
  <2>2. calls' = [calls EXCEPT ![c].sent = calls[c].sent + 1]
    BY <1>3 DEF Resend
  <2>3. /\ calls' \in [Client -> [xid : Nat, sent : Nat, waits : BOOLEAN]]
        /\ \A d \in Client : calls'[d].xid <= MaxCalls[d] /\ calls'[d].sent <= MaxSends[d]
        /\ \A d \in Client : calls'[d].xid = calls[d].xid /\ calls'[d].waits = calls[d].waits
    <3> DEFINE new == [calls[c] EXCEPT !.sent = calls[c].sent + 1]
    <3>1. /\ new \in [xid : Nat, sent : Nat, waits : BOOLEAN]
          /\ new.xid = calls[c].xid /\ new.waits = calls[c].waits
          /\ new.sent = calls[c].sent + 1
      BY <2>1
    <3>2. calls' = [calls EXCEPT ![c] = new]
      BY <2>2
    <3>3. new.sent <= MaxSends[c]
      BY <2>1, <3>1
    <3> HIDE DEF new
    <3> QED
      BY <1>1, <3>1, <3>2, <3>3 DEF TypeOK
  <2>4. calls[c].xid # 0
    BY <1>1, <1>3 DEF Resend
  <2>5. Datagram(Current(c), calls'[c].sent) \in Request
    BY <1>1, <2>3, <2>4, CurrentCall DEF Datagram, Request
  <2> QED
    BY <1>1, <1>3, <2>3, <2>5 DEF Resend, TypeOK
<1>4. ASSUME NEW c \in Client, Answered(c) PROVE Typed'
  <2>1. calls' \in [Client -> [xid : Nat, sent : Nat, waits : BOOLEAN]]
        /\ \A d \in Client : calls'[d].xid = calls[d].xid /\ calls'[d].sent = calls[d].sent
    BY <1>1, <1>4 DEF Answered, TypeOK
  <2>2. replies' \subseteq replies
    BY <1>4 DEF Answered
  <2>3. shown' \subseteq [call : Call, res : Result]
    BY <1>1, <1>4 DEF Answered, TypeOK
  <2> QED
    BY <1>1, <1>4, <2>1, <2>2, <2>3 DEF Answered, TypeOK
<1>5. ASSUME NEW c \in Client, TimedOut(c) PROVE Typed'
  <2>1. calls' \in [Client -> [xid : Nat, sent : Nat, waits : BOOLEAN]]
        /\ \A d \in Client : calls'[d].xid = calls[d].xid /\ calls'[d].sent = calls[d].sent
    BY <1>1, <1>5 DEF TimedOut, TypeOK
  <2> QED
    BY <1>1, <1>5, <2>1 DEF TimedOut, TypeOK
<1>6. CASE Fork
  BY <1>1, <1>6 DEF Fork, TypeOK
<1>7. CASE ExecFails
  <2>1. req' \in Request /\ requests' \subseteq requests /\ req'.call \in Call
    BY <1>1, <1>7 DEF ExecFails, TypeOK, Request
  <2>2. chain' \in Seq(Request)
    BY <1>1, <1>7, <2>1, AppendProperties DEF ExecFails, TypeOK
  <2> QED
    BY <1>1, <1>7, <2>1, <2>2 DEF ExecFails, TypeOK
<1>8. CASE ForkFails
  <2>1. ServerEnds /\ fs' = fs /\ phase = "idle"
    BY <1>8 DEF ForkFails
  <2> QED
    BY <1>1, <1>8, <2>1, ServerEndsType DEF ForkFails, TypeOK
<1>9. CASE Reply
  BY <1>1, <1>9 DEF Reply, TypeOK, Request
<1>10. CASE ReplyCrashes
  BY <1>1, <1>10, ServerEndsType DEF ReplyCrashes, TypeOK
<1>11. CASE FsDies
  <2>1. req \in Request /\ req.call \in Call /\ fs = req /\ phase = "waits"
    BY <1>11, FsServes DEF FsDies, Request
  <2> QED
    BY <1>1, <1>11, <2>1 DEF FsDies, FsGone, TypeOK
<1>12. ASSUME FsEnds \/ FsAborts PROVE Typed'
  <2>1. req \in Request /\ req.call \in Call /\ fs = req /\ phase = "waits"
    BY <1>12, FsServes DEF FsEnds, FsAborts, Request
  <2>2. ran' \in Seq(Request)
    BY <1>1, <1>12, <2>1, RunType DEF FsEnds, FsAborts, TypeOK
  <2> QED
    BY <1>1, <1>12, <2>1, <2>2 DEF FsEnds, FsAborts, FsGone, TypeOK, Result
<1>13. CASE UNCHANGED vars
  BY <1>1, <1>13 DEF vars, TypeOK
<1> QED
  BY <1>2, <1>3, <1>4, <1>5, <1>6, <1>7, <1>8, <1>9, <1>10, <1>11, <1>12, <1>13 DEF Next

LEMMA TypedCorrect == Spec => []Typed
BY InitTyped, NextTyped, PTL DEF Spec

\* Every variable keeps its type: no server serves what is no request, and no call
\* is sent more often than its time allows.
THEOREM RpcTypeCorrect == Spec => []TypeOK
<1>1. Typed => TypeOK
  BY DEF Typed
<1> QED
  BY <1>1, TypedCorrect, PTL

-----------------------------------------------------------------------------
(* Whose result an answer has *)

\* res may be given for a call.
Fits(call, res) == res \in {call, Empty, NoFile} \/ call \in unstarted

\* What has been shown, is on its way to be shown, or may be sent; the servers
\* that wait have started no file system.
AnswersFit == /\ \A s \in shown : Fits(s.call, s.res)
              /\ \A m \in replies : Fits(m.call, m.res)
              /\ phase = "replies" => Fits(req.call, tmp)
              /\ \A k \in DOMAIN chain : chain[k].call \in unstarted

LEMMA InitFit == Init => AnswersFit
BY EmptySeq DEF Init, AnswersFit

LEMMA NextFit == Typed /\ AnswersFit /\ [Next]_vars => AnswersFit'
<1> SUFFICES ASSUME Typed, AnswersFit, [Next]_vars PROVE AnswersFit'
  OBVIOUS
<1> USE DEF AnswersFit, Fits, net, server, history
<1>1. chain \in Seq(Request)
  BY DEF Typed, TypeOK
<1>2. ASSUME NEW c \in Client, Begin(c) \/ Resend(c) \/ TimedOut(c) PROVE AnswersFit'
  BY <1>2 DEF Begin, Resend, TimedOut
<1>3. ASSUME NEW c \in Client, Answered(c) PROVE AnswersFit'
  <2>1. PICK m \in replies : /\ replies' = replies \ {m}
                             /\ shown' = shown \cup {[call |-> m.call, res |-> m.res]}
    BY <1>3 DEF Answered
  <2> QED
    BY <1>3, <2>1 DEF Answered
<1>4. CASE Fork
  BY <1>4 DEF Fork
<1>5. CASE ExecFails
  <2>1. req' \in Request
    BY <1>5 DEF ExecFails, Typed, TypeOK
  <2>2. /\ Len(Append(chain, req')) = Len(chain) + 1
        /\ Append(chain, req') \in Seq(Request)
        /\ \A k \in 1 .. Len(chain) : Append(chain, req')[k] = chain[k]
        /\ Append(chain, req')[Len(chain) + 1] = req'
    BY <1>1, <2>1, AppendProperties
  <2>3. /\ DOMAIN chain = 1 .. Len(chain) /\ Len(chain) \in Nat
        /\ DOMAIN Append(chain, req') = 1 .. Len(chain) + 1
    BY <1>1, <2>2, LenProperties
  <2>4. \A k \in DOMAIN chain' : chain'[k].call \in unstarted'
    BY <1>5, <2>2, <2>3 DEF ExecFails
  <2> QED
    BY <1>5, <2>4 DEF ExecFails
<1>6. CASE ForkFails
  BY <1>1, <1>6, ServerEndsType DEF ForkFails
<1>7. CASE Reply
  BY <1>7 DEF Reply
<1>8. CASE ReplyCrashes
  BY <1>1, <1>8, ServerEndsType DEF ReplyCrashes
<1>9. CASE FsDies
  BY <1>9, FsServes DEF FsDies, FsGone, Typed
<1>10. CASE FsEnds
  BY <1>10, FsServes DEF FsEnds, FsGone, Typed
<1>11. CASE FsAborts
  BY <1>11, FsServes DEF FsAborts, FsGone, Typed
<1>12. CASE UNCHANGED vars
  BY <1>12 DEF vars
<1> QED
  BY <1>2, <1>3, <1>4, <1>5, <1>6, <1>7, <1>8, <1>9, <1>10, <1>11, <1>12 DEF Next

\* However datagrams are lost, repeated and delayed, whoever calls, and whatever
\* fails: a client is never given a result of another call for one whose file
\* system came up.
THEOREM OwnCorrect == Spec => []OwnIfStarted
<1>1. AnswersFit => OwnIfStarted
  BY DEF AnswersFit, Fits, OwnIfStarted, Honest
<1> QED
  BY <1>1, InitFit, NextFit, TypedCorrect, PTL DEF Spec

-----------------------------------------------------------------------------
(* The order in which commands have run *)

LEMMA NoResultIsCall == NoFile \notin Call /\ Empty \notin Call
<1>1. ASSUME NEW call \in Call PROVE call # NoFile /\ call # Empty
  <2>1. DOMAIN call = {"from", "xid"}
    BY DEF Call
  <2>2. DOMAIN NoFile = {"file"} /\ DOMAIN Empty = {"file"} /\ "file" \notin {"from", "xid"}
    BY DEF NoFile, Empty
  <2> QED
    BY <2>1, <2>2
<1> QED
  BY <1>1

\* The calls whose commands have been begun.
Ran == {ran[k].call : k \in DOMAIN ran}

\* A client has made the call.
Begun(call) == call.xid <= calls[call.from].xid

\* Nothing is under way that a client has not begun, and a result is that of a
\* command that has run.
InOrder == /\ \A m \in requests : Begun(m.call)
           /\ req \in Request => Begun(req.call)
           /\ \A k \in DOMAIN ran : Begun(ran[k].call)
           /\ \A k \in DOMAIN chain : Begun(chain[k].call)
           /\ tmp \in Ran \cup {NoFile, Empty}
           /\ \A m \in replies : m.res \in Ran \cup {NoFile, Empty}
           /\ AnsweredInOrder

LEMMA InitInOrder == Init => InOrder
<1> SUFFICES ASSUME Init PROVE InOrder
  OBVIOUS
<1>1. DOMAIN ran = {} /\ DOMAIN chain = {}
  BY EmptySeq DEF Init
<1>2. req \notin Request
  BY NoneIsRequest DEF Init
<1> QED
  BY <1>1, <1>2 DEF Init, InOrder, Ran, AnsweredInOrder, GivenOwn

\* The numbers of a client's calls go up.
LEMMA NumbersGoUp ==
    ASSUME Typed, [Next]_vars
    PROVE  \A c \in Client : calls[c].xid \in Nat /\ calls'[c].xid \in Nat
                             /\ calls[c].xid <= calls'[c].xid
<1> USE DEF net, server, history
<1>1. calls \in [Client -> [xid : Nat, sent : Nat, waits : BOOLEAN]]
  BY DEF Typed, TypeOK
<1>2. ASSUME NEW c \in Client, Begin(c)
      PROVE  \A d \in Client : calls[d].xid \in Nat /\ calls'[d].xid \in Nat
                               /\ calls[d].xid <= calls'[d].xid
  BY <1>1, <1>2 DEF Begin
<1>3. ASSUME NEW c \in Client, Resend(c) \/ Answered(c) \/ TimedOut(c)
      PROVE  \A d \in Client : calls[d].xid \in Nat /\ calls'[d].xid = calls[d].xid
  BY <1>1, <1>3 DEF Resend, Answered, TimedOut
<1>4. CASE UNCHANGED calls
  BY <1>1, <1>4
<1>5. \/ \E c \in Client : Begin(c) \/ Resend(c) \/ Answered(c) \/ TimedOut(c)
      \/ UNCHANGED calls
  BY DEF Next, Fork, ExecFails, ForkFails, Reply, ReplyCrashes, FsDies, FsEnds, FsAborts, vars
<1> QED
  BY <1>2, <1>3, <1>4, <1>5

\* A result given to a client leaves the order as it is when the commands do.
LEMMA SameRuns ==
    ASSUME AnsweredInOrder, UNCHANGED <<ran, shown>>
    PROVE  AnsweredInOrder' /\ Ran' = Ran
BY DEF AnsweredInOrder, GivenOwn, RunsOf, Ran

\* One command more has been begun.
LEMMA OneMoreRun ==
    ASSUME Typed, InOrder, req \in Request, ran' = Append(ran, req), UNCHANGED <<shown, calls>>
    PROVE  /\ AnsweredInOrder'
           /\ Ran \subseteq Ran' /\ req.call \in Ran'
           /\ \A k \in DOMAIN ran' : Begun(ran'[k].call)
<1>1. /\ DOMAIN ran \subseteq DOMAIN ran'
      /\ \A k \in DOMAIN ran : ran'[k] = ran[k]
      /\ \A k \in DOMAIN ran' : k \in DOMAIN ran \/ ran'[k] = req
      /\ \A k \in DOMAIN ran, l \in DOMAIN ran' : l \in DOMAIN ran \/ k < l
      /\ \E k \in DOMAIN ran' : ran'[k] = req
  BY RunType DEF Typed, TypeOK
<1>2. Ran \subseteq Ran' /\ req.call \in Ran'
  BY <1>1 DEF Ran
<1>3. \A k \in DOMAIN ran' : Begun(ran'[k].call)
  BY <1>1 DEF InOrder
<1>4. ASSUME NEW call \in GivenOwn
      PROVE  \E k \in DOMAIN ran' : ran'[k].call = call /\ \A l \in DOMAIN ran' :
                 ran'[l].call.from = call.from /\ ran'[l].call.xid > call.xid => k < l
  <2>1. PICK k \in DOMAIN ran : ran[k].call = call /\ \A l \in DOMAIN ran :
                 ran[l].call.from = call.from /\ ran[l].call.xid > call.xid => k < l
    BY <1>4 DEF InOrder, AnsweredInOrder, RunsOf
  <2> QED
    BY <1>1, <2>1
<1>5. GivenOwn' = GivenOwn
  BY DEF GivenOwn
<1>6. AnsweredInOrder'
  BY <1>4, <1>5 DEF AnsweredInOrder, RunsOf
<1> QED
  BY <1>2, <1>3, <1>6

\* A client is given its result: no later command of that client has run.
LEMMA OneMoreAnswer ==
    ASSUME Typed, InOrder, NEW c \in Client, Answered(c)
    PROVE  AnsweredInOrder'
<1>1. PICK m \in replies : /\ m.call = Current(c)
                           /\ shown' = shown \cup {[call |-> m.call, res |-> m.res]}
  BY DEF Answered
<1>2. ran' = ran /\ m.call \in Call
  BY <1>1 DEF Answered, Typed, TypeOK
<1>3. ASSUME NEW call \in GivenOwn'
      PROVE  \E k \in RunsOf(call) : \A l \in DOMAIN ran :
                 ran[l].call.from = call.from /\ ran[l].call.xid > call.xid => k < l
  <2>1. call \in GivenOwn \/ (call = m.call /\ m.res = m.call)
    BY <1>1, <1>3 DEF GivenOwn
  <2>2. CASE call \in GivenOwn
    BY <2>2 DEF InOrder, AnsweredInOrder
  <2>3. CASE call = m.call /\ m.res = m.call
    <3>1. m.call \in Ran
      BY <1>2, <2>3, NoResultIsCall DEF InOrder
    <3>2. PICK k \in DOMAIN ran : ran[k].call = m.call
      BY <3>1 DEF Ran
    <3>3. m.call.from = c /\ m.call.xid = calls[c].xid /\ calls[c].xid \in Nat
      BY <1>1 DEF Current, Typed, TypeOK
    <3>4. \A l \in DOMAIN ran : /\ ran[l].call.xid \in Nat
                                /\ ran[l].call.xid <= calls[ran[l].call.from].xid
      <4>1. \A l \in DOMAIN ran : ran[l] \in Request
        BY LenProperties, ElementOfSeq DEF Typed, TypeOK
      <4> QED
        BY <4>1 DEF InOrder, Request, Call, Begun
    <3> QED
      BY <2>3, <3>2, <3>3, <3>4 DEF RunsOf
  <2> QED
    BY <2>1, <2>2, <2>3
<1> QED
  BY <1>2, <1>3 DEF AnsweredInOrder, RunsOf

LEMMA NextInOrder == Typed /\ Typed' /\ InOrder /\ [Next]_vars => InOrder'
<1> SUFFICES ASSUME Typed, Typed', InOrder, [Next]_vars PROVE InOrder'
  OBVIOUS
<1> USE DEF net, server, history
<1>1. \A call \in Call : Begun(call) => Begun(call)'
  BY NumbersGoUp DEF Call, Begun
<1>2. /\ \A m \in requests : m \in Request /\ m.call \in Call
      /\ \A k \in DOMAIN ran : ran[k].call \in Call
      /\ \A k \in DOMAIN chain : chain[k].call \in Call
      /\ req \in Request => req.call \in Call
      /\ chain \in Seq(Request)
  <2>1. \A m \in Request : m.call \in Call
    BY DEF Request
  <2>2. /\ \A k \in DOMAIN ran : ran[k] \in Request
        /\ \A k \in DOMAIN chain : chain[k] \in Request
    BY LenProperties, ElementOfSeq DEF Typed, TypeOK
  <2> QED
    BY <2>1, <2>2 DEF Typed, TypeOK
<1>3. ASSUME NEW c \in Client, Begin(c) \/ Resend(c) PROVE InOrder'
  <2>1. UNCHANGED <<replies, server, tmp, history>>
    BY <1>3 DEF Begin, Resend
  <2>2. \A m \in requests' : m \in requests \/ m.call = Current(c)'
    <3>1. calls' \in [Client -> [xid : Nat, sent : Nat, waits : BOOLEAN]]
          /\ calls \in [Client -> [xid : Nat, sent : Nat, waits : BOOLEAN]]
      BY DEF Typed, TypeOK
    <3>2. CASE Begin(c)
      BY <3>2 DEF Begin, Datagram
    <3>3. CASE Resend(c)
      BY <3>1, <3>3 DEF Resend, Datagram, Current
    <3> QED
      BY <1>3, <3>2, <3>3
  <2>3. \A m \in requests' : Begun(m.call)'
    <3>1. Begun(Current(c))'
      <4>1. calls'[c].xid \in Nat
        BY DEF Typed, TypeOK
      <4> QED
        BY <4>1 DEF Current, Begun
    <3> QED
      BY <1>1, <1>2, <2>2, <3>1 DEF InOrder
  <2>4. AnsweredInOrder' /\ Ran' = Ran
    BY <2>1, SameRuns DEF InOrder
  <2> QED
    BY <1>1, <1>2, <2>1, <2>3, <2>4 DEF InOrder
<1>4. ASSUME NEW c \in Client, Answered(c) PROVE InOrder'
  <2>1. AnsweredInOrder'
    BY <1>4, OneMoreAnswer
  <2>2. replies' \subseteq replies /\ UNCHANGED <<requests, server, tmp, ran>>
    BY <1>4 DEF Answered
  <2> QED
    BY <1>1, <1>2, <2>1, <2>2 DEF InOrder, Ran
<1>5. ASSUME NEW c \in Client, TimedOut(c) PROVE InOrder'
  <2>1. AnsweredInOrder' /\ Ran' = Ran
    BY <1>5, SameRuns DEF TimedOut, InOrder
  <2> QED
    BY <1>1, <1>2, <1>5, <2>1 DEF TimedOut, InOrder
<1>6. CASE Fork
  <2>1. AnsweredInOrder' /\ Ran' = Ran
    BY <1>6, SameRuns DEF Fork, InOrder
  <2>2. /\ req' \in requests /\ requests' = requests \ {req'}
        /\ UNCHANGED <<calls, replies, chain, tmp, ran>>
    BY <1>6 DEF Fork
  <2> QED
    BY <1>1, <1>2, <2>1, <2>2 DEF InOrder
<1>7. CASE ExecFails
  <2>1. AnsweredInOrder' /\ Ran' = Ran
    BY <1>7, SameRuns DEF ExecFails, InOrder
  <2>2. req' \in requests /\ requests' = requests \ {req'}
    BY <1>7 DEF ExecFails
  <2>3. /\ Len(Append(chain, req')) = Len(chain) + 1
        /\ Append(chain, req') \in Seq(Request)
        /\ \A k \in 1 .. Len(chain) : Append(chain, req')[k] = chain[k]
        /\ Append(chain, req')[Len(chain) + 1] = req'
    BY <1>2, <2>2, AppendProperties
  <2>4. /\ DOMAIN chain = 1 .. Len(chain) /\ Len(chain) \in Nat
        /\ DOMAIN Append(chain, req') = 1 .. Len(chain) + 1
    BY <1>2, <2>3, LenProperties
  <2>5. \A k \in DOMAIN chain' : Begun(chain'[k].call)
    BY <1>7, <2>2, <2>3, <2>4 DEF ExecFails, InOrder
  <2>6. UNCHANGED <<calls, replies, tmp, ran>>
    BY <1>7 DEF ExecFails
  <2> QED
    BY <1>2, <2>1, <2>2, <2>5, <2>6 DEF InOrder, Begun
<1>8. ASSUME ForkFails \/ ReplyCrashes PROVE InOrder'
  <2>1. AnsweredInOrder' /\ Ran' = Ran
    BY <1>8, SameRuns DEF ForkFails, ReplyCrashes, InOrder
  <2>2. ServerEnds /\ requests' \subseteq requests /\ UNCHANGED <<calls, replies, tmp, ran>>
    BY <1>8 DEF ForkFails, ReplyCrashes
  <2>3. \A k \in DOMAIN chain' : k \in DOMAIN chain /\ chain'[k] = chain[k]
    BY <1>2, <2>2, ServerEndsType
  <2>4. req' \in Request => \E k \in DOMAIN chain : req' = chain[k]
    <3>1. CASE phase' = "replies"
      BY <1>2, <2>2, <3>1, ServerEndsType
    <3>2. CASE phase' # "replies"
      <4>1. req' = NoCall
        BY <2>2, <3>2 DEF ServerEnds
      <4> QED
        BY <4>1, NoneIsRequest
    <3> QED
      BY <3>1, <3>2
  <2> QED
    BY <1>1, <1>2, <2>1, <2>2, <2>3, <2>4 DEF InOrder
<1>9. CASE Reply
  <2>1. AnsweredInOrder' /\ Ran' = Ran
    BY <1>9, SameRuns DEF Reply, InOrder
  <2> QED
    BY <1>1, <1>2, <1>9, <2>1, NoneIsRequest DEF Reply, InOrder
<1>10. CASE FsDies
  <2>1. AnsweredInOrder' /\ Ran' = Ran
    BY <1>10, SameRuns DEF FsDies, InOrder
  <2> QED
    BY <1>1, <1>2, <1>10, <2>1 DEF FsDies, InOrder
<1>11. ASSUME FsEnds \/ FsAborts PROVE InOrder'
  <2>1. req \in Request /\ fs = req
    BY <1>11, FsServes DEF Typed, FsEnds, FsAborts
  <2>2. /\ ran' = Append(ran, req) /\ tmp' \in {req.call, Empty}
        /\ UNCHANGED <<calls, net, req, chain, shown>>
    BY <1>11, <2>1 DEF FsEnds, FsAborts
  <2>3. /\ AnsweredInOrder'
        /\ Ran \subseteq Ran' /\ req.call \in Ran'
        /\ \A k \in DOMAIN ran' : Begun(ran'[k].call)
    BY <2>1, <2>2, OneMoreRun
  <2>4. \A call : Begun(call)' <=> Begun(call)
    BY <2>2 DEF Begun
  <2> QED
    BY <2>2, <2>3, <2>4 DEF InOrder
<1>12. CASE UNCHANGED vars
  <2>1. AnsweredInOrder' /\ Ran' = Ran
    BY <1>12, SameRuns DEF vars, InOrder
  <2> QED
    BY <1>1, <1>2, <1>12, <2>1 DEF vars, InOrder
<1> QED
  BY <1>3, <1>4, <1>5, <1>6, <1>7, <1>8, <1>9, <1>10, <1>11, <1>12 DEF Next

\* Requests that are repeated and arrive late do not let a command of a client
\* run in front of an earlier one whose result it was given.
THEOREM OrderCorrect == Spec => []AnsweredInOrder
<1>1. InOrder => AnsweredInOrder
  BY DEF InOrder
<1> QED
  BY <1>1, InitInOrder, InitTyped, NextInOrder, NextTyped, PTL DEF Spec

-----------------------------------------------------------------------------
(* How often a command is run *)

\* The client has sent the datagram, when the calls are cs.
SentBy(cs, m) == /\ m.call.xid <= cs[m.call.from].xid
                 /\ m.copy \in 1 .. MaxSends[m.call.from]
                 /\ m.call.xid = cs[m.call.from].xid => m.copy <= cs[m.call.from].sent
Sent(m) == SentBy(calls, m)

\* The datagram that is served or was run is not also on its way.
Served == /\ \A m \in requests : Sent(m)
          /\ phase = "waits" => Sent(req) /\ req \notin requests
          /\ \A k \in DOMAIN ran : /\ Sent(ran[k]) /\ ran[k] \notin requests
                                   /\ phase = "waits" => ran[k] # req
          /\ \A k, l \in DOMAIN ran : ran[k] = ran[l] => k = l

LEMMA InitServed == Init => Served
<1> SUFFICES ASSUME Init PROVE Served
  OBVIOUS
<1>1. DOMAIN ran = {}
  BY EmptySeq DEF Init
<1> QED
  BY <1>1 DEF Init, Served

\* A client that sends, sends a datagram that it has not sent before.
LEMMA SendsNew ==
    ASSUME Typed, NEW c \in Client, Begin(c) \/ Resend(c)
    PROVE  /\ \E m : requests' = requests \cup {m} /\ SentBy(calls', m) /\ ~SentBy(calls, m)
           /\ \A m \in Request : SentBy(calls, m) => SentBy(calls', m)
           /\ UNCHANGED <<phase, req, ran>>
<1>1. /\ calls \in [Client -> [xid : Nat, sent : Nat, waits : BOOLEAN]]
      /\ MaxSends[c] \in Nat \ {0}
  BY RpcAssumption DEF Typed, TypeOK
<1>2. CASE Begin(c)
  <2> DEFINE m == Datagram(Current(c)', 1)
  <2>1. /\ calls' = [calls EXCEPT ![c] = [xid |-> calls[c].xid + 1, sent |-> 1, waits |-> TRUE]]
        /\ requests' = requests \cup {m} /\ UNCHANGED <<phase, req, ran>>
    BY <1>2 DEF Begin, server, history
  <2>2. /\ calls'[c] = [xid |-> calls[c].xid + 1, sent |-> 1, waits |-> TRUE]
        /\ \A d \in Client : d # c => calls'[d] = calls[d]
    BY <1>1, <2>1
  <2>3. m.call.from = c /\ m.call.xid = calls[c].xid + 1 /\ m.copy = 1
    BY <2>2 DEF Datagram, Current
  <2> HIDE DEF m
  <2>4. SentBy(calls', m) /\ ~SentBy(calls, m)
    BY <1>1, <2>2, <2>3 DEF SentBy
  <2>5. ASSUME NEW n \in Request, SentBy(calls, n) PROVE SentBy(calls', n)
    BY <1>1, <2>2, <2>5 DEF SentBy, Request, Call
  <2> QED
    BY <2>1, <2>4, <2>5
<1>3. CASE Resend(c)
  <2> DEFINE m == Datagram(Current(c), calls'[c].sent)
  <2>1. /\ calls' = [calls EXCEPT ![c].sent = calls[c].sent + 1] /\ calls[c].sent < MaxSends[c]
        /\ requests' = requests \cup {m} /\ UNCHANGED <<phase, req, ran>>
    BY <1>3 DEF Resend, server, history
  <2>2. /\ calls'[c].xid = calls[c].xid /\ calls'[c].sent = calls[c].sent + 1
        /\ \A d \in Client : d # c => calls'[d] = calls[d]
    BY <1>1, <2>1
  <2>3. m.call.from = c /\ m.call.xid = calls[c].xid /\ m.copy = calls[c].sent + 1
    BY <2>2 DEF Datagram, Current
  <2> HIDE DEF m
  <2>4. SentBy(calls', m) /\ ~SentBy(calls, m)
    BY <1>1, <2>1, <2>2, <2>3 DEF SentBy
  <2>5. ASSUME NEW n \in Request, SentBy(calls, n) PROVE SentBy(calls', n)
    BY <1>1, <2>2, <2>5 DEF SentBy, Request, Call
  <2> QED
    BY <2>1, <2>4, <2>5
<1> QED
  BY <1>2, <1>3

LEMMA NextServed == Typed /\ Served /\ [Next]_vars => Served'
<1> SUFFICES ASSUME Typed, Served, [Next]_vars PROVE Served'
  OBVIOUS
<1> USE DEF net, server, history
<1>1. /\ requests \subseteq Request /\ \A k \in DOMAIN ran : ran[k] \in Request
      /\ phase = "waits" => req \in Request
      /\ calls \in [Client -> [xid : Nat, sent : Nat, waits : BOOLEAN]]
  BY LenProperties, ElementOfSeq DEF Typed, TypeOK, Serving
<1>2. ASSUME NEW c \in Client, Begin(c) \/ Resend(c) PROVE Served'
  <2>1. PICK m : requests' = requests \cup {m} /\ SentBy(calls', m) /\ ~SentBy(calls, m)
    BY <1>2, SendsNew
  <2>2. /\ \A n \in Request : SentBy(calls, n) => SentBy(calls', n)
        /\ UNCHANGED <<phase, req, ran>>
    BY <1>2, SendsNew
  <2> QED
    BY <1>1, <2>1, <2>2 DEF Served, Sent
\* No other action changes what is sent.
<1>3. ASSUME \A d \in Client : calls'[d].xid = calls[d].xid /\ calls'[d].sent = calls[d].sent
      PROVE  \A n \in Request : SentBy(calls, n) => SentBy(calls', n)
  BY <1>3 DEF SentBy, Request, Call
<1>4. ASSUME NEW c \in Client, Answered(c) \/ TimedOut(c) PROVE Served'
  <2>1. \A d \in Client : calls'[d].xid = calls[d].xid /\ calls'[d].sent = calls[d].sent
    BY <1>1, <1>4 DEF Answered, TimedOut
  <2>2. UNCHANGED <<requests, phase, req, ran>>
    BY <1>4 DEF Answered, TimedOut
  <2> QED
    BY <1>1, <1>3, <2>1, <2>2 DEF Served, Sent
<1>5. CASE Fork
  <2>1. /\ req' \in requests /\ requests' = requests \ {req'} /\ phase' = "waits"
        /\ UNCHANGED <<calls, ran>>
    BY <1>5 DEF Fork
  <2> QED
    BY <1>1, <1>3, <2>1 DEF Served, Sent
<1>6. ASSUME ExecFails \/ ForkFails \/ Reply \/ ReplyCrashes PROVE Served'
  <2>1. requests' \subseteq requests /\ UNCHANGED <<calls, ran>> /\ phase' # "waits"
    BY <1>6 DEF ExecFails, ForkFails, Reply, ReplyCrashes, ServerEnds
  <2> QED
    BY <1>1, <1>3, <2>1 DEF Served, Sent
<1>7. CASE FsDies
  <2>1. UNCHANGED <<calls, requests, ran>> /\ phase' # "waits"
    BY <1>7 DEF FsDies, FsGone
  <2> QED
    BY <1>1, <1>3, <2>1 DEF Served, Sent
<1>8. ASSUME FsEnds \/ FsAborts PROVE Served'
  <2>1. phase = "waits" /\ fs = req /\ req \in Request
    BY <1>8, FsServes DEF Typed, FsEnds, FsAborts
  <2>2. ran' = Append(ran, req) /\ UNCHANGED <<calls, requests>> /\ phase' # "waits"
    BY <1>8, <2>1 DEF FsEnds, FsAborts, FsGone
  <2>3. /\ \A k \in DOMAIN ran : ran'[k] = ran[k]
        /\ \A k \in DOMAIN ran' : k \in DOMAIN ran \/ ran'[k] = req
        /\ \A k, l \in DOMAIN ran' : k \in DOMAIN ran \/ l \in DOMAIN ran \/ k = l
    BY <2>1, <2>2, RunType DEF Typed, TypeOK
  <2>4. \A k \in DOMAIN ran : ran[k] # req
    BY <2>1 DEF Served, Sent
  <2>5. \A k, l \in DOMAIN ran' : ran'[k] = ran'[l] => k = l
    BY <2>3, <2>4 DEF Served, Sent
  <2>6. \A k \in DOMAIN ran' : SentBy(calls', ran'[k]) /\ ran'[k] \notin requests'
    BY <1>1, <1>3, <2>1, <2>2, <2>3 DEF Served, Sent
  <2> QED
    BY <1>1, <1>3, <2>2, <2>5, <2>6 DEF Served, Sent
<1>9. CASE UNCHANGED vars
  BY <1>1, <1>3, <1>9 DEF vars, Served, Sent
<1> QED
  BY <1>2, <1>4, <1>5, <1>6, <1>7, <1>8, <1>9 DEF Next

\* However requests are repeated, however late they arrive, and whichever server
\* answers them: no datagram is run twice, so that a command is run at most as
\* often as its call was sent.
THEOREM OncePerSendCorrect == Spec => []RunsOncePerSend
<1>1. Served => RunsOncePerSend
  BY DEF Served, Sent, SentBy, RunsOncePerSend
<1> QED
  BY <1>1, InitServed, NextServed, TypedCorrect, PTL DEF Spec
=============================================================================
