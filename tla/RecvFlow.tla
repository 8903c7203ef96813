------------------------------ MODULE RecvFlow ------------------------------
(***************************************************************************)
(* The receive path of one connected socket: the overlapped WSARecv calls,  *)
(* their completions, infoPtr->llPendingRecv and the three receive modes     *)
(* (src/iocpsock_lolevel.c: IocpInputProc and its filters, RepostRecvs,      *)
(* PostOverlappedRecv, IocpSetRecvMode and OP_READ of HandleIo).             *)
(*                                                                          *)
(* The peer sends the units 1, 2, 3, ...; a buffer is [data, size, err] with  *)
(* the units received, its length in units (0 for a zero-byte receive) and    *)
(* bufPtr->WSAerr.  The Tcl thread and the completion thread take a step for  *)
(* each access to shared state.  Closing is SocketLifetime's, alerting        *)
(* Notifier's.                                                               *)
(***************************************************************************)
EXTENDS Integers, Sequences

CONSTANTS
  MaxSent,     \* bound on the units the peer sends
  BufSize,     \* IOCP_RECV_BUFSIZE, in units
  ChanSize,    \* bound on the toRead argument of IocpInputProc
  BurstCap,    \* <cap> of burst-detection: bound on outstanding receives
  BurstUnread, \* <buffercap> of burst-detection: unread buffers
  Starts,      \* receive modes the socket may begin with
  Switches,    \* changes of -recvmode a script may make, <<from, to>>
  EmptyPopFaults \* TRUE: IocpLLPopFront dereferences the NULL front of an
               \* empty list, as linkedlist.c:475-476 does.  FALSE: it returns
               \* NULL, as its comment says, or waits if its timeout is INFINITE,
               \* as IocpInputProc expects

Modes == {"zero", "flow", "burst"}

ASSUME SizesAssumption ==
  /\ MaxSent \in Nat /\ BufSize \in Nat \ {0} /\ ChanSize \in Nat \ {0}
  /\ BurstCap \in Nat \ {0} /\ BurstUnread \in Nat \ {0}
  /\ EmptyPopFaults \in BOOLEAN
ASSUME ModesAssumption == Starts \subseteq Modes /\ Switches \subseteq Modes \X Modes

Threads == {"tcl", "ct"}
At == {"idle", "pop", "merge", "repost", "clear", "setCaps",
       "decide", "push", "count", "back", "call", "fault"}

VARIABLES
  sent,      \* units the peer has sent
  peer,      \* the peer's side of the connection: "open", "closed" or "reset"
  net,       \* units Winsock holds that no receive has taken
  posted,    \* sizes of the overlapped receives that wait for data
  port,      \* completed ones, on the completion port
  pending,   \* infoPtr->llPendingRecv
  recvs,     \* infoPtr->outstandingRecvs
  mode, cap, unreadCap, \* recvMode, outstandingRecvCap, outstandingRecvBufferCap
  need,      \* infoPtr->needRecvRestart
  eof,       \* IOCP_EOF of infoPtr->flags
  pc,        \* where each thread is
  held,      \* the buffer each thread works on
  call,      \* the IocpInputProc call: toRead, *buf, its offset, *bytesRead,
             \* nonblocking, and the RepostRecvs branch taken
  delivered, \* units the channel has been given
  failed,    \* IocpInputProc has reported a broken connection
  starved    \* history: WSAENOBUFS has taken a receive away

netVars  == <<sent, peer, net>>
modeVars == <<mode, cap, unreadCap>>
outVars  == <<delivered, failed, starved>>
vars == <<netVars, posted, port, pending, recvs, modeVars, need, eof, pc, held,
          call, outVars>>

Units  == 1 .. MaxSent
Buffer == [data : Seq(Units), size : Nat, err : {"none", "reset", "noBufs"}]
NoBuf  == [data |-> <<>>, size |-> 0, err |-> "none"]
NoCall == [want |-> 0, buf |-> <<>>, off |-> 0, n |-> 0, async |-> TRUE,
           burst |-> FALSE]

TypeOK ==
  /\ sent \in 0 .. MaxSent
  /\ peer \in {"open", "closed", "reset"}
  /\ net \in Seq(Units)
  /\ posted \in Seq(Nat)
  /\ port \in Seq(Buffer)
  /\ pending \in Seq(Buffer)
  /\ recvs \in Nat
  /\ mode \in Modes /\ cap \in Int /\ unreadCap \in Nat
  /\ {need, eof, failed, starved} \subseteq BOOLEAN
  /\ pc \in [Threads -> At]
  /\ held \in [Threads -> Buffer]
  /\ call \in [want : Nat, buf : Seq(Units), off : Nat, n : Nat,
               async : BOOLEAN, burst : BOOLEAN]
  /\ delivered \in Seq(Units)

\* The caps IocpSetRecvMode is called with for each mode.
CapOf(m)    == IF m = "burst" THEN BurstCap ELSE 1
UnreadOf(m) == IF m = "burst" THEN BurstUnread ELSE 1

\* A socket that has just been connected or accepted, with its first receive.
Init ==
  /\ sent = 0 /\ peer = "open" /\ net = <<>>
  /\ mode \in Starts
  /\ posted = <<IF mode = "zero" THEN 0 ELSE BufSize>>
  /\ port = <<>> /\ pending = <<>>
  /\ recvs = 1 /\ cap = CapOf(mode) /\ unreadCap = UnreadOf(mode)
  /\ need = FALSE /\ eof = FALSE /\ failed = FALSE /\ starved = FALSE
  /\ pc = [t \in Threads |-> "idle"]
  /\ held = [t \in Threads |-> NoBuf]
  /\ call = NoCall
  /\ delivered = <<>>

Smaller(a, b) == IF a < b THEN a ELSE b
First(q, n)   == SubSeq(q, 1, Smaller(n, Len(q)))
Rest(q, n)    == SubSeq(q, n + 1, Len(q))
Goto(t, at)   == pc' = [pc EXCEPT ![t] = at]

-----------------------------------------------------------------------------
\* The peer and Winsock.

Send ==
  /\ peer = "open" /\ sent < MaxSent
  /\ sent' = sent + 1
  /\ net' = Append(net, sent')
  /\ UNCHANGED <<peer, posted, port, pending, recvs, modeVars, need, eof, pc,
                 held, call, outVars>>

\* An orderly shutdown, or a reset after everything has been received.
Hangup ==
  /\ peer = "open"
  /\ \/ peer' = "closed"
     \/ peer' = "reset" /\ net = <<>>
  /\ UNCHANGED <<sent, net, posted, port, pending, recvs, modeVars, need, eof,
                 pc, held, call, outVars>>

\* What a receive of size units completes with.  It takes no units when it is a
\* zero-byte receive, at the end and after a reset.
Completion(size) ==
  [data |-> First(net, size), size |-> size,
   err |-> IF peer = "reset" THEN "reset" ELSE "none"]

\* The receive that was posted first completes, ...
Complete ==
  /\ posted # <<>>
  /\ net # <<>> \/ peer # "open"
  /\ port' = Append(port, Completion(Head(posted)))
  /\ net' = Rest(net, Head(posted))
  /\ posted' = Tail(posted)
  /\ UNCHANGED <<sent, peer, pending, recvs, modeVars, need, eof, pc, held,
                 call, outVars>>

\* ... or Winsock runs out of buffer space for it.
NoBufs ==
  /\ posted # <<>> /\ peer = "open"
  /\ port' = Append(port, [data |-> <<>>, size |-> Head(posted), err |-> "noBufs"])
  /\ posted' = Tail(posted)
  /\ UNCHANGED <<netVars, pending, recvs, modeVars, need, eof, pc, held, call,
                 outVars>>

-----------------------------------------------------------------------------
\* PostOverlappedRecv, run by thread t.  The completion thread calls it for a
\* burst, the Tcl thread from RepostRecvs.

Burst(t)    == t = "ct" \/ call.burst
Return(t)   == Goto(t, IF t = "ct" THEN "push" ELSE IF Burst(t) THEN "clear"
                                                             ELSE "idle")
SizeFor(t)  == IF Burst(t) THEN BufSize ELSE IF mode = "zero" THEN 0 ELSE call.want

\* IocpInputProc gives the channel the first *bytesRead units of its buffer when
\* it is left.
Hand(t) == IF t = "tcl" /\ pc'[t] = "idle"
             THEN delivered' = delivered \o First(call.buf, call.n) /\ call' = NoCall
             ELSE UNCHANGED <<delivered, call>>

\* Mutant of PostCount: the cap is exceeded by one.
PostCountOneMore(t) ==
  /\ pc[t] = "count"
  /\ IF eof THEN Return(t) /\ UNCHANGED recvs
            ELSE recvs' = recvs + 1 /\ Goto(t, IF recvs > cap THEN "back" ELSE "call")
  /\ Hand(t)
  /\ UNCHANGED <<netVars, posted, port, pending, modeVars, need, eof, held, failed,
                 starved>>

\* "Recursion limit": the receive is counted before the cap is tested.
PostCount(t) ==
  /\ pc[t] = "count"
  /\ IF eof THEN Return(t) /\ UNCHANGED recvs
            ELSE recvs' = recvs + 1 /\ Goto(t, IF recvs' > cap THEN "back" ELSE "call")
  /\ Hand(t)
  /\ UNCHANGED <<netVars, posted, port, pending, modeVars, need, eof, held, failed,
                 starved>>

\* Mutant of PostBack: the count stays.
PostBackKeeps(t) ==
  /\ pc[t] = "back"
  /\ recvs' = recvs
  /\ Return(t)
  /\ Hand(t)
  /\ UNCHANGED <<netVars, posted, port, pending, modeVars, need, eof, held, failed,
                 starved>>

\* ... and taken back when it is over the cap.
PostBack(t) ==
  /\ pc[t] = "back"
  /\ recvs' = recvs - 1
  /\ Return(t)
  /\ Hand(t)
  /\ UNCHANGED <<netVars, posted, port, pending, modeVars, need, eof, held, failed,
                 starved>>

\* WSARecv.  It completes at once when there is data and no receive waits; an
\* error is posted to the port by hand.  In a burst every receive that had data
\* is followed by another one.
PostCall(t) ==
  LET size == SizeFor(t)
      done == Completion(size)
  IN  /\ pc[t] = "call"
      /\ IF posted = <<>> /\ (net # <<>> \/ peer # "open")
           THEN /\ port' = Append(port, done)
                /\ net' = Rest(net, size)
                /\ UNCHANGED posted
                /\ IF Burst(t) /\ done.data # <<>> THEN Goto(t, "count") ELSE Return(t)
           ELSE /\ posted' = Append(posted, size)
                /\ UNCHANGED <<port, net>>
                /\ Return(t)
      /\ Hand(t)
      /\ UNCHANGED <<sent, peer, pending, recvs, modeVars, need, eof, held, failed,
                 starved>>

-----------------------------------------------------------------------------
\* The completion thread: OP_READ of HandleIo.

Take ==
  /\ pc["ct"] = "idle" /\ port # <<>>
  /\ held' = [held EXCEPT !["ct"] = Head(port)]
  /\ port' = Tail(port)
  /\ recvs' = recvs - 1
  /\ Goto("ct", "decide")
  /\ UNCHANGED <<netVars, posted, pending, modeVars, need, eof, call, outVars>>

\* A buffer with data is replaced while the unread buffers are below their cap.
Decide ==
  LET b == held["ct"]
  IN  /\ pc["ct"] = "decide"
      /\ \/ /\ b.data # <<>> /\ mode = "burst" /\ Len(pending) < unreadCap
            /\ Goto("ct", "count")
            /\ UNCHANGED <<need, cap, held, starved>>
         \/ \* the cap on unread buffers is hit, or a restart after no data
            /\ mode = "burst" /\ b.err # "noBufs"
            /\ b.data = <<>> \/ Len(pending) >= unreadCap
            /\ need' = TRUE
            /\ Goto("ct", "push")
            /\ UNCHANGED <<cap, held, starved>>
         \/ /\ mode # "burst" /\ b.err # "noBufs"
            /\ Goto("ct", "push")
            /\ UNCHANGED <<need, cap, held, starved>>
         \/ \* WSAENOBUFS: the buffer is dropped
            /\ b.err = "noBufs"
            /\ cap' = cap - 1
            /\ starved' = TRUE
            /\ held' = [held EXCEPT !["ct"] = NoBuf]
            /\ Goto("ct", "idle")
            /\ UNCHANGED need
      /\ UNCHANGED <<netVars, posted, port, pending, recvs, mode, unreadCap, eof,
                     call, delivered, failed>>

\* Mutant of Push: the buffer goes to the wrong end.
PushFront ==
  /\ pc["ct"] = "push"
  /\ pending' = <<held["ct"]>> \o pending
  /\ held' = [held EXCEPT !["ct"] = NoBuf]
  /\ Goto("ct", "idle")
  /\ UNCHANGED <<netVars, posted, port, recvs, modeVars, need, eof, call, outVars>>

\* IocpPushRecvAlertToTcl.
Push ==
  /\ pc["ct"] = "push"
  /\ pending' = Append(pending, held["ct"])
  /\ held' = [held EXCEPT !["ct"] = NoBuf]
  /\ Goto("ct", "idle")
  /\ UNCHANGED <<netVars, posted, port, recvs, modeVars, need, eof, call, outVars>>

-----------------------------------------------------------------------------
\* The Tcl thread: IocpInputProc.

\* With nothing to get a nonblocking channel is told so and nothing changes.  A
\* blocking one goes on and asks IocpLLPopFront to wait.
Read(n, async) ==
  /\ pc["tcl"] = "idle" /\ (async => pending # <<>>)
  /\ call' = [NoCall EXCEPT !.want = n, !.async = async]
  /\ Goto("tcl", "pop")
  /\ UNCHANGED <<netVars, posted, port, pending, recvs, modeVars, need, eof, held,
                 outVars>>

\* Mutant of Pop: the wait is left out.
PopNoWait ==
  /\ pc["tcl"] = "pop"
  /\ IF pending = <<>>
       THEN Goto("tcl", "repost") /\ UNCHANGED <<pending, held>>
       ELSE /\ held' = [held EXCEPT !["tcl"] = Head(pending)]
            /\ pending' = Tail(pending)
            /\ Goto("tcl", "merge")
  /\ UNCHANGED <<netVars, posted, port, recvs, modeVars, need, eof, call, outVars>>

\* The loop asks IocpLLPopFront for the next buffer.
Pop ==
  /\ pc["tcl"] = "pop"
  /\ \/ /\ pending = <<>> /\ EmptyPopFaults
        /\ pc' = [t \in Threads |-> "fault"]
        /\ UNCHANGED <<pending, held>>
     \/ /\ pending = <<>> /\ ~EmptyPopFaults /\ call.async
        /\ Goto("tcl", "repost")
        /\ UNCHANGED <<pending, held>>
     \/ /\ pending # <<>>
        /\ held' = [held EXCEPT !["tcl"] = Head(pending)]
        /\ pending' = Tail(pending)
        /\ Goto("tcl", "merge")
  /\ UNCHANGED <<netVars, posted, port, recvs, modeVars, need, eof, call, outVars>>

\* Mutant of IsSingleOp: no filter.
NeverSingleOp(b) == FALSE

\* FilterSingleOpRecvBuf and FilterPartialRecvBufMerge put the buffer, or what is
\* left of it, back in front.
IsSingleOp(b) == b.data = <<>> /\ b.size # 0 /\ call.n > 0
IsPartial(b)  == call.n + Len(b.data) > call.want

Merged(units) == First(call.buf, call.off) \o units

PutBack ==
  LET b == held["tcl"]
      k == call.want - call.n
  IN  /\ pc["tcl"] = "merge"
      /\ \/ /\ IsSingleOp(b)
            /\ pending' = <<b>> \o pending
            /\ UNCHANGED call
         \/ /\ ~IsSingleOp(b) /\ IsPartial(b)
            /\ pending' = <<[b EXCEPT !.data = Rest(@, k)]>> \o pending
            /\ call' = [call EXCEPT !.buf = Merged(First(b.data, k)), !.n = @ + k]
      /\ held' = [held EXCEPT !["tcl"] = NoBuf]
      /\ Goto("tcl", "repost")
      /\ UNCHANGED <<netVars, posted, port, recvs, modeVars, need, eof, outVars>>

\* DoRecvBufMerge for a buffer with data.
Merge ==
  LET b == held["tcl"]
  IN  /\ pc["tcl"] = "merge" /\ ~IsSingleOp(b) /\ ~IsPartial(b)
      /\ b.err = "none" /\ b.data # <<>>
      /\ call' = [call EXCEPT !.buf = Merged(b.data), !.off = @ + Len(b.data),
                              !.n = @ + Len(b.data)]
      /\ held' = [held EXCEPT !["tcl"] = NoBuf]
      /\ Goto("tcl", IF call.async THEN "pop" ELSE "repost")
      /\ UNCHANGED <<netVars, posted, port, pending, recvs, modeVars, need, eof,
                     outVars>>

\* DoRecvBufMerge for a zero-byte alert: "a non-blocking and non-posting WSARecv
\* using the channel buffer space directly", which sets *bytesRead.  Nothing in
\* src makes the SOCKET non-blocking, so the call waits when there is nothing.
IsAlert(b) == b.err = "none" /\ b.data = <<>> /\ b.size = 0

ReadDirectly ==
  LET b == held["tcl"]
      k == Smaller(call.want, Len(net))
  IN  /\ pc["tcl"] = "merge" /\ ~IsSingleOp(b) /\ ~IsPartial(b)
      /\ IsAlert(b) /\ net # <<>>
      /\ net' = Rest(net, k)
      /\ call' = [call EXCEPT !.buf = Merged(First(net, k)), !.n = k]
      /\ held' = [held EXCEPT !["tcl"] = NoBuf]
      /\ Goto("tcl", IF call.async THEN "pop" ELSE "repost")
      /\ UNCHANGED <<sent, peer, posted, port, pending, recvs, modeVars, need, eof,
                     outVars>>

\* "got official EOF", with a buffer or from the direct WSARecv.
ReadEof ==
  LET b == held["tcl"]
  IN  /\ pc["tcl"] = "merge" /\ ~IsSingleOp(b) /\ ~IsPartial(b)
      /\ b.err = "none" /\ b.data = <<>>
      /\ b.size # 0 \/ (net = <<>> /\ peer = "closed")
      /\ eof' = TRUE
      /\ call' = [call EXCEPT !.n = 0]
      /\ held' = [held EXCEPT !["tcl"] = NoBuf]
      /\ Goto("tcl", "repost")
      /\ UNCHANGED <<netVars, posted, port, pending, recvs, modeVars, need, outVars>>

\* An error, of the buffer or of the direct WSARecv, ends the call without
\* RepostRecvs.
ReadError ==
  LET b == held["tcl"]
  IN  /\ pc["tcl"] = "merge" /\ ~IsSingleOp(b) /\ ~IsPartial(b)
      /\ \/ b.err # "none"
         \/ IsAlert(b) /\ peer = "reset"
      /\ failed' = TRUE
      /\ call' = NoCall
      /\ held' = [held EXCEPT !["tcl"] = NoBuf]
      /\ Goto("tcl", "idle")
      /\ UNCHANGED <<netVars, posted, port, pending, recvs, modeVars, need, eof,
                     delivered, starved>>

\* RepostRecvs.
Repost ==
  LET restart == mode = "burst" /\ need /\ Len(pending) < unreadCap
      post    == ~eof /\ (mode # "burst" \/ restart)
  IN  /\ pc["tcl"] = "repost"
      /\ Goto("tcl", IF post THEN "count" ELSE "idle")
      /\ IF post THEN call' = [call EXCEPT !.burst = restart] /\ UNCHANGED delivered
                 ELSE Hand("tcl")
      /\ UNCHANGED <<netVars, posted, port, pending, recvs, modeVars, need, eof,
                     held, failed, starved>>

\* "infoPtr->needRecvRestart = 0", after the receives have been posted.
Clear ==
  /\ pc["tcl"] = "clear"
  /\ need' = FALSE
  /\ Goto("tcl", "idle")
  /\ Hand("tcl")
  /\ UNCHANGED <<netVars, posted, port, pending, recvs, modeVars, eof, held, failed,
                 starved>>

\* fconfigure -recvmode: IocpSetRecvMode sets the mode, then the caps.
SetMode(m) ==
  /\ pc["tcl"] = "idle" /\ <<mode, m>> \in Switches
  /\ mode' = m
  /\ Goto("tcl", "setCaps")
  /\ UNCHANGED <<netVars, posted, port, pending, recvs, cap, unreadCap, need, eof,
                 held, call, outVars>>

SetCaps ==
  /\ pc["tcl"] = "setCaps"
  /\ cap' = CapOf(mode) /\ unreadCap' = UnreadOf(mode)
  /\ Goto("tcl", "idle")
  /\ UNCHANGED <<netVars, posted, port, pending, recvs, mode, need, eof, held,
                 call, outVars>>

-----------------------------------------------------------------------------
Winsock == Send \/ Hangup \/ Complete \/ NoBufs
Posting == \E t \in Threads : PostCount(t) \/ PostBack(t) \/ PostCall(t)
Ct      == Take \/ Decide \/ Push
Tcl     == \/ \E n \in 1 .. ChanSize, async \in BOOLEAN : Read(n, async)
           \/ Pop \/ PutBack \/ Merge \/ ReadDirectly \/ ReadEof \/ ReadError
           \/ Repost \/ Clear
           \/ \E m \in Modes : SetMode(m)
           \/ SetCaps
Next == Winsock \/ Posting \/ Ct \/ Tcl

Spec == Init /\ [][Next]_vars

-----------------------------------------------------------------------------
\* Properties.

\* The units of a queue of buffers.
Flat(bufs) ==
  LET upTo[n \in 0 .. Len(bufs)] == IF n = 0 THEN <<>> ELSE upTo[n-1] \o bufs[n].data
  IN  upTo[Len(bufs)]

\* What the peer sent is, in order and without loss or repetition: what the
\* channel has been given, what this IocpInputProc call has gathered, what the
\* threads hold, what waits in llPendingRecv and on the port, and what Winsock
\* has not handed out.
NothingLost ==
  delivered \o First(call.buf, call.n) \o held["tcl"].data \o Flat(pending)
    \o held["ct"].data \o Flat(port) \o net = [i \in 1 .. sent |-> i]

\* The end of the stream is reported only when the channel has everything.
EofIsLast == eof => peer = "closed" /\ delivered = [i \in 1 .. sent |-> i]

\* outstandingRecvs counts the receives Winsock or the port have and the ones the
\* threads are about to post, and keeps the former within the cap of the mode.
RecvsCounted ==
  LET entered(t) == IF pc[t] \in {"call", "back"} THEN 1 ELSE 0
  IN  /\ recvs = Len(posted) + Len(port) + entered("tcl") + entered("ct")
      /\ Len(posted) + Len(port) <= CapOf(mode)

\* The counter and the queues make sense, together and by themselves.
WellFormed == TypeOK /\ RecvsCounted

\* "Do a non-blocking and non-posting WSARecv" (iocpsock_lolevel.c:813-815): a
\* zero-byte alert in the hands of IocpInputProc has data, or the end of the
\* connection, behind it, or the call would block the Tcl thread.
DirectReadIsReady ==
  LET b == held["tcl"]
  IN  pc["tcl"] = "merge" /\ IsAlert(b) => net # <<>> \/ peer # "open"

\* Nobody is in the middle of something but a blocking read that waits, all
\* buffers are consumed and the connection is alive, but no receive is posted:
\* nothing will ever arrive.
Stalled ==
  /\ pc["tcl"] = "idle" \/ (pc["tcl"] = "pop" /\ ~call.async)
  /\ pc["ct"] = "idle"
  /\ pending = <<>> /\ port = <<>> /\ posted = <<>>
  /\ ~starved /\ ~eof /\ ~failed

\* A zero-byte or flow-controlled socket whose buffers have been consumed has a
\* receive posted, unless WSAENOBUFS has taken one away.
NeverDeaf == mode # "burst" => ~Stalled

\* "Not until the buffers get consumed will the receiving be restarted."
\* (iocpsock_lolevel.c:2392-2393): once they are, it has been.
RestartedWhenConsumed == ~Stalled

\* "don't allow the amount of unread 4K buffers to exceed 500" (man.html:108-109),
\* even if each receive that was outstanding when the cap was hit, and the one
\* being handled, may add its buffer.
UnreadIsCapped ==
  mode = "burst" => Len(pending) <= BurstUnread + BurstCap + 1
=============================================================================
