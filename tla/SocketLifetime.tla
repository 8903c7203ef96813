--------------------------- MODULE SocketLifetime ---------------------------
(***************************************************************************)
(* The life of a SocketInfo: how it is opened or accepted, how overlapped   *)
(* operations are counted in infoPtr->outstandingOps, how a Tcl thread      *)
(* closes it and how the completion thread frees it when it handles "the    *)
(* last operation" (src/iocpsock_lolevel.c, src/ws2tcp.c).                  *)
(*                                                                          *)
(* Two threads run: one Tcl thread, whose position inside a driver          *)
(* procedure is tcl, and the one completion thread, whose position inside   *)
(* HandleIo is ct.  A step of either is a stretch of code that touches at   *)
(* most one variable the other thread reads or writes.                      *)
(*                                                                          *)
(* Data is abstracted: a buffer is not an object but a unit of out[s][op],  *)
(* and the caps on each kind of operation only appear as a post that may be *)
(* refused.  A socket of the model is one incarnation of a SocketInfo: its  *)
(* memory is never reused.                                                  *)
(***************************************************************************)
EXTENDS Integers, Sequences

CONSTANTS
  Listeners,       \* SocketInfo objects used for server sockets
  Clients,         \* SocketInfo objects used for connected or accepted sockets
  None,            \* no socket
  AcceptCap,       \* overlapped AcceptEx calls kept on a listener (-backlog)
  RecvCap,         \* bound on the overlapped WSARecv calls of one socket
  SendCap,         \* bound on the overlapped WSASend calls of one socket
  EmptyPopFaults   \* TRUE: IocpLLPopFront dereferences the NULL front of an
                   \* empty list, as linkedlist.c:475-476 does.  FALSE: it
                   \* returns NULL, as its comment says and its callers expect

Sockets == Listeners \cup Clients

ASSUME SocketsAssumption ==
  /\ Listeners \cap Clients = {}
  /\ None \notin Sockets
ASSUME CapsAssumption ==
  /\ AcceptCap \in Nat \ {0}
  /\ RecvCap \in Nat \ {0}
  /\ SendCap \in Nat \ {0}
ASSUME FaultsAssumption == EmptyPopFaults \in BOOLEAN

Ops == {"ACCEPT", "READ", "WRITE", "CONNECT", "DISCONNECT"}

\* IOCP_INITIAL_RECV_COUNT.
InitialRecvCount == 1

VARIABLES
  life,         \* where the SocketInfo is in its life; a freed one says which
                \* call of FreeSocketInfo freed it
  channel,      \* infoPtr->channel: NULL before Tcl has it, open, NULL again
  flags,        \* IOCP_CLOSING and IOCP_CLOSABLE of infoPtr->flags
  ops,          \* infoPtr->outstandingOps
  out,          \* operations given to Winsock whose completion is not handled
  handle,       \* infoPtr->socket is an open socket
  lists,        \* llPendingRecv (readyAccepts of a listener) is not NULL
  readyAccepts, \* infoPtr->readyAccepts: accepted sockets Tcl has not seen
  tcl,          \* the Tcl thread: [at, sock, todo]
  accepting,    \* listener whose acceptProc callback is running, or None
  ct,           \* the completion thread: [at, sock]
  fault         \* an access violation has ended the process

sockVars == <<life, channel, flags, ops, out, handle, lists, readyAccepts>>
vars == <<sockVars, tcl, accepting, ct, fault>>

Freed == {"lastOp", "drained", "openFailed"}
TclAt == {"idle", "opening", "posting", "closeFlag", "closeCount", "closePost",
          "closeMark", "closeDrop", "closeSocket"}
CtAt  == {"idle", "replace", "burst", "first", "done", "free"}

TypeOK ==
  /\ life \in [Sockets -> {"unused", "live"} \cup Freed]
  /\ channel \in [Sockets -> {"never", "open", "closed"}]
  /\ flags \in [Sockets -> SUBSET {"CLOSING", "CLOSABLE"}]
  /\ ops \in [Sockets -> Int]
  /\ out \in [Sockets -> [Ops -> Nat]]
  /\ handle \in [Sockets -> BOOLEAN]
  /\ lists \in [Sockets -> BOOLEAN]
  /\ readyAccepts \in [Sockets -> Seq(Clients)]
  /\ tcl \in [at : TclAt, sock : Sockets \cup {None}, todo : Nat,
              op : Ops \cup {None}]
  /\ accepting \in Listeners \cup {None}
  /\ ct \in [at : CtAt, sock : Sockets \cup {None}]
  /\ fault \in BOOLEAN

TclIdle == [at |-> "idle", sock |-> None, todo |-> 0, op |-> None]
CtIdle  == [at |-> "idle", sock |-> None]

Init ==
  /\ life = [s \in Sockets |-> "unused"]
  /\ channel = [s \in Sockets |-> "never"]
  /\ flags = [s \in Sockets |-> {}]
  /\ ops = [s \in Sockets |-> 0]
  /\ out = [s \in Sockets |-> [op \in Ops |-> 0]]
  /\ handle = [s \in Sockets |-> FALSE]
  /\ lists = [s \in Sockets |-> FALSE]
  /\ readyAccepts = [s \in Sockets |-> <<>>]
  /\ tcl = TclIdle
  /\ accepting = None
  /\ ct = CtIdle
  /\ fault = FALSE

-----------------------------------------------------------------------------
\* Building blocks.

\* Give n operations op of socket s to Winsock: InterlockedIncrement of
\* outstandingOps, then the overlapped call.
Counted(s, n)   == ops' = [ops EXCEPT ![s] = @ + n]
Posted(s, op)   == out' = [out EXCEPT ![s][op] = @ + 1]
\* GetQueuedCompletionStatus hands one of them back.
Dequeued(s, op) == /\ ct.at = "idle"
                   /\ life[s] = "live"
                   /\ out[s][op] > 0
                   /\ out' = [out EXCEPT ![s][op] = @ - 1]

\* What counts against the cap of operation op of s: the calls Winsock has and
\* the one the Tcl thread is about to make.
Cap == [ACCEPT |-> AcceptCap, READ |-> RecvCap, WRITE |-> SendCap]
Taken(s, op) ==
  out[s][op] + (IF tcl.at = "posting" /\ tcl.sock = s /\ tcl.op = op THEN 1 ELSE 0)

At(t, s) == tcl' = [TclIdle EXCEPT !.at = t, !.sock = s]

Queued(l) == {readyAccepts[l][i] : i \in DOMAIN readyAccepts[l]}

\* FreeSocketInfo(s).  The sockets waiting in readyAccepts are freed with a
\* listener.  Each list is drained until IocpLLPopFront says it is empty.
FreeSocketInfo(s, why) ==
  IF lists[s] /\ EmptyPopFaults
    THEN fault' = TRUE /\ UNCHANGED <<life, handle, readyAccepts>>
    ELSE LET gone == {s} \cup Queued(s)
         IN  /\ life' = [x \in Sockets |-> IF x = s THEN why
                                           ELSE IF x \in gone THEN "drained"
                                           ELSE life[x]]
             /\ handle' = [x \in Sockets |-> handle[x] /\ x \notin gone]
             /\ readyAccepts' = [readyAccepts EXCEPT ![s] = <<>>]
             /\ UNCHANGED fault

-----------------------------------------------------------------------------
\* The Tcl thread: opening sockets.

\* CreateTcpSocket for a blocking connect, then Iocp_OpenTcpClient.
OpenClient(c) ==
  /\ tcl.at = "idle" /\ life[c] = "unused"
  /\ \/ /\ life' = [life EXCEPT ![c] = "live"]
        /\ channel' = [channel EXCEPT ![c] = "open"]
        /\ Counted(c, InitialRecvCount)
        /\ out' = [out EXCEPT ![c].READ = @ + InitialRecvCount]
        /\ handle' = [handle EXCEPT ![c] = TRUE]
        /\ lists' = [lists EXCEPT ![c] = TRUE]
        /\ UNCHANGED fault
     \/ \* bind or connect failed: error1 before llPendingRecv exists
        /\ life' = [life EXCEPT ![c] = "openFailed"]
        /\ UNCHANGED <<channel, ops, out, handle, lists, fault>>
     \/ \* the first WSARecv was refused: error1 drains llPendingRecv
        /\ IF EmptyPopFaults
             THEN fault' = TRUE /\ UNCHANGED life
             ELSE life' = [life EXCEPT ![c] = "openFailed"] /\ UNCHANGED fault
        /\ UNCHANGED <<channel, ops, out, handle, lists>>
  /\ UNCHANGED <<flags, readyAccepts, tcl, accepting, ct>>

\* CreateTcpSocket for an asynchronous connect.
OpenClientAsync(c) ==
  /\ tcl.at = "idle" /\ life[c] = "unused"
  /\ \/ /\ life' = [life EXCEPT ![c] = "live"]
        /\ channel' = [channel EXCEPT ![c] = "open"]
        /\ Counted(c, 1)
        /\ Posted(c, "CONNECT")
        /\ handle' = [handle EXCEPT ![c] = TRUE]
     \/ \* ConnectEx failed at once
        /\ life' = [life EXCEPT ![c] = "openFailed"]
        /\ UNCHANGED <<channel, ops, out, handle>>
  /\ UNCHANGED <<flags, lists, readyAccepts, tcl, accepting, ct, fault>>

\* CreateTcpSocket for a server, up to the loop that posts the accepts.
OpenServer(l) ==
  /\ tcl.at = "idle" /\ life[l] = "unused"
  /\ \/ /\ life' = [life EXCEPT ![l] = "live"]
        /\ handle' = [handle EXCEPT ![l] = TRUE]
        /\ lists' = [lists EXCEPT ![l] = TRUE]
        /\ tcl' = [TclIdle EXCEPT !.at = "opening", !.sock = l,
                                  !.todo = AcceptCap]
     \/ \* bind or listen failed
        /\ life' = [life EXCEPT ![l] = "openFailed"]
        /\ UNCHANGED <<handle, lists, tcl>>
  /\ UNCHANGED <<channel, flags, ops, out, readyAccepts, accepting, ct, fault>>

\* One turn of that loop.  When AcceptEx or WSASocket fails the SocketInfo is
\* freed at once, whatever the turns before it have posted.
OpenServerPost ==
  LET l == tcl.sock
  IN  /\ tcl.at = "opening" /\ tcl.todo > 0
      /\ \/ /\ Counted(l, 1)
            /\ Posted(l, "ACCEPT")
            /\ tcl' = [tcl EXCEPT !.todo = @ - 1]
            /\ UNCHANGED <<life, handle, readyAccepts, fault>>
         \/ /\ FreeSocketInfo(l, "openFailed")
            /\ tcl' = TclIdle
            /\ UNCHANGED <<ops, out>>
      /\ UNCHANGED <<channel, flags, lists, accepting, ct>>

\* Iocp_OpenTcpServer: the listener gets its acceptProc and its channel.
OpenServerDone ==
  /\ tcl.at = "opening" /\ tcl.todo = 0
  /\ channel' = [channel EXCEPT ![tcl.sock] = "open"]
  /\ tcl' = TclIdle
  /\ UNCHANGED <<life, flags, ops, out, handle, lists, readyAccepts,
                 accepting, ct, fault>>

-----------------------------------------------------------------------------
\* The Tcl thread: an accepted socket, reading and writing.

\* IocpAcceptOne up to the acceptProc callback.  The script runs between this
\* step and AcceptReturn, and may call any other driver procedure meanwhile.
AcceptOne(l) ==
  /\ tcl.at = "idle" /\ accepting = None
  /\ channel[l] = "open" /\ readyAccepts[l] # <<>>
  /\ channel' = [channel EXCEPT ![Head(readyAccepts[l])] = "open"]
  /\ readyAccepts' = [readyAccepts EXCEPT ![l] = Tail(@)]
  /\ accepting' = l
  /\ UNCHANGED <<life, flags, ops, out, handle, lists, tcl, ct, fault>>

\* The rest of IocpAcceptOne: it reads the listener's tsdHome and readyAccepts.
AcceptReturn ==
  /\ tcl.at = "idle" /\ accepting # None
  /\ accepting' = None
  /\ UNCHANGED <<sockVars, tcl, ct, fault>>

\* IocpOutputProc, IocpInputProc's RepostRecvs and the loop of a listener's
\* -backlog option, up to the overlapped call.
PostBegin(s, op) ==
  /\ tcl.at = "idle" /\ channel[s] = "open"
  /\ Taken(s, op) < Cap[op]
  /\ Counted(s, 1)
  /\ tcl' = [TclIdle EXCEPT !.at = "posting", !.sock = s, !.op = op]
  /\ UNCHANGED <<life, channel, flags, out, handle, lists, readyAccepts,
                 accepting, ct, fault>>

\* WSARecv, WSASend or AcceptEx.  An immediate error of the first two is posted
\* to the completion port by hand, so the operation completes in any case; after
\* one of AcceptEx the count is taken back.
PostEnd ==
  /\ tcl.at = "posting"
  /\ \/ Posted(tcl.sock, tcl.op) /\ UNCHANGED ops
     \/ tcl.op = "ACCEPT" /\ Counted(tcl.sock, -1) /\ UNCHANGED out
  /\ tcl' = TclIdle
  /\ UNCHANGED <<life, channel, flags, handle, lists, readyAccepts, accepting,
                 ct, fault>>

-----------------------------------------------------------------------------
\* The Tcl thread: IocpClose2Proc, one step per access to shared state.

\* Mutant of CloseBegin: no artificial count.
CloseBeginUncounted(s) ==
  /\ tcl.at = "idle" /\ channel[s] = "open"
  /\ At("closeFlag", s)
  /\ UNCHANGED <<sockVars, accepting, ct, fault>>

\* "Artificially increment the count."
CloseBegin(s) ==
  /\ tcl.at = "idle" /\ channel[s] = "open"
  /\ Counted(s, 1)
  /\ At("closeFlag", s)
  /\ UNCHANGED <<life, channel, flags, out, handle, lists, readyAccepts,
                 accepting, ct, fault>>

CloseFlag ==
  LET s == tcl.sock
  IN  /\ tcl.at = "closeFlag"
      /\ flags' = [flags EXCEPT ![s] = @ \cup {"CLOSING"}]
      /\ channel' = [channel EXCEPT ![s] = "closed"]
      /\ At(IF s \in Clients THEN "closeCount" ELSE "closeMark", s)
      /\ UNCHANGED <<life, ops, out, handle, lists, readyAccepts,
                     accepting, ct, fault>>

\* Mutant of CloseCount: DisconnectEx is posted without being counted.
CloseCountUncounted ==
  /\ tcl.at = "closeCount"
  /\ At("closePost", tcl.sock)
  /\ UNCHANGED <<sockVars, accepting, ct, fault>>

\* PostOverlappedDisconnect for a client.
CloseCount ==
  /\ tcl.at = "closeCount"
  /\ Counted(tcl.sock, 1)
  /\ At("closePost", tcl.sock)
  /\ UNCHANGED <<life, channel, flags, out, handle, lists, readyAccepts,
                 accepting, ct, fault>>

ClosePost ==
  /\ tcl.at = "closePost"
  /\ Posted(tcl.sock, "DISCONNECT")
  /\ tcl' = TclIdle
  /\ UNCHANGED <<life, channel, flags, ops, handle, lists, readyAccepts,
                 accepting, ct, fault>>

\* The three steps for a listener.
CloseMark ==
  /\ tcl.at = "closeMark"
  /\ flags' = [flags EXCEPT ![tcl.sock] = @ \cup {"CLOSABLE"}]
  /\ At("closeDrop", tcl.sock)
  /\ UNCHANGED <<life, channel, ops, out, handle, lists, readyAccepts,
                 accepting, ct, fault>>

CloseDrop ==
  /\ tcl.at = "closeDrop"
  /\ Counted(tcl.sock, -1)
  /\ At("closeSocket", tcl.sock)
  /\ UNCHANGED <<life, channel, flags, out, handle, lists, readyAccepts,
                 accepting, ct, fault>>

CloseSocket ==
  /\ tcl.at = "closeSocket"
  /\ handle' = [handle EXCEPT ![tcl.sock] = FALSE]
  /\ tcl' = TclIdle
  /\ UNCHANGED <<life, channel, flags, ops, out, lists, readyAccepts,
                 accepting, ct, fault>>

-----------------------------------------------------------------------------
\* The completion thread: CompletionThreadProc and HandleIo.  A completion for
\* a freed SocketInfo has no defined effect and is not modelled: Dequeued
\* requires a live socket.

Handled(s) == ct' = [at |-> "done", sock |-> s]

\* OP_ACCEPT with a connection: NewAcceptSockInfo makes c, which is queued for
\* Tcl with its first receives posted, or is a dud when one of them is refused.
Accepted(l, c) ==
  /\ life[c] = "unused"
  /\ life' = [life EXCEPT ![c] = "live"]
  /\ handle' = [handle EXCEPT ![c] = TRUE]
  /\ lists' = [lists EXCEPT ![c] = TRUE]
  /\ \/ /\ ops' = [ops EXCEPT ![c] = InitialRecvCount]
        /\ out' = [out EXCEPT ![l].ACCEPT = @ - 1, ![c].READ = InitialRecvCount]
        /\ readyAccepts' = [readyAccepts EXCEPT ![l] = Append(@, c)]
        /\ UNCHANGED flags
     \/ \E i \in 0 .. InitialRecvCount - 1 :
          /\ ops' = [ops EXCEPT ![c] = i + 1]
          /\ out' = [out EXCEPT ![l].ACCEPT = @ - 1, ![c].READ = i,
                                ![c].DISCONNECT = 1]
          /\ flags' = [flags EXCEPT ![c] = {"CLOSING"}]
          /\ UNCHANGED readyAccepts

\* OP_ACCEPT.  An error is followed by a replacement AcceptEx; a cancelled
\* call, WSAENOTSOCK and WSAENOBUFS are not.
HandleAccept(l) ==
  /\ ct.at = "idle" /\ life[l] = "live" /\ out[l].ACCEPT > 0
  /\ \/ \E c \in Clients : Accepted(l, c) /\ ct' = [at |-> "replace", sock |-> l]
     \/ /\ out' = [out EXCEPT ![l].ACCEPT = @ - 1]
        /\ \E at \in {"replace", "done"} : ct' = [at |-> at, sock |-> l]
        /\ UNCHANGED <<life, handle, lists, ops, readyAccepts, flags>>
  /\ UNCHANGED <<channel, tcl, accepting, fault>>

\* The replacement.  PostOverlappedAccept refuses when closing, at the cap,
\* without a new SOCKET, or when AcceptEx fails; its look at IOCP_CLOSING may be
\* older than the flag.
ReplaceAccept ==
  LET l == ct.sock
  IN  /\ ct.at = "replace"
      /\ \/ /\ handle[l] /\ Taken(l, "ACCEPT") < AcceptCap
            /\ Counted(l, 1)
            /\ Posted(l, "ACCEPT")
         \/ UNCHANGED <<ops, out>>
      /\ Handled(l)
      /\ UNCHANGED <<life, channel, flags, handle, lists, readyAccepts, tcl,
                     accepting, fault>>

\* OP_READ: with data, burst mode may post a replacement; without, a closing
\* socket becomes closable.  A cancelled WSARecv (aborted) only leaves.
HandleRead(c) ==
  /\ Dequeued(c, "READ")
  /\ \/ UNCHANGED <<ops, flags>>
     \/ /\ "CLOSING" \in flags[c]
        /\ flags' = [flags EXCEPT ![c] = @ \cup {"CLOSABLE"}]
        /\ UNCHANGED ops
  /\ Handled(c)
  /\ UNCHANGED <<life, channel, handle, lists, readyAccepts, tcl, accepting,
                 fault>>

\* OP_READ with data in burst mode: PostOverlappedRecv looks at IOCP_CLOSING and
\* goes on to RecvPost.
HandleReadBurst(c) ==
  /\ Dequeued(c, "READ")
  /\ "CLOSING" \notin flags[c]
  /\ ct' = [at |-> "burst", sock |-> c]
  /\ UNCHANGED <<life, channel, flags, ops, handle, lists, readyAccepts, tcl,
                 accepting, fault>>

\* OP_WRITE only frees its buffer and may wake Tcl.
HandleWrite(c) ==
  /\ Dequeued(c, "WRITE")
  /\ Handled(c)
  /\ UNCHANGED <<life, channel, flags, ops, handle, lists, readyAccepts, tcl,
                 accepting, fault>>

\* OP_CONNECT creates llPendingRecv and, when the connect worked and the
\* socket is not closing, goes on to post the first receives.
HandleConnect(c) ==
  /\ Dequeued(c, "CONNECT")
  /\ lists' = [lists EXCEPT ![c] = TRUE]
  /\ \/ Handled(c)
     \/ "CLOSING" \notin flags[c] /\ ct' = [at |-> "first", sock |-> c]
  /\ UNCHANGED <<life, channel, flags, ops, handle, readyAccepts, tcl, accepting,
                 fault>>

\* The WSARecv calls of those two: the initial ones, or in burst mode one more
\* for each that has its data at once, up to the cap.  IOCP_CLOSING may have
\* been set since.
RecvPost ==
  LET c == ct.sock
  IN  /\ ct.at \in {"burst", "first"}
      /\ \E n \in 0 .. IF ct.at = "first" THEN InitialRecvCount ELSE RecvCap :
           /\ n > 0 => Taken(c, "READ") + n <= RecvCap
           /\ Counted(c, n)
           /\ out' = [out EXCEPT ![c].READ = @ + n]
      /\ Handled(c)
      /\ UNCHANGED <<life, channel, flags, handle, lists, readyAccepts, tcl,
                     accepting, fault>>

\* Mutant of HandleDisconnect: the extra reference is not taken back.
HandleDisconnectKeepsRef(c) ==
  /\ Dequeued(c, "DISCONNECT")
  /\ flags' = [flags EXCEPT ![c] = @ \cup {"CLOSABLE"}]
  /\ Handled(c)
  /\ UNCHANGED <<life, channel, ops, handle, lists, readyAccepts, tcl, accepting,
                 fault>>

\* OP_DISCONNECT: "remove the extra ref count."
HandleDisconnect(c) ==
  /\ Dequeued(c, "DISCONNECT")
  /\ Counted(c, -1)
  /\ flags' = [flags EXCEPT ![c] = @ \cup {"CLOSABLE"}]
  /\ Handled(c)
  /\ UNCHANGED <<life, channel, handle, lists, readyAccepts, tcl, accepting,
                 fault>>

\* Mutant of Done: IOCP_CLOSABLE is not looked at.
DoneUnclosed ==
  LET s == ct.sock
  IN  /\ ct.at = "done"
      /\ Counted(s, -1)
      /\ ct' = IF ops'[s] <= 0 THEN [at |-> "free", sock |-> s] ELSE CtIdle
      /\ UNCHANGED <<life, channel, flags, out, handle, lists, readyAccepts,
                     tcl, accepting, fault>>

\* The label done of HandleIo.
Done ==
  LET s == ct.sock
  IN  /\ ct.at = "done"
      /\ Counted(s, -1)
      /\ ct' = IF ops'[s] <= 0 /\ "CLOSABLE" \in flags[s]
                 THEN [at |-> "free", sock |-> s] ELSE CtIdle
      /\ UNCHANGED <<life, channel, flags, out, handle, lists, readyAccepts,
                     tcl, accepting, fault>>

\* "This is the last operation."
FreeLast ==
  /\ ct.at = "free"
  /\ FreeSocketInfo(ct.sock, "lastOp")
  /\ ct' = IF fault' THEN ct ELSE CtIdle
  /\ UNCHANGED <<channel, flags, ops, out, lists, tcl, accepting>>

-----------------------------------------------------------------------------
\* Steps the Tcl thread takes because it is inside a driver procedure, and
\* calls that a script or the event loop may make.  An access violation on
\* either thread ends the process (Tcl_Panic for the completion thread).
TclStep ==
  /\ ~fault
  /\ \/ OpenServerPost \/ OpenServerDone \/ PostEnd
     \/ CloseFlag \/ CloseCount \/ ClosePost
     \/ CloseMark \/ CloseDrop \/ CloseSocket

TclCall ==
  /\ ~fault
  /\ \/ \E c \in Clients : OpenClient(c) \/ OpenClientAsync(c)
     \/ \E l \in Listeners : OpenServer(l) \/ AcceptOne(l)
     \/ \E c \in Clients, op \in {"READ", "WRITE"} : PostBegin(c, op)
     \/ \E l \in Listeners : PostBegin(l, "ACCEPT")
     \/ \E s \in Sockets : CloseBegin(s)
     \/ AcceptReturn

CtTake(s) ==
  /\ ~fault
  /\ \/ s \in Listeners /\ HandleAccept(s)
     \/ /\ s \in Clients
        /\ \/ HandleRead(s) \/ HandleReadBurst(s) \/ HandleWrite(s)
           \/ HandleConnect(s) \/ HandleDisconnect(s)

CtStep == ~fault /\ (ReplaceAccept \/ RecvPost \/ Done \/ FreeLast)

Next == TclStep \/ TclCall \/ CtStep \/ \E s \in Sockets : CtTake(s)

Spec == Init /\ [][Next]_vars

(***************************************************************************)
(* Fairness.  A thread that is inside a C function goes on running.  Once a *)
(* socket is closing (its DisconnectEx is posted, or a listener's SOCKET is  *)
(* closed) Winsock completes what is still outstanding, and the completion  *)
(* port is first in, first out, so each such completion is handled although *)
(* others keep coming: strong fairness.  Nothing is assumed of an open       *)
(* socket, whose peer may stay silent, nor of scripts.                       *)
(***************************************************************************)
Fairness ==
  /\ WF_vars(TclStep)
  /\ WF_vars(CtStep)
  /\ \A s \in Sockets : SF_vars("CLOSING" \in flags[s] /\ CtTake(s))

FairSpec == Spec /\ Fairness

-----------------------------------------------------------------------------
\* Properties.

\* What outstandingOps stands for: the operations Winsock has, the completion
\* HandleIo is in the middle of, ...
Total(s) == out[s].ACCEPT + out[s].READ + out[s].WRITE + out[s].CONNECT
              + out[s].DISCONNECT
Held(s)  == IF ct.sock = s /\ ct.at \notin {"idle", "free"} THEN 1 ELSE 0
Quiet(s) == Total(s) = 0

\* ... the references the Tcl thread takes before it posts something, the
\* artificial one of IocpClose2Proc among them, and what OP_DISCONNECT will take
\* back.  The dud branch of OP_ACCEPT never took the artificial one, so a dud
\* ends up one short.
TclRefs(s) ==
  IF tcl.sock = s /\ tcl.at = "closePost" THEN 2
  ELSE IF /\ tcl.sock = s
          /\ tcl.at \in {"posting", "closeFlag", "closeCount", "closeMark",
                        "closeDrop"} THEN 1
  ELSE 0

Dud(c) == channel[c] = "never" /\ "CLOSING" \in flags[c]

DisconnectRef(s) ==
  IF s \in Clients /\ channel[s] = "closed" THEN out[s].DISCONNECT
  ELSE IF s \in Clients /\ Dud(s) THEN out[s].DISCONNECT - 1
  ELSE 0

\* outstandingOps is exact for every socket in use, in the middle of a close, a
\* completion or an accept too: no increment or decrement of the two threads is
\* missing or done twice (iocpsock_lolevel.c:637, 664, 1764, 1848, 1946, 1992,
\* 2510, 2530).
Balanced(s) ==
  life[s] = "live" =>
    ops[s] = Total(s) + Held(s) + TclRefs(s) + DisconnectRef(s)

OpsBalance == \A s \in Sockets : Balanced(s)

\* HandleIo frees a SocketInfo when outstandingOps says "This is the last
\* operation." (iocpsock_lolevel.c:2529-2534).  Then no overlapped operation of
\* that socket is outstanding, so no completion can arrive for freed memory.
LastOpIsLast ==
  /\ \A s \in Sockets : life[s] = "lastOp" => Quiet(s)
  /\ ct.at = "free" => Quiet(ct.sock)

\* A client socket that Tcl still has a channel for, or that the Tcl thread is
\* inside a driver procedure of (IocpClose2Proc included), is never freed by
\* the completion thread: the artificial count holds it.
TclClientIsLive ==
  \A c \in Clients : channel[c] = "open" \/ tcl.sock = c => life[c] = "live"

\* FreeSocketInfo runs at most once for a SocketInfo: freed memory stays freed.
FreedOnce == [][\A s \in Sockets : life[s] \in Freed => life'[s] = life[s]]_vars

\* A client socket that is closing, whether IocpClose2Proc or the dud branch of
\* OP_ACCEPT asked for it, is freed in the end: the extra references and
\* outstandingOps balance out.
ClosingClientIsFreed ==
  \A c \in Clients : "CLOSING" \in flags[c] ~> life[c] = "lastOp"

\* The promise made to the Tcl side, SocketContract, is kept: the phase of a
\* client is read off life and IOCP_CLOSING, and what is pending is what Winsock
\* has plus the operation the completion thread is in the middle of.
PhaseOf(c) ==
  IF life[c] = "unused" THEN "none"
  ELSE IF life[c] \in Freed THEN "gone"
  ELSE IF "CLOSING" \in flags[c] THEN "closing" ELSE "open"
PendingOf(c) == Total(c) + Held(c)
AdoptedOf(c) == channel[c] # "never"

Contract == INSTANCE SocketContract WITH
  phase   <- [c \in Clients |-> PhaseOf(c)],
  pending <- [c \in Clients |-> PendingOf(c)],
  adopted <- [c \in Clients |-> AdoptedOf(c)]

ImplementsContract == Contract!Spec

-----------------------------------------------------------------------------
\* The inductive invariant: what holds of each socket, and where the threads
\* can be.

SocketInv(s) ==
  /\ Balanced(s)
  /\ life[s] = "lastOp" => Quiet(s)
  /\ channel[s] = "open" => life[s] = "live" /\ flags[s] = {}
  /\ "CLOSABLE" \in flags[s] => "CLOSING" \in flags[s]
  /\ \* never in use, or thrown away without a close
     life[s] \in {"unused", "drained", "openFailed"} =>
       channel[s] = "never" /\ flags[s] = {}
  /\ life[s] = "unused" => Quiet(s) /\ ops[s] = 0
  /\ s \in Listeners /\ flags[s] # {} => channel[s] = "closed"
  /\ s \in Clients =>
       /\ channel[s] = "closed" => "CLOSING" \in flags[s]
       /\ "CLOSING" \notin flags[s] => out[s].DISCONNECT = 0
       /\ Dud(s) /\ life[s] = "live" =>
            /\ Total(s) = out[s].DISCONNECT
            /\ \/ out[s].DISCONNECT = 1 /\ ct.sock # s
               \/ /\ out[s].DISCONNECT = 0
                  /\ ct.sock = s /\ ct.at \in {"done", "free"}
                  /\ "CLOSABLE" \in flags[s]

TclPlace ==
  LET s == tcl.sock
  IN  /\ tcl.at = "idle" <=> s = None
      /\ tcl.at = "opening" =>
           s \in Listeners /\ life[s] = "live" /\ channel[s] = "never"
      /\ tcl.at = "posting" =>
           /\ channel[s] = "open"
           /\ \/ s \in Clients /\ tcl.op \in {"READ", "WRITE"}
              \/ s \in Listeners /\ tcl.op = "ACCEPT"
      /\ tcl.at = "closeFlag" => channel[s] = "open"
      /\ tcl.at \in {"closeCount", "closePost"} =>
           s \in Clients /\ channel[s] = "closed" /\ life[s] = "live"
      /\ tcl.at \in {"closeMark", "closeDrop"} =>
           /\ s \in Listeners /\ channel[s] = "closed" /\ life[s] = "live"
           /\ "CLOSING" \in flags[s]
      /\ tcl.at = "closeSocket" => s \in Listeners /\ channel[s] = "closed"

CtPlace ==
  LET s == ct.sock
  IN  /\ ct.at = "idle" <=> s = None
      /\ ct.at = "replace" => s \in Listeners
      /\ ct.at \in {"burst", "first"} => s \in Clients
      /\ ct.at \notin {"idle", "free"} => life[s] \notin {"unused", "lastOp"}
      /\ ct.at = "free" =>
           life[s] = "live" /\ ops[s] <= 0 /\ "CLOSABLE" \in flags[s]

\* An accepted client waits in one place of one queue, untouched by Tcl.
QueuedAreNew ==
  \A l \in Sockets : \A i \in DOMAIN readyAccepts[l] :
    LET c == readyAccepts[l][i]
    IN  /\ life[c] = "live" /\ channel[c] = "never" /\ flags[c] = {}
        /\ \A k \in Sockets : \A j \in DOMAIN readyAccepts[k] :
             readyAccepts[k][j] = c => k = l /\ j = i

IInv == /\ TypeOK
        /\ \A s \in Sockets : SocketInv(s)
        /\ TclPlace /\ CtPlace /\ QueuedAreNew

-----------------------------------------------------------------------------
\* What comments and the manual say, and this code does not do.

\* The comment of FreeSocketInfo's drain of readyAccepts: "So this is safe."
\* (iocpsock_lolevel.c:1546-1547).  It would be if the accepted sockets freed there
\* had nothing outstanding.
DrainedIsQuiet == \A s \in Sockets : life[s] = "drained" => Quiet(s)

\* A listener that has been closed is freed in the end.
ClosedListenerIsFreed ==
  \A l \in Listeners : "CLOSABLE" \in flags[l] ~> life[l] = "lastOp"
=============================================================================
