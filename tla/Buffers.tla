------------------------------- MODULE Buffers -------------------------------
(***************************************************************************)
(* Who owns a BufferInfo (src/iocpsock_lolevel.c): GetBufferObj and            *)
(* FreeBufferObj, the PostOverlapped procedures and what their callers do when    *)
(* they fail, IocpInputProc with its filters, IocpOutputProc, IocpClose2Proc,     *)
(* every branch of HandleIo, and the drain of FreeSocketInfo.                   *)
(*                                                                          *)
(* One socket is followed: a stream client, one whose asynchronous connect is    *)
(* outstanding, or a listener.  A step is what one thread does with one buffer,   *)
(* so the completion thread may take a buffer off the port before the thread       *)
(* that posted it goes on.  The caps of RecvFlow, Notifier and AcceptPool may       *)
(* refuse at any time.  The first receive of an accepted socket is that socket's.   *)
(***************************************************************************)
EXTENDS Integers, FiniteSets

CONSTANTS
  Buffers,
  None,
  Kinds,      \* a subset of {"client", "connecting", "listener"}
  Modes,      \* the receive modes: a subset of {"zero", "flow", "burst"}
  MaxData,    \* bound on the receives with data and the connections accepted
  MaxLost     \* bound on the buffers that two branches of the code lose

ASSUME BuffersAssumption ==
  /\ IsFiniteSet(Buffers) /\ None \notin Buffers
  /\ Kinds \subseteq {"client", "connecting", "listener"}
  /\ Modes \subseteq {"zero", "flow", "burst"}
  /\ MaxData \in Nat /\ MaxLost \in Nat

Threads == {"tcl", "ct"}
Operations == {"none", "READ", "WRITE", "CONNECT", "DISCONNECT", "ACCEPT"}
Results == {"none", "data", "alert", "eof", "ok", "error", "nobufs", "aborted"}

VARIABLES
  kind, mode,
  live,     \* the BufferInfos that are allocated
  op,       \* their operation
  res,      \* how that ended: used and WSAerr
  winsock,  \* those of outstanding overlapped calls
  port,     \* those on the completion port
  queue,    \* those in llPendingRecv
  at,       \* where each thread is
  held,     \* the buffer it processes: bufPtr
  hand,     \* the buffer it is about to post: newBufPtr
  flags,    \* of IOCP_EOF, IOCP_CLOSING, IOCP_CLOSABLE
  ops,      \* outstandingOps
  info,     \* the SocketInfo: "live" or "freed"
  left,     \* data and connections still to come
  lost,     \* the buffers of SendNotConn and HandleDud, which nobody owns
  wild,     \* the buffer of SendNoBufs, freed while it is on the port
  fault     \* a freed buffer was freed again, or something freed was used

socket == <<kind, mode>>
memory == <<live, op, res>>
calls  == <<winsock, port>>
ghosts == <<lost, wild>>
vars == <<socket, memory, calls, queue, at, held, hand, flags, ops, info, left, ghosts, fault>>

Places ==
  {"idle", "popped", "more", "repost", "get", "recv", "send", "accept", "disconnect",
   "closed", "handle", "push", "getError", "pushNew", "release", "replace", "done"}

TypeOK ==
  /\ kind \in {"client", "connecting", "listener"} /\ mode \in {"zero", "flow", "burst"}
  /\ live \subseteq Buffers
  /\ op \in [Buffers -> Operations] /\ res \in [Buffers -> Results]
  /\ winsock \subseteq Buffers /\ port \subseteq Buffers /\ queue \subseteq Buffers
  /\ at \in [Threads -> Places]
  /\ held \in [Threads -> Buffers \cup {None}] /\ hand \in [Threads -> Buffers \cup {None}]
  /\ flags \subseteq {"EOF", "CLOSING", "CLOSABLE"}
  /\ ops \in Int /\ info \in {"live", "freed"}
  /\ left \in 0 .. MaxData /\ lost \subseteq Buffers /\ wild \subseteq Buffers
  /\ fault \in BOOLEAN

\* A client has its first receive outstanding, a listener nothing yet.
Init ==
  /\ kind \in Kinds /\ mode \in Modes
  /\ \E b \in Buffers :
       /\ live = IF kind = "listener" THEN {} ELSE {b}
       /\ op = [x \in Buffers |-> IF x \notin live THEN "none"
                                  ELSE IF kind = "client" THEN "READ" ELSE "CONNECT"]
  /\ winsock = live /\ port = {} /\ queue = {}
  /\ res = [x \in Buffers |-> "none"]
  /\ at = [t \in Threads |-> "idle"]
  /\ held = [t \in Threads |-> None] /\ hand = [t \in Threads |-> None]
  /\ flags = {} /\ ops = Cardinality(live) /\ info = "live"
  /\ left = MaxData /\ lost = {} /\ wild = {} /\ fault = FALSE

-----------------------------------------------------------------------------
(* Helpers                                                                  *)

Goto(t, place) == at' = [at EXCEPT ![t] = place]
Holds(t, b)    == held' = [held EXCEPT ![t] = b]
Hands(t, b)    == hand' = [hand EXCEPT ![t] = b]

\* GetBufferObj
Get(t, place) ==
  \E b \in Buffers \ live :
    /\ live' = live \cup {b} /\ Hands(t, b) /\ Goto(t, place)
    /\ UNCHANGED <<socket, op, res, calls, queue, held, flags, ops, info, left, ghosts, fault>>

\* FreeBufferObj, of each.
Free(B) ==
  /\ live' = live \ B
  /\ op'  = [b \in Buffers |-> IF b \in B THEN "none" ELSE op[b]]
  /\ res' = [b \in Buffers |-> IF b \in B THEN "none" ELSE res[b]]
  /\ fault' = (fault \/ ~(B \subseteq live))

\* An overlapped call that Winsock takes, or that is posted to the port by hand or
\* because it ended at once.
Pends(b, operation) ==
  /\ winsock' = winsock \cup {b} /\ op' = [op EXCEPT ![b] = operation]
  /\ UNCHANGED <<port, res>>
Ends(b, operation, result) ==
  /\ port' = port \cup {b}
  /\ op' = [op EXCEPT ![b] = operation] /\ res' = [res EXCEPT ![b] = result]
  /\ UNCHANGED winsock

-----------------------------------------------------------------------------
(* PostOverlappedRecv and PostOverlappedAccept, with what their callers do      *)

\* Whose receive it is decides what comes after it.
AfterRecv(t) ==
  IF t = "tcl" THEN "idle" ELSE IF op[held.ct] = "CONNECT" THEN "release" ELSE "push"

UseBurst(t) == mode = "burst" /\ AfterRecv(t) # "release"

\* The socket is done with receiving, or the cap is reached: the caller frees.
RecvRefused(t) ==
  /\ at[t] = "recv" /\ Free({hand[t]})
  /\ Hands(t, None) /\ Goto(t, AfterRecv(t))
  /\ UNCHANGED <<socket, calls, queue, held, flags, ops, info, left, ghosts>>

CanRecv(t) == at[t] = "recv" /\ {"EOF", "CLOSING"} \cap flags = {}

RecvPends(t) ==
  /\ CanRecv(t) /\ Pends(hand[t], "READ") /\ ops' = ops + 1
  /\ Hands(t, None) /\ Goto(t, AfterRecv(t))
  /\ UNCHANGED <<socket, live, queue, held, flags, info, left, ghosts, fault>>

\* It completed with data: in a burst another buffer follows.
RecvAtOnce(t) ==
  /\ CanRecv(t) /\ mode # "zero" /\ left > 0 /\ left' = left - 1
  /\ Ends(hand[t], "READ", "data") /\ ops' = ops + 1
  /\ Hands(t, None) /\ Goto(t, IF UseBurst(t) THEN "get" ELSE AfterRecv(t))
  /\ UNCHANGED <<socket, live, queue, held, flags, info, ghosts, fault>>

\* Mutant of RecvFails: the caller takes the error for a refusal.
RecvFailsFreed(t) ==
  /\ CanRecv(t)
  /\ port' = port \cup {hand[t]} /\ UNCHANGED winsock
  /\ Free({hand[t]}) /\ ops' = ops + 1
  /\ Hands(t, None) /\ Goto(t, AfterRecv(t))
  /\ UNCHANGED <<socket, queue, held, flags, info, left, ghosts>>

\* The error is posted to the port by hand.
RecvFails(t) ==
  /\ CanRecv(t) /\ \E e \in {"error", "nobufs"} : Ends(hand[t], "READ", e)
  /\ ops' = ops + 1
  /\ Hands(t, None) /\ Goto(t, AfterRecv(t))
  /\ UNCHANGED <<socket, live, queue, held, flags, info, left, ghosts, fault>>

PostOverlappedRecv(t) == RecvRefused(t) \/ RecvPends(t) \/ RecvAtOnce(t) \/ RecvFails(t)

AfterAccept(t) == IF t = "tcl" THEN "idle" ELSE "done"

\* Closing, the cap, WSASocket or AcceptEx: the caller frees.
AcceptRefused(t) ==
  /\ at[t] = "accept" /\ Free({hand[t]})
  /\ Hands(t, None) /\ Goto(t, AfterAccept(t))
  /\ UNCHANGED <<socket, calls, queue, held, flags, ops, info, left, ghosts>>

AcceptPends(t) ==
  /\ at[t] = "accept" /\ "CLOSING" \notin flags
  /\ Pends(hand[t], "ACCEPT") /\ ops' = ops + 1
  /\ Hands(t, None) /\ Goto(t, AfterAccept(t))
  /\ UNCHANGED <<socket, live, queue, held, flags, info, left, ghosts, fault>>

PostOverlappedAccept(t) == AcceptRefused(t) \/ AcceptPends(t)

-----------------------------------------------------------------------------
(* The Tcl thread                                                            *)

TclMay == at.tcl = "idle" /\ info = "live" /\ "CLOSING" \notin flags

\* IocpInputProc, and its loop: the front of llPendingRecv.
Pop ==
  /\ \/ TclMay
     \/ at.tcl = "more"
  /\ \E b \in queue : queue' = queue \ {b} /\ Holds("tcl", b)
  /\ Goto("tcl", "popped")
  /\ UNCHANGED <<socket, memory, calls, hand, flags, ops, info, left, ghosts, fault>>

NoMore ==
  /\ at.tcl = "more" /\ queue = {} /\ Goto("tcl", "repost")
  /\ UNCHANGED <<socket, memory, calls, queue, held, hand, flags, ops, info, left, ghosts, fault>>

\* FilterSingleOpRecvBuf, FilterPartialRecvBufMerge: it goes back to the front.
PutBack ==
  /\ at.tcl = "popped" /\ res[held.tcl] \in {"data", "eof"}
  /\ queue' = queue \cup {held.tcl} /\ Holds("tcl", None) /\ Goto("tcl", "repost")
  /\ UNCHANGED <<socket, memory, calls, hand, flags, ops, info, left, ghosts, fault>>

\* DoRecvBufMerge.  Data, or an alert whose direct WSARecv has data: a blocking
\* channel stops there.
Merge ==
  /\ at.tcl = "popped" /\ res[held.tcl] \in {"data", "alert"}
  /\ Free({held.tcl}) /\ Holds("tcl", None)
  /\ Goto("tcl", "more") \/ Goto("tcl", "repost")
  /\ UNCHANGED <<socket, calls, queue, hand, flags, ops, info, left, ghosts>>

\* The end, by the buffer or by the direct WSARecv.
MergeEof ==
  /\ at.tcl = "popped" /\ res[held.tcl] \in {"eof", "alert"}
  /\ Free({held.tcl}) /\ Holds("tcl", None) /\ Goto("tcl", "repost")
  /\ flags' = flags \cup {"EOF"}
  /\ UNCHANGED <<socket, calls, queue, hand, ops, info, left, ghosts>>

\* An error of either: IocpInputProc leaves without reposting.
MergeError ==
  /\ at.tcl = "popped" /\ res[held.tcl] \in {"error", "alert"}
  /\ Free({held.tcl}) /\ Holds("tcl", None) /\ Goto("tcl", "idle")
  /\ UNCHANGED <<socket, calls, queue, hand, flags, ops, info, left, ghosts>>

\* RepostRecvs
Repost ==
  /\ at.tcl = "repost"
  /\ \/ Goto("tcl", "get") /\ "EOF" \notin flags
     \/ Goto("tcl", "idle") /\ ("EOF" \in flags \/ mode = "burst")
  /\ UNCHANGED <<socket, memory, calls, queue, held, hand, flags, ops, info, left, ghosts, fault>>

\* IocpOutputProc
Output == TclMay /\ kind # "listener" /\ Get("tcl", "send")

Sent == at.tcl = "send" /\ Hands("tcl", None) /\ Goto("tcl", "idle")

SendRefused ==
  /\ Sent /\ "EOF" \notin flags /\ Free({hand.tcl})
  /\ UNCHANGED <<socket, calls, queue, held, flags, ops, info, left, ghosts>>

Loses(b) == lost' = lost \cup {b} /\ Cardinality(lost') <= MaxLost /\ UNCHANGED wild

\* WSAENOTCONN, after the end of input: the buffer is not freed.
SendNotConn ==
  /\ Sent /\ "EOF" \in flags /\ Loses(hand.tcl)
  /\ UNCHANGED <<socket, memory, calls, queue, held, flags, ops, info, left, fault>>

SendPends ==
  /\ Sent /\ "EOF" \notin flags /\ Pends(hand.tcl, "WRITE") /\ ops' = ops + 1
  /\ UNCHANGED <<socket, live, queue, held, flags, info, left, ghosts, fault>>

\* It ended at once, or the error is posted by hand.
SendEnds ==
  /\ Sent /\ "EOF" \notin flags /\ ops' = ops + 1
  /\ \E e \in {"ok", "error"} : Ends(hand.tcl, "WRITE", e)
  /\ UNCHANGED <<socket, live, queue, held, flags, info, left, ghosts, fault>>

\* WSASend itself says WSAENOBUFS: posted by hand, and freed as if refused.  What
\* the program does from there on is undefined, and the model stops.
SendNoBufs ==
  /\ Sent /\ "EOF" \notin flags /\ ops' = ops + 1
  /\ Ends(hand.tcl, "WRITE", "nobufs") /\ wild' = {hand.tcl}
  /\ UNCHANGED <<socket, live, queue, held, flags, info, left, lost, fault>>

\* CreateTcpSocket and -backlog: one turn of the loop.
Backlog == TclMay /\ kind = "listener" /\ Get("tcl", "accept")

\* IocpClose2Proc
Close ==
  /\ TclMay
  /\ IF kind = "listener"
     THEN flags' = flags \cup {"CLOSING", "CLOSABLE"} /\ Goto("tcl", "closed") /\ UNCHANGED ops
     ELSE flags' = flags \cup {"CLOSING"} /\ Goto("tcl", "replace") /\ ops' = ops + 1
  /\ UNCHANGED <<socket, memory, calls, queue, held, hand, info, left, ghosts, fault>>

CloseGet == at.tcl = "replace" /\ Get("tcl", "disconnect")

\* PostOverlappedDisconnect; OurDisconnectEx posts to the port itself.
Disconnect ==
  /\ at.tcl = "disconnect" /\ Hands("tcl", None) /\ Goto("tcl", "closed")
  /\ Pends(hand.tcl, "DISCONNECT") \/ Ends(hand.tcl, "DISCONNECT", "ok")
  /\ ops' = ops + 1
  /\ UNCHANGED <<socket, live, queue, held, flags, info, left, ghosts, fault>>

TclGets == at.tcl = "get" /\ Get("tcl", "recv")

Tcl ==
  \/ Pop \/ NoMore \/ PutBack \/ Merge \/ MergeEof \/ MergeError \/ Repost
  \/ Output \/ SendRefused \/ SendNotConn \/ SendPends \/ SendEnds \/ SendNoBufs
  \/ Backlog \/ Close \/ CloseGet \/ Disconnect \/ TclGets
  \/ PostOverlappedRecv("tcl") \/ PostOverlappedAccept("tcl")

-----------------------------------------------------------------------------
(* Winsock                                                                  *)

Outcomes(b) ==
  CASE op[b] = "READ"    -> (IF mode = "zero" THEN {"alert"} ELSE {"data", "eof"})
                            \cup {"error", "nobufs"}
    [] op[b] = "WRITE"   -> {"ok", "error", "nobufs"}
    [] op[b] = "CONNECT" -> {"ok", "error"}
    [] op[b] = "ACCEPT"  -> {"data", "error", "nobufs"}
    [] OTHER             -> {"ok"}

\* An overlapped call ends; that of a socket being closed may be aborted.
Complete(b) ==
  /\ b \in winsock /\ winsock' = winsock \ {b} /\ port' = port \cup {b}
  /\ \E r \in Outcomes(b) \cup (IF "CLOSING" \in flags /\ op[b] # "DISCONNECT"
                                THEN {"aborted"} ELSE {}) :
       /\ res' = [res EXCEPT ![b] = r]
       /\ r = "data" => left > 0
       /\ left' = IF r = "data" THEN left - 1 ELSE left
  /\ UNCHANGED <<socket, live, op, queue, at, held, hand, flags, ops, info, ghosts, fault>>

-----------------------------------------------------------------------------
(* The completion thread: HandleIo                                            *)

\* GetQueuedCompletionStatus
Take(b) ==
  /\ at.ct = "idle" /\ b \in port /\ port' = port \ {b}
  /\ Holds("ct", b) /\ Goto("ct", "handle")
  /\ fault' = (fault \/ info = "freed" \/ b \notin live)
  /\ UNCHANGED <<socket, memory, winsock, queue, hand, flags, ops, info, left, ghosts>>

Handles(operation, results, place) ==
  /\ at.ct = "handle" /\ op[held.ct] = operation /\ res[held.ct] \in results
  /\ Goto("ct", place)
  /\ UNCHANGED <<socket, memory, calls, queue, held, hand, info, left, ghosts, fault>>

HandleAborted ==
  /\ \E o \in Operations : Handles(o, {"aborted"}, "release")
  /\ UNCHANGED <<flags, ops>>

\* OP_READ with data: in a burst the buffer is replaced first, below the cap.
HandleData ==
  /\ \/ Handles("READ", {"data"}, "push")
     \/ mode = "burst" /\ Handles("READ", {"data"}, "get")
  /\ UNCHANGED <<flags, ops>>

HandleReadClosing ==
  /\ "CLOSING" \in flags /\ flags' = flags \cup {"CLOSABLE"}
  /\ Handles("READ", {"alert", "eof", "error", "nobufs"}, "release") /\ UNCHANGED ops

HandleReadNoBufs ==
  /\ "CLOSING" \notin flags /\ Handles("READ", {"nobufs"}, "release") /\ UNCHANGED <<flags, ops>>

HandleReadEnd ==
  /\ "CLOSING" \notin flags
  /\ Handles("READ", {"alert", "eof", "error"}, "push") /\ UNCHANGED <<flags, ops>>

HandleWrite == Handles("WRITE", {"ok", "error", "nobufs"}, "release") /\ UNCHANGED <<flags, ops>>

\* Connected, the first receive; failed, a new buffer carries the error.
HandleConnect ==
  /\ \/ Handles("CONNECT", {"ok"}, "get")
     \/ Handles("CONNECT", {"error"}, "getError")
  /\ UNCHANGED <<flags, ops>>

HandleDisconnect ==
  /\ Handles("DISCONNECT", {"ok"}, "release")
  /\ ops' = ops - 1 /\ flags' = flags \cup {"CLOSABLE"}

\* A dud connection goes to replace past the FreeBufferObj of the others.
HandleAccept ==
  /\ Handles("ACCEPT", {"data", "error", "nobufs"}, "release") /\ UNCHANGED <<flags, ops>>

HandleDud ==
  /\ at.ct = "handle" /\ op[held.ct] = "ACCEPT" /\ res[held.ct] = "data"
  /\ Loses(held.ct) /\ Holds("ct", None) /\ Goto("ct", "replace")
  /\ UNCHANGED <<socket, memory, calls, queue, hand, flags, ops, info, left, fault>>

CtGets ==
  \/ at.ct = "get" /\ Get("ct", "recv")
  \/ at.ct = "getError" /\ Get("ct", "pushNew")
  \/ at.ct = "replace" /\ Get("ct", "accept")

\* Mutant of Push: OP_READ frees its buffer as the other operations do.
PushAndFree ==
  /\ at.ct = "push" /\ queue' = queue \cup {held.ct} /\ Goto("ct", "release")
  /\ UNCHANGED <<socket, memory, calls, held, hand, flags, ops, info, left, ghosts, fault>>

\* IocpPushRecvAlertToTcl takes the buffer.
Push ==
  /\ at.ct = "push" /\ queue' = queue \cup {held.ct}
  /\ Holds("ct", None) /\ Goto("ct", "done")
  /\ UNCHANGED <<socket, memory, calls, hand, flags, ops, info, left, ghosts, fault>>

PushError ==
  /\ at.ct = "pushNew" /\ queue' = queue \cup {hand.ct}
  /\ op' = [op EXCEPT ![hand.ct] = "READ"] /\ res' = [res EXCEPT ![hand.ct] = "error"]
  /\ Hands("ct", None) /\ Goto("ct", "release")
  /\ UNCHANGED <<socket, live, calls, held, flags, ops, info, left, ghosts, fault>>

Release ==
  /\ at.ct = "release" /\ Free({held.ct}) /\ Holds("ct", None)
  /\ Goto("ct", IF op[held.ct] = "ACCEPT" /\ res[held.ct] \in {"data", "error"}
                THEN "replace" ELSE "done")
  /\ UNCHANGED <<socket, calls, queue, hand, flags, ops, info, left, ghosts>>

\* Mutant of Done: FreeSocketInfo leaves llPendingRecv as it is.
DoneUndrained ==
  /\ at.ct = "done" /\ Goto("ct", "idle") /\ ops' = ops - 1
  /\ info' = IF ops' <= 0 /\ "CLOSABLE" \in flags THEN "freed" ELSE info
  /\ UNCHANGED <<socket, memory, calls, queue, held, hand, flags, left, ghosts, fault>>

\* The last operation frees the SocketInfo, and with it what nobody has read.
Done ==
  /\ at.ct = "done" /\ Goto("ct", "idle") /\ ops' = ops - 1
  /\ IF ops' <= 0 /\ "CLOSABLE" \in flags
     THEN info' = "freed" /\ Free(queue) /\ queue' = {}
     ELSE UNCHANGED <<info, memory, queue, fault>>
  /\ UNCHANGED <<socket, calls, held, hand, flags, left, ghosts>>

CompletionThread ==
  \/ \E b \in Buffers : Take(b)
  \/ HandleAborted \/ HandleData \/ HandleReadClosing \/ HandleReadNoBufs \/ HandleReadEnd
  \/ HandleWrite \/ HandleConnect \/ HandleDisconnect \/ HandleAccept \/ HandleDud
  \/ CtGets \/ Push \/ PushError \/ Release \/ Done
  \/ PostOverlappedRecv("ct") \/ PostOverlappedAccept("ct")

Next == wild = {} /\ (Tcl \/ CompletionThread \/ \E b \in Buffers : Complete(b))

Spec == Init /\ [][Next]_vars

-----------------------------------------------------------------------------
(* Properties                                                               *)

InThreads == {held[t] : t \in Threads} \cup {hand[t] : t \in Threads}

\* Every allocated buffer has exactly one owner, on every path of both threads and
\* whichever call fails on the way: none is lost but by SendNotConn and HandleDud,
\* and none is freed while Winsock, the port, the list or the other thread has it.
OneOwner ==
  /\ TypeOK
  /\ live = winsock \cup port \cup queue \cup lost \cup (InThreads \ {None})
  /\ winsock \cap port = {} /\ (winsock \cup port) \cap (queue \cup lost) = {}
  /\ queue \cap lost = {}
  /\ InThreads \cap (winsock \cup port \cup queue \cup lost) = {}
  /\ \A s, t \in Threads : held[s] # None => held[s] # hand[t] /\ (s # t => held[s] # held[t])
  /\ hand.tcl # None => hand.tcl # hand.ct

\* When HandleIo frees the SocketInfo no buffer of it is left, but those lost: not
\* in Winsock, not on the port, not unread, and the Tcl thread is not on its way to
\* post one.
NothingRemains == info = "freed" => live = lost /\ at.tcl = "closed" /\ ~fault

OwnerOf ==
  [b \in Buffers |->
     IF b \in winsock \cup port THEN "winsock"
     ELSE IF b \in queue THEN "list"
     ELSE IF b \in live THEN "thread" ELSE "none"]

Contract == INSTANCE BufferContract WITH owner <- OwnerOf

\* No buffer is freed or handed on while Winsock may write into it: see there.
ImplementsContract == Contract!Spec
=============================================================================
