------------------------------ MODULE Notifier ------------------------------
(***************************************************************************)
(* How the completion thread tells a Tcl thread that a socket is ready:      *)
(* tsdPtr->readySockets, infoPtr->markedReady, infoPtr->watchMask, the Tcl   *)
(* event queue and Tcl_ThreadAlert (src/iocpsock_lolevel.c: IocpEventSetupProc, *)
(* IocpEventCheckProc, IocpEventProc, IocpAcceptOne, IocpWatchProc,          *)
(* IocpZapTclNotifier, IocpClose2Proc and the alerts of HandleIo).           *)
(*                                                                          *)
(* One Tcl thread owns every socket; the completion thread is the other      *)
(* thread.  A step touches shared state once, or is a critical section of    *)
(* readySockets->lock; IocpZapTclNotifier's section is two steps, because     *)
(* IocpClose2Proc looks at markedReady and at node.ll without the lock.      *)
(* readySockets is a list threaded through the SocketInfo structures.  It is  *)
(* modelled with what IocpLLPop does to it when the other thread has popped    *)
(* its node meanwhile: front and back become NULL and the nodes still linked  *)
(* to each other are on no list (linkedlist.c:335-385).  So the state is the  *)
(* chains of linked nodes next to front, back and lCount.                     *)
(* What a socket has to offer is a count: unread buffers, sends outstanding,  *)
(* accepted connections.                                                     *)
(***************************************************************************)
EXTENDS Naturals, SequencesExt

CONSTANTS
  Listeners, Clients,  \* the sockets
  None,                \* no socket
  Connecting,          \* clients whose asynchronous connect may not be over yet
  MaxRecvs,            \* bound on the unread buffers of a socket
  MaxAccepts,          \* bound on the connections waiting on a listener
  SendCap,             \* infoPtr->outstandingSendCap (-sendcap)
  SendNoBufs,          \* TRUE: Winsock may complete a send with WSAENOBUFS
  EmptyPopFaults       \* TRUE: IocpLLPopFront dereferences the NULL front of an
                       \* empty list (linkedlist.c:475-476); FALSE: it returns
                       \* NULL, as its comment says

Sockets == Listeners \cup Clients

ASSUME SocketsAssumption ==
  /\ Listeners \cap Clients = {}
  /\ None \notin Sockets
  /\ Connecting \subseteq Clients
ASSUME BoundsAssumption ==
  /\ MaxRecvs \in Nat /\ MaxAccepts \in Nat
  /\ SendCap \in Nat \ {0}
ASSUME SwitchAssumption ==
  /\ SendNoBufs \in BOOLEAN
  /\ EmptyPopFaults \in BOOLEAN

Threads == {"tcl", "ct"}
TclAt == {"idle", "wait", "checkBegin", "check", "checkChan", "watchTest",
          "outTest", "outUndo", "outWatch", "requeue", "closeFlag", "closePop", "closeEvents",
          "zap", "push", "alert"}
CtAt  == {"idle", "recvTest", "sentTest", "unlink", "zap", "push", "alert"}

VARIABLES
  st,       \* "open": infoPtr->channel is set; "closing": IOCP_CLOSING, channel
            \* NULL; "closed": IocpClose2Proc is over; "freed"
  conn,     \* "no": infoPtr->llPendingRecv is NULL; "yes", or "failed" when an
            \* asynchronous connect has failed: it is not NULL
  mask,     \* infoPtr->watchMask
  recvs,    \* IocpLLGetCount(infoPtr->llPendingRecv)
  sends,    \* infoPtr->outstandingSends
  cap,      \* infoPtr->outstandingSendCap
  accepts,  \* IocpLLGetCount(infoPtr->readyAccepts)
  marked,   \* infoPtr->markedReady
  chains,   \* the runs of linked nodes: each is a sequence of sockets whose
            \* node.ll is set, in the order of next
  front, back, \* readySockets->front and back, or None
  lCount,   \* readySockets->lCount
  evq,      \* the IocpEventProc events of the Tcl event queue
  alert,    \* a Tcl_ThreadAlert the notifier has not seen yet
  running,  \* socket whose script (file event or accept callback) is running
  pc, sock, \* where each thread is, and for which socket
  count,    \* evCount of IocpEventCheckProc, or what the increment of
            \* PostOverlappedSend has returned
  broken    \* what has ended the run, or "no"

sockVars == <<st, conn, mask, recvs, sends, cap, accepts>>
readySockets == <<chains, front, back, lCount>>
listVars == <<marked, readySockets>>
vars == <<sockVars, listVars, evq, alert, running, pc, sock, count, broken>>

\* "empty...": IocpLLPopFront on an empty list, by the procedure named.
\* "stale": a SocketInfo that has been freed is used.
Breaks == {"emptyAccept", "emptyCheck", "emptyDrain", "stale"}

TypeOK ==
  /\ st \in [Sockets -> {"open", "closing", "closed", "freed"}]
  /\ conn \in [Sockets -> {"no", "yes", "failed"}]
  /\ mask \in [Sockets -> SUBSET {"R", "W"}]
  /\ recvs \in [Sockets -> Nat]
  /\ sends \in [Sockets -> Nat]
  /\ cap \in [Sockets -> Nat]
  /\ accepts \in [Sockets -> Nat]
  /\ marked \in [Sockets -> BOOLEAN]
  /\ chains \subseteq Seq(Sockets)
  /\ front \in Sockets \cup {None}
  /\ back \in Sockets \cup {None}
  /\ lCount \in Nat
  /\ evq \in Seq(Sockets)
  /\ alert \in BOOLEAN
  /\ running \in Sockets \cup {None}
  /\ pc \in [Threads -> TclAt \cup CtAt]
  /\ pc["tcl"] \in TclAt /\ pc["ct"] \in CtAt
  /\ sock \in [Threads -> Sockets \cup {None}]
  /\ count \in Nat
  /\ broken \in Breaks \cup {"no"}

\* Listeners are listening and clients are connected; or some clients are still
\* connecting and there is no listener (any more).  All that are there have a
\* channel and nothing has happened yet.
Init ==
  /\ \E young \in SUBSET Connecting :
       /\ st = [s \in Sockets |-> IF s \in Listeners /\ young # {} THEN "freed" ELSE "open"]
       /\ conn = [s \in Sockets |-> IF s \in Clients \ young THEN "yes" ELSE "no"]
  /\ mask = [s \in Sockets |-> {}]
  /\ recvs = [s \in Sockets |-> 0]
  /\ sends = [s \in Sockets |-> 0]
  /\ cap = [s \in Sockets |-> SendCap]
  /\ accepts = [s \in Sockets |-> 0]
  /\ marked = [s \in Sockets |-> FALSE]
  /\ chains = {}
  /\ front = None
  /\ back = None
  /\ lCount = 0
  /\ evq = <<>>
  /\ alert = FALSE
  /\ running = None
  /\ pc = [t \in Threads |-> "idle"]
  /\ sock = [t \in Threads |-> None]
  /\ count = 0
  /\ broken = "no"

-----------------------------------------------------------------------------
In(q, s) == \E i \in DOMAIN q : q[i] = s

\* node.ll is set, ...
Linked(s) == \E q \in chains : In(q, s)
\* ... and front leads to it, ...
Listed(s) == \E q \in chains : q[1] = front /\ In(q, s)
\* ... or it does not: the list was emptied over it.
Stray(s) == Linked(s) /\ ~Listed(s)

Pending(s) == \E i \in DOMAIN evq : evq[i] = s

\* readySockets->lock is held across steps only inside IocpZapTclNotifier.
LockFree == \A t \in Threads : pc[t] # "push"

Goto(t, at, s) == /\ pc' = [pc EXCEPT ![t] = at]
                  /\ sock' = [sock EXCEPT ![t] = s]
Leave(t) == Goto(t, "idle", None)

\* IocpLLPushBack.
PushBack(s) ==
  /\ lCount' = lCount + 1
  /\ back' = s
  /\ \/ /\ front = None /\ back = None
        /\ front' = s
        /\ chains' = chains \cup {<<s>>}
     \/ /\ front # None
        /\ \E q \in chains :
             Last(q) = back /\ chains' = (chains \ {q}) \cup {Append(q, s)}
        /\ UNCHANGED front

\* The node s leaves the nodes it is linked to.  Without any it is taken for the
\* only one of the list.
Ends(rest, first, last) ==
  IF rest = <<>> \/ lCount' = 0
    THEN front' = None /\ back' = None
    ELSE /\ front' = IF first THEN rest[1] ELSE front
         /\ back' = IF last THEN Last(rest) ELSE back
Unlink(s) ==
  \/ /\ ~Linked(s)
     /\ Ends(<<>>, TRUE, TRUE)
     /\ UNCHANGED chains
  \/ \E q \in chains : \E i \in DOMAIN q :
       LET rest == RemoveAt(q, i)
       IN  /\ q[i] = s
           /\ Ends(rest, i = 1, i = Len(q))
           /\ chains' = (chains \ {q}) \cup ({rest} \ {<<>>})

\* IocpLLPop of the node of s, after its look at node->ll found a list.
Pop(s) ==
  IF (front = None /\ back = None) \/ lCount = 0
    THEN UNCHANGED readySockets
    ELSE lCount' = lCount - 1 /\ Unlink(s)

\* IocpLLPop writes to the neighbours of the node.
PopIsStale(s) ==
  /\ front # None
  /\ \E q \in chains : \E i, j \in DOMAIN q :
       q[i] = s /\ (j = i + 1 \/ i = j + 1) /\ st[q[j]] = "freed"

\* What IocpWatchProc and IocpEventProc call readable and writable.
HasInput(s) == recvs[s] > 0
HasList(s)  == conn[s] # "no"
CanSend(s)  == HasList(s) /\ sends[s] < cap[s]

-----------------------------------------------------------------------------
\* IocpZapTclNotifier, run by thread t for sock[t].

\* Mutant of ZapMark: the mark is set but not tested.
ZapUnmarked(t) ==
  /\ pc[t] = "zap" /\ LockFree
  /\ marked' = [marked EXCEPT ![sock[t]] = TRUE]
  /\ Goto(t, "push", sock[t])
  /\ UNCHANGED <<sockVars, readySockets, evq, alert, running, count, broken>>

ZapMark(t) ==
  /\ pc[t] = "zap" /\ LockFree
  /\ marked' = [marked EXCEPT ![sock[t]] = TRUE]
  /\ Goto(t, IF marked[sock[t]] THEN "alert" ELSE "push", sock[t])
  /\ UNCHANGED <<sockVars, readySockets, evq, alert, running, count, broken>>

ZapPush(t) ==
  /\ pc[t] = "push"
  /\ PushBack(sock[t])
  /\ Goto(t, "alert", sock[t])
  /\ UNCHANGED <<sockVars, marked, evq, alert, running, count, broken>>

ZapAlert(t) ==
  /\ pc[t] = "alert"
  /\ alert' = TRUE
  /\ Leave(t)
  /\ UNCHANGED <<sockVars, listVars, evq, running, count, broken>>

-----------------------------------------------------------------------------
\* The Tcl event loop: queued events first, then the event source.

TclFree == pc["tcl"] = "idle" /\ running = None

\* IocpEventSetupProc: do not block when the list is not empty.
EventSetup ==
  /\ TclFree /\ evq = <<>>
  /\ IF lCount # 0 THEN Goto("tcl", "checkBegin", None) /\ alert' = FALSE
                   ELSE Goto("tcl", "wait", None) /\ UNCHANGED alert
  /\ UNCHANGED <<sockVars, listVars, evq, running, count, broken>>

\* Tcl_WaitForEvent returns, for a Tcl_ThreadAlert or for another event source.
Wake(alerted) ==
  /\ pc["tcl"] = "wait" /\ (alerted => alert)
  /\ alert' = FALSE
  /\ Goto("tcl", "checkBegin", None)
  /\ UNCHANGED <<sockVars, listVars, evq, running, count, broken>>

\* IocpEventCheckProc takes a snapshot of the count, ...
CheckBegin ==
  /\ pc["tcl"] = "checkBegin"
  /\ count' = lCount
  /\ Goto("tcl", "check", None)
  /\ UNCHANGED <<sockVars, listVars, evq, alert, running, broken>>

\* Mutant of CheckPop: the mark stays.
CheckPopKeepsMark ==
  /\ pc["tcl"] = "check" /\ count > 0 /\ LockFree
  /\ count' = count - 1
  /\ front # None
  /\ Pop(front)
  /\ Goto("tcl", "checkChan", front)
  /\ UNCHANGED <<sockVars, marked, evq, alert, running, broken>>

\* ... pops a socket and clears its mark, under the lock, ...
CheckPop ==
  /\ pc["tcl"] = "check" /\ count > 0 /\ LockFree
  /\ count' = count - 1
  /\ IF front # None
       THEN /\ Pop(front)
            /\ marked' = [marked EXCEPT ![front] = FALSE]
            /\ Goto("tcl", "checkChan", front)
            /\ broken' = IF PopIsStale(front) THEN "stale" ELSE broken
       ELSE /\ broken' = IF EmptyPopFaults THEN "emptyCheck" ELSE broken
            /\ UNCHANGED <<listVars, pc, sock>>
  /\ UNCHANGED <<sockVars, evq, alert, running>>

\* ... and queues an event when the socket has a channel.
CheckChannel ==
  LET s == sock["tcl"]
  IN  /\ pc["tcl"] = "checkChan"
      /\ broken' = IF st[s] = "freed" THEN "stale" ELSE broken
      /\ evq' = IF st[s] = "open" THEN Append(evq, s) ELSE evq
      /\ Goto("tcl", "check", None)
      /\ UNCHANGED <<sockVars, listVars, alert, running, count>>

CheckEnd ==
  /\ pc["tcl"] = "check" /\ count = 0
  /\ Leave("tcl")
  /\ UNCHANGED <<sockVars, listVars, evq, alert, running, count, broken>>

\* IocpEventProc for a client: Tcl_NotifyChannel runs the script when there is
\* something it watches.
ServiceClient(c) ==
  /\ TclFree /\ evq # <<>> /\ Head(evq) = c
  /\ evq' = Tail(evq)
  /\ running' = IF \/ "R" \in mask[c] /\ HasInput(c)
                   \/ "W" \in mask[c] /\ CanSend(c)
                  THEN c ELSE None
  /\ UNCHANGED <<sockVars, listVars, alert, pc, sock, count, broken>>

\* IocpEventProc for a listener: IocpAcceptOne pops one connection and runs the
\* accept callback.
ServiceListener(l) ==
  /\ TclFree /\ evq # <<>> /\ Head(evq) = l
  /\ evq' = Tail(evq)
  /\ IF accepts[l] > 0
       THEN /\ accepts' = [accepts EXCEPT ![l] = @ - 1]
            /\ running' = l
            /\ UNCHANGED broken
       ELSE /\ broken' = IF EmptyPopFaults THEN "emptyAccept" ELSE broken
            /\ UNCHANGED <<accepts, running>>
  /\ UNCHANGED <<st, conn, mask, recvs, sends, cap, listVars, alert, pc, sock,
                 count>>

\* The script of a client returns.  Tcl_NotifyChannel then tells the driver
\* what the channel watches now.
ClientReturn(c) ==
  /\ pc["tcl"] = "idle" /\ running = c
  /\ running' = None
  /\ IF st[c] = "open"
       THEN \E m \in SUBSET {"R", "W"} :
              /\ mask' = [mask EXCEPT ![c] = m]
              /\ IF m = {} THEN Leave("tcl") ELSE Goto("tcl", "watchTest", c)
       ELSE Leave("tcl") /\ UNCHANGED mask
  /\ UNCHANGED <<st, conn, recvs, sends, cap, accepts, listVars, evq, alert,
                 count, broken>>

\* The accept callback returns to IocpAcceptOne.
ListenerReturn(l) ==
  /\ pc["tcl"] = "idle" /\ running = l
  /\ running' = None
  /\ Goto("tcl", "requeue", l)
  /\ UNCHANGED <<sockVars, listVars, evq, alert, count, broken>>

\* Mutant of Requeue: what is left waits for the next connection.
RequeueNever ==
  /\ pc["tcl"] = "requeue" /\ LockFree
  /\ Leave("tcl")
  /\ UNCHANGED <<sockVars, listVars, evq, alert, running, count, broken>>

\* IocpAcceptOne: "Requeue another for the next checkProc iteration".
Requeue ==
  LET l == sock["tcl"]
  IN  /\ pc["tcl"] = "requeue" /\ LockFree
      /\ broken' = IF st[l] = "freed" THEN "stale" ELSE broken
      /\ IF st[l] # "freed" /\ accepts[l] > 0 /\ ~marked[l]
           THEN /\ marked' = [marked EXCEPT ![l] = TRUE]
                /\ PushBack(l)
           ELSE UNCHANGED listVars
      /\ Leave("tcl")
      /\ UNCHANGED <<sockVars, evq, alert, running, count>>

-----------------------------------------------------------------------------
\* Driver procedures that scripts call, inside a handler of any event source.

TclCalls(s) == pc["tcl"] = "idle" /\ st[s] = "open"

\* Mutant of Watch: what is already there is not looked at.
WatchBlind(c, m) ==
  /\ TclCalls(c)
  /\ mask' = [mask EXCEPT ![c] = m]
  /\ UNCHANGED <<st, conn, recvs, sends, cap, accepts, listVars, evq, alert,
                 running, pc, sock, count, broken>>

\* IocpWatchProc: set the mask, then look at what is already there.
Watch(c, m) ==
  /\ TclCalls(c)
  /\ mask' = [mask EXCEPT ![c] = m]
  /\ IF m = {} THEN Leave("tcl") ELSE Goto("tcl", "watchTest", c)
  /\ UNCHANGED <<st, conn, recvs, sends, cap, accepts, listVars, evq, alert,
                 running, count, broken>>

WatchTest ==
  LET c == sock["tcl"]
  IN  /\ pc["tcl"] = "watchTest"
      /\ IF \/ "R" \in mask[c] /\ HasInput(c)
            \/ "W" \in mask[c] /\ CanSend(c)
           THEN Goto("tcl", "zap", c) ELSE Leave("tcl")
      /\ UNCHANGED <<sockVars, listVars, evq, alert, running, count, broken>>

\* IocpInputProc takes one or more of the unread buffers.
Input(c) ==
  /\ TclCalls(c)
  /\ \E n \in 1 .. recvs[c] : recvs' = [recvs EXCEPT ![c] = @ - n]
  /\ UNCHANGED <<st, conn, mask, sends, cap, accepts, listVars, evq, alert,
                 running, pc, sock, count, broken>>

\* IocpOutputProc: PostOverlappedSend counts the send first, ...
Output(c) ==
  /\ TclCalls(c) /\ HasList(c)
  /\ sends' = [sends EXCEPT ![c] = @ + 1]
  /\ count' = sends[c] + 1
  /\ Goto("tcl", "outTest", c)
  /\ UNCHANGED <<st, conn, mask, recvs, cap, accepts, listVars, evq, alert,
                 running, broken>>

\* ... compares the count it was given with the cap, and posts, ...
OutputTest(c) ==
  /\ pc["tcl"] = "outTest" /\ sock["tcl"] = c
  /\ IF count > cap[c] THEN Goto("tcl", "outUndo", c) ELSE Leave("tcl")
  /\ count' = 0
  /\ UNCHANGED <<sockVars, listVars, evq, alert, running, broken>>

\* ... or takes it back and returns WSAENOBUFS.
OutputUndo(c) ==
  /\ pc["tcl"] = "outUndo" /\ sock["tcl"] = c
  /\ sends' = [sends EXCEPT ![c] = @ - 1]
  /\ Goto("tcl", "outWatch", c)
  /\ UNCHANGED <<st, conn, mask, recvs, cap, accepts, listVars, evq, alert,
                 running, count, broken>>

\* The channel layer, told EWOULDBLOCK, calls IocpWatchProc for writable.
OutputWatch(c) ==
  /\ pc["tcl"] = "outWatch" /\ sock["tcl"] = c
  /\ mask' = [mask EXCEPT ![c] = @ \cup {"W"}]
  /\ Goto("tcl", "watchTest", c)
  /\ UNCHANGED <<st, conn, recvs, sends, cap, accepts, listVars, evq, alert,
                 running, count, broken>>

\* IocpClose2Proc.  "Flip the bit so no new stuff can ever come in again."
Close(s) ==
  /\ TclCalls(s)
  /\ marked' = [marked EXCEPT ![s] = TRUE]
  /\ Goto("tcl", "closeFlag", s)
  /\ UNCHANGED <<sockVars, readySockets, evq, alert, running, count, broken>>

CloseFlag ==
  /\ pc["tcl"] = "closeFlag"
  /\ st' = [st EXCEPT ![sock["tcl"]] = "closing"]
  /\ Goto("tcl", "closePop", sock["tcl"])
  /\ UNCHANGED <<conn, mask, recvs, sends, cap, accepts, listVars, evq, alert,
                 running, count, broken>>

\* "Remove ourselves from the readySockets list."  IocpLLPop looks at node.ll
\* before it takes the lock, and only the Tcl thread takes a socket that is not
\* closed off the list.
ClosePop ==
  LET s == sock["tcl"]
  IN  /\ pc["tcl"] = "closePop"
      /\ IF Linked(s) THEN LockFree /\ Pop(s) ELSE UNCHANGED readySockets
      /\ broken' = IF PopIsStale(s) THEN "stale" ELSE broken
      /\ Goto("tcl", "closeEvents", s)
      /\ UNCHANGED <<sockVars, marked, evq, alert, running, count>>

\* Mutant of CloseEvents: the events of the socket stay queued.
CloseEventsKept ==
  /\ pc["tcl"] = "closeEvents"
  /\ st' = [st EXCEPT ![sock["tcl"]] = "closed"]
  /\ Leave("tcl")
  /\ UNCHANGED <<conn, mask, recvs, sends, cap, accepts, listVars, evq, alert,
                 running, count, broken>>

\* Tcl_DeleteEvents: IocpRemovePendingEvents says of every queued event whether it
\* is one of s.  After the last one the completion thread may free s.
CloseEvents ==
  LET s == sock["tcl"]
  IN  /\ pc["tcl"] = "closeEvents"
      /\ \/ /\ \E i \in DOMAIN evq : evq[i] = s /\ evq' = RemoveAt(evq, i)
            /\ UNCHANGED <<st, pc, sock>>
         \/ /\ ~Pending(s)
            /\ st' = [st EXCEPT ![s] = "closed"]
            /\ Leave("tcl")
            /\ UNCHANGED evq
      /\ UNCHANGED <<conn, mask, recvs, sends, cap, accepts, listVars, alert,
                     running, count, broken>>

-----------------------------------------------------------------------------
\* The completion thread.

CtFree(s) == pc["ct"] = "idle" /\ st[s] # "freed"

\* OP_READ: IocpPushRecvAlertToTcl queues the buffer, then looks at the mask.
Received(c) ==
  /\ CtFree(c) /\ conn[c] = "yes" /\ recvs[c] < MaxRecvs
  /\ recvs' = [recvs EXCEPT ![c] = @ + 1]
  /\ Goto("ct", "recvTest", c)
  /\ UNCHANGED <<st, conn, mask, sends, cap, accepts, listVars, evq, alert,
                 running, count, broken>>

ReceivedTest ==
  LET c == sock["ct"]
  IN  /\ pc["ct"] = "recvTest"
      /\ IF "R" \in mask[c] THEN Goto("ct", "zap", c) ELSE Leave("ct")
      /\ UNCHANGED <<sockVars, listVars, evq, alert, running, count, broken>>

\* OP_CONNECT: llPendingRecv appears.  A failed connect queues an error as if it
\* were input, a good one alerts whatever is watched.
Connected(c) ==
  /\ CtFree(c) /\ ~HasList(c)
  /\ \/ /\ conn' = [conn EXCEPT ![c] = "failed"]
        /\ recvs' = [recvs EXCEPT ![c] = @ + 1]
        /\ Goto("ct", "recvTest", c)
     \/ /\ conn' = [conn EXCEPT ![c] = "yes"]
        /\ UNCHANGED recvs
        /\ Goto("ct", "zap", c)
  /\ UNCHANGED <<st, mask, sends, cap, accepts, listVars, evq, alert, running,
                 count, broken>>

\* OP_WRITE: a send that was really posted is over.
Sent(c) ==
  /\ CtFree(c)
  /\ sends[c] > (IF pc["tcl"] \in {"outTest", "outUndo"} /\ sock["tcl"] = c
                    THEN 1 ELSE 0)
  /\ sends' = [sends EXCEPT ![c] = @ - 1]
  /\ Goto("ct", "sentTest", c)
  /\ UNCHANGED <<st, conn, mask, recvs, cap, accepts, listVars, evq, alert,
                 running, count, broken>>

SentTest ==
  LET c == sock["ct"]
      wanted == "W" \in mask[c] /\ sends[c] < cap[c]
  IN  /\ pc["ct"] = "sentTest"
      /\ \/ \* closing, or success without anyone to tell
            /\ st[c] # "open" \/ ~wanted
            /\ Leave("ct") /\ UNCHANGED cap
         \/ \* an error is a writable event too
            /\ st[c] = "open" /\ HasList(c)
            /\ Goto("ct", "zap", c) /\ UNCHANGED cap
         \/ \* "can write more"
            /\ st[c] = "open" /\ wanted
            /\ Goto("ct", "zap", c) /\ UNCHANGED cap
         \/ \* WSAENOBUFS: the cap goes down, nobody is told
            /\ st[c] = "open" /\ wanted /\ SendNoBufs
            /\ cap' = [cap EXCEPT ![c] = @ - 1]
            /\ Leave("ct")
      /\ UNCHANGED <<st, conn, mask, recvs, sends, accepts, listVars, evq,
                     alert, running, count, broken>>

\* OP_ACCEPT: IocpAlertToTclNewAccept queues the connection, then zaps.
Accepted(l) ==
  /\ CtFree(l) /\ accepts[l] < MaxAccepts
  /\ accepts' = [accepts EXCEPT ![l] = @ + 1]
  /\ Goto("ct", "zap", l)
  /\ UNCHANGED <<st, conn, mask, recvs, sends, cap, listVars, evq, alert,
                 running, count, broken>>

\* FreeSocketInfo empties readyAccepts or llPendingRecv with IocpLLPopFront.
DrainFaults(s) == EmptyPopFaults /\ (s \in Listeners \/ HasList(s))

\* FreeSocketInfo of a socket that is closed and has no send outstanding (its
\* other operations are SocketLifetime's).  It starts with an IocpLLPop whose
\* look at node.ll comes before the lock.
Free(s) ==
  /\ CtFree(s) /\ st[s] = "closed" /\ sends[s] = 0
  /\ IF Linked(s)
       THEN Goto("ct", "unlink", s) /\ UNCHANGED <<st, broken>>
       ELSE /\ st' = [st EXCEPT ![s] = "freed"]
            /\ broken' = IF DrainFaults(s) THEN "emptyDrain" ELSE broken
            /\ UNCHANGED <<pc, sock>>
  /\ UNCHANGED <<conn, mask, recvs, sends, cap, accepts, listVars, evq, alert,
                 running, count>>

\* By now the Tcl thread may have popped the node.
FreeUnlink ==
  LET s == sock["ct"]
  IN  /\ pc["ct"] = "unlink" /\ LockFree
      /\ Pop(s)
      /\ st' = [st EXCEPT ![s] = "freed"]
      /\ broken' = IF PopIsStale(s) THEN "stale"
                   ELSE IF DrainFaults(s) THEN "emptyDrain" ELSE broken
      /\ Leave("ct")
      /\ UNCHANGED <<conn, mask, recvs, sends, cap, accepts, marked, evq, alert,
                     running, count>>

-----------------------------------------------------------------------------
TclLoop ==
  \/ EventSetup \/ Wake(TRUE) \/ CheckBegin \/ CheckPop \/ CheckChannel \/ CheckEnd
  \/ \E c \in Clients : ServiceClient(c) \/ ClientReturn(c)
  \/ \E l \in Listeners : ServiceListener(l) \/ ListenerReturn(l)

TclStep ==
  \/ ZapMark("tcl") \/ ZapPush("tcl") \/ ZapAlert("tcl")
  \/ Requeue \/ WatchTest
  \/ \E c \in Clients : OutputTest(c) \/ OutputUndo(c) \/ OutputWatch(c)
  \/ CloseFlag \/ ClosePop \/ CloseEvents

TclCall ==
  \/ \E c \in Clients, m \in SUBSET {"R", "W"} : Watch(c, m)
  \/ \E c \in Clients : Input(c) \/ Output(c)
  \/ \E s \in Sockets : Close(s)
  \/ Wake(FALSE)

CtTake ==
  \/ \E c \in Clients : Received(c) \/ Connected(c) \/ Sent(c)
  \/ \E l \in Listeners : Accepted(l)
  \/ \E s \in Sockets : Free(s)

CtStep ==
  \/ ZapMark("ct") \/ ZapPush("ct") \/ ZapAlert("ct")
  \/ ReceivedTest \/ SentTest \/ FreeUnlink

Running == broken = "no"
Next == Running /\ (TclLoop \/ TclStep \/ TclCall \/ CtTake \/ CtStep)

Spec == Init /\ [][Next]_vars

(***************************************************************************)
(* Fairness: a thread inside a procedure gets through it, also when the      *)
(* critical section it waits for is taken now and then by the other thread,  *)
(* and the Tcl thread keeps coming back to its event loop, whose scripts     *)
(* return.  No arrival, completion or script call is assumed to happen.      *)
(***************************************************************************)
Fairness ==
  /\ SF_vars(Running /\ TclLoop)
  /\ SF_vars(Running /\ TclStep)
  /\ SF_vars(Running /\ CtStep)

FairSpec == Spec /\ Fairness

-----------------------------------------------------------------------------
\* Properties.

\* markedReady keeps a socket from being put on readySockets twice (comment at
\* iocpsock_lolevel.c:412-417): a node inserted twice would corrupt the list.
\* Whatever is linked is linked once and marked, whichever thread put it there.
ListedOnce ==
  /\ \A q, r \in chains : \A i \in DOMAIN q, j \in DOMAIN r :
       q[i] = r[j] => q = r /\ i = j
  /\ \A s \in Sockets : Linked(s) => marked[s]
  /\ \A t \in Threads : pc[t] = "push" => marked[sock[t]] /\ ~Linked(sock[t])

\* The list and the marks make sense, together and by themselves.
WellFormed == TypeOK /\ ListedOnce

\* A mark without an entry would silence the socket for good, because every
\* later IocpZapTclNotifier would find the mark and insert nothing.  So an open
\* socket that is marked is on the list or about to be, unless it is closing; or
\* it is stray, because a pop of FreeSocketInfo emptied the list over it
\* (UnlistsOnlyItself): the code has no other way to lose an entry.
MarkIsBacked ==
  \A s \in Sockets : st[s] = "open" /\ marked[s] =>
    \/ Listed(s)
    \/ Stray(s)
    \/ \E t \in Threads : pc[t] = "push" /\ sock[t] = s
    \/ pc["tcl"] = "closeFlag" /\ sock["tcl"] = s

\* Something a script waits for: IocpEventProc would run it.  (For writing after
\* a connect that failed see FailedIsWritable.)
Wanted(s) ==
  /\ st[s] = "open"
  /\ \/ s \in Listeners /\ accepts[s] > 0
     \/ s \in Clients /\ "R" \in mask[s] /\ HasInput(s)
     \/ s \in Clients /\ "W" \in mask[s] /\ CanSend(s) /\ conn[s] = "yes"

\* No lost wakeup: while the Tcl thread sleeps without an alert on its way and
\* the completion thread is between two completions, the list is empty and no
\* script is wanted but that of a socket that is stray, over which the list was
\* emptied (UnlistsOnlyItself).
SleepsOnlyWhenIdle ==
  pc["tcl"] = "wait" /\ ~alert /\ pc["ct"] = "idle"
    => /\ lCount = 0 /\ front = None
       /\ \A s \in Sockets : Wanted(s) => Stray(s)

\* A queued event is for a socket that is open: IocpClose2Proc removes the
\* events of the socket it closes, and none is queued after that.
EventsAreForOpen ==
  \A i \in DOMAIN evq : \/ st[evq[i]] = "open"
                        \/ sock["tcl"] = evq[i] /\ st[evq[i]] = "closing"

\* A socket whose script is wanted gets it run, or stops wanting it, unless the
\* list is emptied over it first (Stray) or a use of freed memory ends the run
\* (with EmptyPopFaults FALSE "stale" is all that does).
WantedIsServed ==
  \A s \in Sockets :
    Wanted(s) ~> running = s \/ ~Wanted(s) \/ Stray(s) \/ ~Running

\* iocpsock_lolevel.c:1523 "Remove us from the readySockets list, if on it.": the
\* pop of FreeSocketInfo takes no other socket off the list.
UnlistsOnlyItself ==
  [][pc["ct"] = "unlink" /\ pc'["ct"] # "unlink" =>
       \A s \in Sockets \ {sock["ct"]} : Listed(s) => Listed(s)']_vars

\* iocpsock_lolevel.c:640 "Flip the bit so no new stuff can ever come in
\* again." and 650 "Remove ourselves from the readySockets list.": a socket
\* whose IocpClose2Proc is over is not on the list.
ClosedIsUnlisted == \A s \in Sockets : st[s] = "closed" => ~Listed(s)

\* "If the watch mask is set to notify for writable events, and outstanding sends
\* are less than the resource cap allowed for this socket, the channel is
\* writable." (iocpsock_lolevel.c:484-488), and "Errors are writable events too."
\* (2456): the Tcl thread does not sleep while a socket whose connect failed is
\* watched for writing.
FailedIsWritable ==
  pc["tcl"] = "wait" /\ ~alert /\ pc["ct"] = "idle" =>
    \A c \in Clients :
      st[c] = "open" /\ conn[c] = "failed" /\ "W" \in mask[c] => ~CanSend(c)

\* iocpsock_lolevel.c:524 "Don't barf if the counts don't match."
AcceptCountsMayDiffer == broken # "emptyAccept"
=============================================================================
