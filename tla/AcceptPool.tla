----------------------------- MODULE AcceptPool -----------------------------
(***************************************************************************)
(* The AcceptEx calls a listener keeps outstanding: PostOverlappedAccept, the *)
(* accept branch of HandleIo that replaces those that complete, the loop of    *)
(* CreateTcpSocket that posts the first ones and the loop of IocpSetOptionProc *)
(* that posts more for -backlog (src/iocpsock_lolevel.c, src/ws2tcp.c).         *)
(*                                                                          *)
(* Two threads post: "tcl" (opening, -backlog) and "ct" (replacing).  A step   *)
(* is one access to outstandingAccepts or outstandingAcceptCap.  The life of    *)
(* the SocketInfo itself is SocketLifetime's subject: here a listener ends as   *)
(* "closing", and one whose opening failed as "failed", and what it still had   *)
(* outstanding then is not followed.                                          *)
(*                                                                          *)
(* leaked, lost and crossed are not in the code: the slots a failed WSASocket    *)
(* leaves counted, and since -backlog last ran the AcceptEx calls that an error    *)
(* cost and those a thread gave up over a slot the other was only trying.        *)
(***************************************************************************)
EXTENDS Integers, ListenerNames

CONSTANTS
  AcceptCap,      \* IOCP_ACCEPT_CAP
  Backlogs,       \* the values given to -backlog
  MaxConns,       \* bound on the connections that come in
  MaxErrors       \* bound on the completions with an error and the failed posts

ASSUME CapAssumption == AcceptCap \in Nat \ {0} /\ Backlogs \subseteq Nat \ {0}
ASSUME PoolBoundsAssumption == MaxConns \in Nat /\ MaxErrors \in Nat

Posters == {"tcl", "ct"}
Statuses == {"conn", "error", "nobufs", "aborted"}

VARIABLES
  life,      \* "none", "opening", "open", "failed", "closing"
  accepts,   \* infoPtr->outstandingAccepts
  cap,       \* infoPtr->outstandingAcceptCap
  posted,    \* AcceptEx calls the kernel has
  done,      \* completions in the port, by status
  ready,     \* IocpLLGetCount(infoPtr->readyAccepts)
  at, on,    \* where each thread is, and for which listener
  i,         \* the loop variable of the Tcl thread
  leaked, lost, crossed,
  conns, errors

counts == <<accepts, cap, posted>>
poolVars == <<life, accepts, cap, posted, done, ready, at, on, i, leaked, lost, crossed, conns, errors>>

PoolTypeOK ==
  /\ life \in [Listeners -> {"none", "opening", "open", "failed", "closing"}]
  /\ accepts \in [Listeners -> Nat] /\ cap \in [Listeners -> Int]
  /\ posted \in [Listeners -> Nat]
  /\ done \in [Listeners -> [Statuses -> Nat]]
  /\ ready \in [Listeners -> Nat]
  /\ at \in [Posters -> {"idle", "loop", "post", "undo", "issue", "shrink", "failed"}]
  /\ on \in [Posters -> Listeners \cup {NULL}]
  /\ i \in Nat
  /\ leaked \in [Listeners -> Nat] /\ lost \in [Listeners -> Nat]
  /\ crossed \in [Listeners -> Nat]
  /\ conns \in 0 .. MaxConns /\ errors \in 0 .. MaxErrors

PoolInit ==
  /\ life = [l \in Listeners |-> "none"]
  /\ accepts = [l \in Listeners |-> 0] /\ cap = [l \in Listeners |-> AcceptCap]
  /\ posted = [l \in Listeners |-> 0]
  /\ done = [l \in Listeners |-> [x \in Statuses |-> 0]]
  /\ ready = [l \in Listeners |-> 0]
  /\ at = [p \in Posters |-> "idle"] /\ on = [p \in Posters |-> NULL]
  /\ i = 0
  /\ leaked = [l \in Listeners |-> 0] /\ lost = [l \in Listeners |-> 0]
  /\ crossed = [l \in Listeners |-> 0]
  /\ conns = 0 /\ errors = 0

-----------------------------------------------------------------------------
(* Helpers                                                                  *)

Move(p, place) == at' = [at EXCEPT ![p] = place] /\ UNCHANGED on
Rest(p) == at' = [at EXCEPT ![p] = "idle"] /\ on' = [on EXCEPT ![p] = NULL]
Begin(p, l, place) == at' = [at EXCEPT ![p] = place] /\ on' = [on EXCEPT ![p] = l]
Bump(f, l, d) == [f EXCEPT ![l] = @ + d]
Tally(l, x, d) == [done EXCEPT ![l][x] = @ + d]

Error == errors < MaxErrors /\ errors' = errors + 1

\* Completions not handled yet.
Waiting(l) ==
  done[l]["conn"] + done[l]["error"] + done[l]["nobufs"] + done[l]["aborted"]

\* How the call of PostOverlappedAccept ends for the thread that made it: a
\* failure ends the opening and the loop of -backlog; the completion thread only
\* counts it (StatFailedReplacementAcceptExCalls).
Posted(p) ==
  IF p = "ct" THEN Rest(p) /\ UNCHANGED i
              ELSE Move(p, "loop") /\ i' = i + 1
NotPosted(p) ==
  /\ IF p = "tcl" /\ life[on[p]] = "opening" THEN Move(p, "failed") ELSE Rest(p)
  /\ i' = IF p = "tcl" THEN 0 ELSE i

\* The AcceptEx calls a failed post costs: the Tcl thread leaves its loop.
Missed(p) == IF p = "tcl" /\ cap[on[p]] > i THEN cap[on[p]] - i ELSE 1

-----------------------------------------------------------------------------
(* PostOverlappedAccept, run by thread p                                     *)

PostCount(p) ==
  LET l == on[p] IN
  /\ at[p] = "post"
  /\ IF life[l] = "closing"
     THEN NotPosted(p) /\ UNCHANGED accepts
     ELSE /\ accepts' = Bump(accepts, l, 1)
          /\ Move(p, IF accepts[l] + 1 > cap[l] THEN "undo" ELSE "issue")
          /\ UNCHANGED i
  /\ UNCHANGED <<life, cap, posted, done, ready, leaked, lost, crossed, conns, errors>>

PostUndo(p) ==
  /\ at[p] = "undo"
  /\ accepts' = Bump(accepts, on[p], -1)
  /\ crossed' = IF \E q \in Posters \ {p} : at[q] = "undo" /\ on[q] = on[p]
                THEN Bump(crossed, on[p], 1) ELSE crossed
  /\ NotPosted(p)
  /\ UNCHANGED <<life, cap, posted, done, ready, leaked, lost, conns, errors>>

\* WSASocket fails: the slot stays counted.
SocketFails(p) ==
  /\ at[p] = "issue" /\ Error
  /\ leaked' = Bump(leaked, on[p], 1)
  /\ lost' = Bump(lost, on[p], Missed(p) - 1)
  /\ NotPosted(p)
  /\ UNCHANGED <<life, counts, done, ready, crossed, conns>>

\* Mutant of AcceptExFails: the slot is not given back.
AcceptExFailsKeeps(p) ==
  /\ at[p] = "issue"
  /\ IF life[on[p]] = "closing" THEN UNCHANGED errors ELSE Error
  /\ UNCHANGED accepts
  /\ lost' = Bump(lost, on[p], Missed(p))
  /\ NotPosted(p)
  /\ UNCHANGED <<life, cap, posted, done, ready, leaked, crossed, conns>>

\* AcceptEx fails at once; on a closed socket it always does.
AcceptExFails(p) ==
  /\ at[p] = "issue"
  /\ IF life[on[p]] = "closing" THEN UNCHANGED errors ELSE Error
  /\ accepts' = Bump(accepts, on[p], -1)
  /\ lost' = Bump(lost, on[p], Missed(p))
  /\ NotPosted(p)
  /\ UNCHANGED <<life, cap, posted, done, ready, leaked, crossed, conns>>

PostIssue(p) ==
  /\ at[p] = "issue" /\ life[on[p]] # "closing"
  /\ posted' = Bump(posted, on[p], 1)
  /\ Posted(p)
  /\ UNCHANGED <<life, accepts, cap, done, ready, leaked, lost, crossed, conns, errors>>

PostOverlappedAccept(p) ==
  PostCount(p) \/ PostUndo(p) \/ SocketFails(p) \/ AcceptExFails(p) \/ PostIssue(p)

-----------------------------------------------------------------------------
(* The Tcl thread                                                           *)

TclFree == at["tcl"] = "idle"

\* CreateTcpSocket listens and posts the first AcceptEx calls.
OpenBegin(l) ==
  /\ TclFree /\ life[l] = "none"
  /\ life' = [life EXCEPT ![l] = "opening"]
  /\ Begin("tcl", l, "loop") /\ i' = 0
  /\ UNCHANGED <<counts, done, ready, leaked, lost, crossed, conns, errors>>

\* -backlog: the cap is a plain store, the loop starts at what is outstanding.
Backlog(l, n) ==
  /\ TclFree /\ life[l] = "open"
  /\ cap' = [cap EXCEPT ![l] = n]
  /\ Begin("tcl", l, "loop") /\ i' = accepts[l]
  /\ lost' = [lost EXCEPT ![l] = 0]
  /\ crossed' = [crossed EXCEPT ![l] = IF at["ct"] = "undo" /\ on["ct"] = l THEN 1 ELSE 0]
  /\ UNCHANGED <<life, accepts, posted, done, ready, leaked, conns, errors>>

Limit(l) == IF life[l] = "opening" THEN AcceptCap ELSE cap[l]

Loop ==
  LET l == on["tcl"] IN
  /\ at["tcl"] = "loop"
  /\ \/ i < Limit(l) /\ Move("tcl", "post") /\ UNCHANGED i
     \/ i >= Limit(l) /\ life[l] = "open" /\ Rest("tcl") /\ i' = 0
  /\ UNCHANGED <<life, counts, done, ready, leaked, lost, crossed, conns, errors>>

OpenDone(l) ==
  /\ at["tcl"] = "loop" /\ on["tcl"] = l /\ life[l] = "opening" /\ i >= Limit(l)
  /\ life' = [life EXCEPT ![l] = "open"]
  /\ Rest("tcl") /\ i' = 0
  /\ UNCHANGED <<counts, done, ready, leaked, lost, crossed, conns, errors>>

\* What is no longer followed of the listeners in L.
Forget(L) ==
  LET Zero(f) == [l \in Listeners |-> IF l \in L THEN 0 ELSE f[l]] IN
  /\ posted' = Zero(posted) /\ ready' = Zero(ready)
  /\ leaked' = Zero(leaked) /\ lost' = Zero(lost) /\ crossed' = Zero(crossed)

\* The label error1: FreeSocketInfo.
OpenFails(l) ==
  /\ at["tcl"] = "failed" /\ on["tcl"] = l
  /\ life' = [life EXCEPT ![l] = "failed"]
  /\ Forget({l}) /\ Rest("tcl")
  /\ UNCHANGED <<accepts, cap, done, i, conns, errors>>

\* IocpAcceptOne takes a connection.
Take(l) ==
  /\ TclFree /\ life[l] = "open" /\ ready[l] > 0
  /\ ready' = Bump(ready, l, -1)
  /\ UNCHANGED <<life, counts, done, at, on, i, leaked, lost, crossed, conns, errors>>

\* IocpClose2Proc for each listener of L: closesocket cancels what is outstanding.
PoolClose(L) ==
  /\ TclFree /\ \A l \in L : life[l] = "open"
  /\ life' = [l \in Listeners |-> IF l \in L THEN "closing" ELSE life[l]]
  /\ done' = [l \in Listeners |->
       IF l \in L THEN [done[l] EXCEPT !["aborted"] = @ + posted[l]] ELSE done[l]]
  /\ Forget(L)
  /\ UNCHANGED <<accepts, cap, at, on, i, conns, errors>>

-----------------------------------------------------------------------------
(* The kernel and the completion thread                                      *)

Complete(l) ==
  /\ life[l] \in {"opening", "open"} /\ posted[l] > 0
  /\ posted' = Bump(posted, l, -1)
  /\ \/ /\ conns < MaxConns /\ conns' = conns + 1 /\ UNCHANGED errors
        /\ done' = Tally(l, "conn", 1)
     \/ /\ Error /\ UNCHANGED conns
        /\ \E x \in {"error", "nobufs"} : done' = Tally(l, x, 1)
  /\ UNCHANGED <<life, accepts, cap, ready, at, on, i, leaked, lost, crossed>>

Handles(l, x) ==
  /\ at["ct"] = "idle" /\ life[l] # "failed" /\ done[l][x] > 0
  /\ done' = Tally(l, x, -1)

\* A connection goes to readyAccepts, or is a dud that is disconnected; the
\* AcceptEx is replaced either way.
HandleAccept(l) ==
  /\ Handles(l, "conn")
  /\ accepts' = Bump(accepts, l, -1)
  /\ ready' \in {ready, Bump(ready, l, 1)}
  /\ Begin("ct", l, "post")
  /\ UNCHANGED <<life, cap, posted, i, leaked, lost, crossed, conns, errors>>

\* Mutant of HandleError: an AcceptEx that failed is not replaced.
HandleErrorDrops(l) ==
  /\ Handles(l, "error")
  /\ accepts' = Bump(accepts, l, -1)
  /\ UNCHANGED <<life, cap, posted, ready, at, on, i, leaked, lost, crossed, conns, errors>>

\* A SYN flood, say: replaced.
HandleError(l) ==
  /\ Handles(l, "error")
  /\ accepts' = Bump(accepts, l, -1)
  /\ Begin("ct", l, "post")
  /\ UNCHANGED <<life, cap, posted, ready, i, leaked, lost, crossed, conns, errors>>

\* WSAENOBUFS: not replaced, and the cap is lowered.
HandleNoBufs(l) ==
  /\ Handles(l, "nobufs")
  /\ accepts' = Bump(accepts, l, -1)
  /\ Begin("ct", l, "shrink")
  /\ lost' = IF on["tcl"] = l THEN Bump(lost, l, 1) ELSE lost
  /\ UNCHANGED <<life, cap, posted, ready, i, leaked, crossed, conns, errors>>

Shrink ==
  /\ at["ct"] = "shrink"
  /\ cap' = Bump(cap, on["ct"], -1)
  /\ Rest("ct")
  /\ UNCHANGED <<life, accepts, posted, done, ready, i, leaked, lost, crossed, conns, errors>>

\* WSA_OPERATION_ABORTED: HandleIo goes to its end before it looks at the operation.
\* WSAENOTSOCK comes further.
HandleAborted(l) ==
  /\ Handles(l, "aborted")
  /\ accepts' \in {accepts, Bump(accepts, l, -1)}
  /\ UNCHANGED <<life, cap, posted, ready, at, on, i, leaked, lost, crossed, conns, errors>>

CompletionThread ==
  \/ PostOverlappedAccept("ct") \/ Shrink
  \/ \E l \in Listeners : \/ Complete(l) \/ HandleAccept(l) \/ HandleError(l)
                          \/ HandleNoBufs(l) \/ HandleAborted(l)

TclPosts == PostOverlappedAccept("tcl") \/ Loop

-----------------------------------------------------------------------------
(* Properties                                                               *)

Held(p, l) == IF on[p] = l /\ at[p] \in {"undo", "issue"} THEN 1 ELSE 0

\* outstandingAccepts is what its name says, whatever the two threads do to it at
\* the same time: the calls in the kernel, those that came back, the slots being
\* filled, and those a failed WSASocket has leaked (iocpsock_lolevel.c:1747).
SlotsAccounted ==
  \A l \in Listeners : life[l] \in {"opening", "open"} =>
    accepts[l] = posted[l] + Waiting(l) + leaked[l] + Held("tcl", l) + Held("ct", l)

IsIdle(l) == life[l] = "open" /\ \A p \in Posters : on[p] # l
Replaced(l) == posted[l] + Waiting(l) + leaked[l] + lost[l]

\* While nobody is at work on an open listener it has as many AcceptEx calls out as
\* its cap asks for, less those AcceptEx refused and those the two threads gave up
\* over each other: none is forgotten when both fill the pool or when the cap moves.
PoolIsFull == \A l \in Listeners : IsIdle(l) => Replaced(l) + crossed[l] >= cap[l]

\* "Post another new AcceptEx() to replace this one that just completed"
\* (iocpsock_lolevel.c:2358).  Broken by the code without any error: the slot that
\* -backlog takes too many makes the replacement fail, the completion thread's makes
\* -backlog's fail, and a listener may be left with none and never accept again.
NeverDeaf == \A l \in Listeners : IsIdle(l) /\ cap[l] > 0 => Replaced(l) > 0
=============================================================================
