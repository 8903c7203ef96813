---------------------------- MODULE BuffersProofs ----------------------------
(***************************************************************************)
(* Proofs about Buffers: every BufferInfo has one owner, nothing of a freed        *)
(* SocketInfo is left, and BufferContract is implemented, for any number of        *)
(* buffers, receives, connections and losses, any kind of socket and any mode.     *)
(*                                                                          *)
(* OneOwner is not inductive: a thread that takes a buffer must have had none, so   *)
(* the places of both threads have to say what they hold (Placed).  That the last   *)
(* operation leaves nothing needs outstandingOps to count what Winsock and the port *)
(* have, what HandleIo is at, and the reference IocpClose2Proc takes and the         *)
(* DisconnectEx gives back (OpsCounted), which is given back once because there is   *)
(* one DisconnectEx and it does not fail (OneDisconnect).                           *)
(***************************************************************************)
EXTENDS Buffers, FiniteSetTheorems, TLAPS

\* The places at which a thread has a buffer to post, and one it processes.
InHand == {"recv", "send", "accept", "disconnect", "pushNew"}
InHold == {"get", "recv", "handle", "push", "getError", "pushNew", "release"}
Closes == {"replace", "disconnect", "closed"}

Placed ==
  /\ at.tcl \in {"idle", "popped", "more", "repost", "get", "recv", "send", "accept",
                 "replace", "disconnect", "closed"}
  /\ at.ct \in {"idle", "replace", "accept", "done", "get", "recv", "handle", "push",
                "getError", "pushNew", "release"}
  /\ \A t \in Threads : (hand[t] # None) <=> (at[t] \in InHand)
  /\ (held.tcl # None) <=> (at.tcl = "popped")
  /\ (held.ct # None) <=> (at.ct \in InHold)

\* GetBufferObj zeroes: what has not been posted has no operation and no result.
Fresh ==
  \A b \in Buffers : b \notin live \/ b = hand.tcl \/ b = hand.ct
                       => op[b] = "none" /\ res[b] = "none"

\* IocpClose2Proc runs once, and its DisconnectEx ends well.
OneDisconnect ==
  /\ \A b \in Buffers : op[b] = "DISCONNECT" => at.tcl = "closed" /\ res[b] \in {"none", "ok"}
  /\ \A a, b \in Buffers : op[a] = "DISCONNECT" /\ op[b] = "DISCONNECT" => a = b

Flagged ==
  /\ ("CLOSING" \in flags) <=> (at.tcl \in Closes)
  /\ "CLOSABLE" \in flags => "CLOSING" \in flags

\* What outstandingOps counts: the overlapped calls not taken off the port, the one
\* HandleIo is at, and the closing, until its DisconnectEx has been handled.
Outstanding == winsock \cup port
Busy == IF at.ct = "idle" THEN 0 ELSE 1
Disconnects(b) ==
  op[b] = "DISCONNECT" /\ (b \in Outstanding \/ (at.ct = "handle" /\ b = held.ct))
Closing == at.tcl \in {"replace", "disconnect"} \/ \E b \in Buffers : Disconnects(b)
CloseRef == IF Closing THEN 1 ELSE 0

OpsCounted == ops = Cardinality(Outstanding) + Busy + CloseRef

FreedIsOver ==
  info = "freed" => Outstanding = {} /\ queue = {} /\ at.ct = "idle" /\ at.tcl = "closed"

IInv ==
  /\ OneOwner /\ fault = FALSE
  /\ Placed /\ Fresh
  /\ OneDisconnect /\ Flagged
  /\ OpsCounted /\ FreedIsOver

-----------------------------------------------------------------------------
(* What the steps share                                                     *)

LEMMA ThreadsAre ==
  /\ InThreads = {held.tcl, held.ct, hand.tcl, hand.ct}
  /\ InThreads' = {held'.tcl, held'.ct, hand'.tcl, hand'.ct}
BY DEF InThreads, Threads

LEMMA OutstandingIsFinite ==
  ASSUME OneOwner
  PROVE  IsFiniteSet(Outstanding) /\ Cardinality(Outstanding) \in Nat
<1>1. Outstanding \in SUBSET Buffers
  BY DEF OneOwner, TypeOK, Outstanding
<1>2. IsFiniteSet(Outstanding)
  BY <1>1, BuffersAssumption, FS_Subset
<1>3. QED BY <1>2, FS_CardinalityType

\* One more call, one less, none.
LEMMA CallAdded ==
  ASSUME OneOwner, NEW b, b \notin Outstanding, Outstanding' = Outstanding \cup {b}
  PROVE  Cardinality(Outstanding') = Cardinality(Outstanding) + 1
BY OutstandingIsFinite, FS_AddElement

LEMMA CallRemoved ==
  ASSUME OneOwner, NEW b, b \in Outstanding, Outstanding' = Outstanding \ {b}
  PROVE  Cardinality(Outstanding') = Cardinality(Outstanding) - 1
BY OutstandingIsFinite, FS_RemoveElement

\* There is one operation to begin with, or none.
LEMMA ChosenIsFinite ==
  ASSUME NEW b, NEW S, S = {} \/ S = {b}
  PROVE  Cardinality(S) \in Nat
<1>1. CASE S = {}
  BY <1>1, FS_EmptySet
<1>2. CASE S = {b}
  <2>1. Cardinality({b}) = 1
    BY FS_Singleton
  <2> QED BY <1>2, <2>1
<1> QED BY <1>1, <1>2

LEMMA InitIsInv == Init => IInv
<1> SUFFICES ASSUME Init PROVE IInv
  OBVIOUS
<1> USE BuffersAssumption DEF Init
<1>1. PICK b \in Buffers :
        /\ live = IF kind = "listener" THEN {} ELSE {b}
        /\ op = [x \in Buffers |-> IF x \notin live THEN "none"
                                   ELSE IF kind = "client" THEN "READ" ELSE "CONNECT"]
  OBVIOUS
<1>2. TypeOK /\ fault = FALSE
  <2>1. live \subseteq Buffers /\ op \in [Buffers -> Operations] /\ ops \in Int
    <3>1. ops \in Nat
      BY <1>1, ChosenIsFinite
    <3>2. QED BY <1>1, <3>1 DEF Operations
  <2>2. kind \in {"client", "connecting", "listener"} /\ mode \in {"zero", "flow", "burst"}
    OBVIOUS
  <2>3. at \in [Threads -> Places] /\ res \in [Buffers -> Results]
        /\ held \in [Threads -> Buffers \cup {None}] /\ hand \in [Threads -> Buffers \cup {None}]
    BY DEF Places, Results
  <2>4. /\ winsock \subseteq Buffers /\ port \subseteq Buffers /\ queue \subseteq Buffers
        /\ flags \subseteq {"EOF", "CLOSING", "CLOSABLE"} /\ info \in {"live", "freed"}
        /\ lost \subseteq Buffers /\ wild \subseteq Buffers
    BY <2>1
  <2>5. left \in 0 .. MaxData
    OBVIOUS
  <2>6. fault = FALSE
    OBVIOUS
  <2>7. QED BY <2>1, <2>2, <2>3, <2>4, <2>5, <2>6 DEF TypeOK
<1>3. OneOwner
  BY <1>1, <1>2, ThreadsAre DEF OneOwner, Threads
<1>4. Placed /\ Fresh
  BY <1>1 DEF Placed, Fresh, InHand, InHold, Threads
<1>5. OneDisconnect /\ Flagged /\ FreedIsOver
  <2>1. at.tcl = "idle" /\ \A b2 \in Buffers : op[b2] # "DISCONNECT"
    BY <1>1 DEF Threads
  <2>2. QED BY <2>1 DEF OneDisconnect, Flagged, Closes, FreedIsOver
<1>6. OpsCounted
  <2>1. Outstanding = live /\ Busy = 0
    BY DEF Outstanding, Busy, Threads
  <2>2. CloseRef = 0
    BY <1>1 DEF CloseRef, Closing, Disconnects, Threads
  <2>3. Cardinality(live) \in Nat
    BY <1>1, ChosenIsFinite
  <2>4. QED BY <2>1, <2>2, <2>3 DEF OpsCounted
<1>7. QED BY <1>2, <1>3, <1>4, <1>5, <1>6 DEF IInv

-----------------------------------------------------------------------------
(* Receives and accepts                                                     *)

\* The socket is done with receiving: the buffer is freed.
LEMMA RecvRefusedKeeps ==
  ASSUME IInv, NEW t \in Threads, RecvRefused(t)
  PROVE  IInv'
<1> USE BuffersAssumption
    DEF IInv, RecvRefused, Free, Hands, Goto, calls, socket, ghosts, memory, AfterRecv
<1>1. TypeOK' /\ fault' = FALSE
  <2>1. hand[t] \in live
    BY ThreadsAre DEF OneOwner, TypeOK, Threads, Placed, InHand, InHold
  <2>2. fault' = FALSE
    BY <2>1
  <2>3. /\ live' \subseteq Buffers
        /\ op' \in [Buffers -> Operations] /\ res' \in [Buffers -> Results]
    BY DEF OneOwner, TypeOK, Operations, Results
  <2>4. QED BY <2>2, <2>3 DEF OneOwner, TypeOK, Threads, Places, Placed, InHold
<1>2. OneOwner'
  BY <1>1, ThreadsAre DEF OneOwner, TypeOK, Threads, Placed, InHand, InHold
<1>3. Placed' /\ Fresh'
  BY ThreadsAre
     DEF OneOwner, TypeOK, Threads, Placed, Fresh, InHand, InHold
<1>4. OneDisconnect' /\ Flagged'
  BY DEF OneOwner, TypeOK, Threads, Placed, Fresh, OneDisconnect, Flagged, Closes, InHand
<1>5. OpsCounted'
  <2>1. Outstanding' = Outstanding /\ Busy' = Busy
    BY DEF Outstanding, Busy, OneOwner, TypeOK, Threads, Placed, InHand
  <2>2. CloseRef' = CloseRef
    BY DEF CloseRef, Closing, Disconnects, Outstanding, OneOwner, TypeOK, Threads,
           Placed, Fresh, InHand, InHold
  <2>3. QED BY <2>1, <2>2, OutstandingIsFinite DEF OpsCounted, Busy, CloseRef
<1>6. FreedIsOver'
  BY DEF FreedIsOver, Outstanding, OneOwner, TypeOK, Threads, Placed, InHand, InHold
<1>7. QED BY <1>1, <1>2, <1>3, <1>4, <1>5, <1>6

\* WSARecv is outstanding.
LEMMA RecvPendsKeeps ==
  ASSUME IInv, NEW t \in Threads, RecvPends(t)
  PROVE  IInv'
<1> USE BuffersAssumption
    DEF IInv, RecvPends, CanRecv, Pends, AfterRecv, Hands, Goto, calls, socket, ghosts,
        memory
<1>1. TypeOK' /\ fault' = FALSE
  BY DEF OneOwner, TypeOK, Threads, Places, Operations, Results, Placed, InHand, InHold
<1>2. OneOwner'
  BY <1>1, ThreadsAre DEF OneOwner, TypeOK, Threads, Placed, InHand, InHold
<1>3. Placed' /\ Fresh'
  BY ThreadsAre
     DEF OneOwner, TypeOK, Threads, Placed, Fresh, InHand, InHold
<1>4. OneDisconnect' /\ Flagged'
  BY DEF OneOwner, TypeOK, Threads, Placed, Fresh, OneDisconnect, Flagged, Closes, InHand
<1>5. OpsCounted'
  <2>1. hand[t] \notin Outstanding /\ Outstanding' = Outstanding \cup {hand[t]} /\ Busy' = Busy
    BY ThreadsAre DEF Outstanding, Busy, OneOwner, TypeOK, Threads, Placed, InHand
  <2>2. CloseRef' = CloseRef
    BY ThreadsAre
       DEF CloseRef, Closing, Disconnects, Outstanding, OneOwner, TypeOK, Threads,
           Placed, Fresh, InHand, InHold
  <2>3. Cardinality(Outstanding') = Cardinality(Outstanding) + 1
    BY <2>1, CallAdded
  <2>4. QED BY <2>1, <2>2, <2>3, OutstandingIsFinite DEF OpsCounted, Busy, CloseRef
<1>6. FreedIsOver'
  BY DEF FreedIsOver, Outstanding, OneOwner, TypeOK, Threads, Placed, InHand, InHold
<1>7. QED BY <1>1, <1>2, <1>3, <1>4, <1>5, <1>6

\* WSARecv had data.
LEMMA RecvAtOnceKeeps ==
  ASSUME IInv, NEW t \in Threads, RecvAtOnce(t)
  PROVE  IInv'
<1> USE BuffersAssumption
    DEF IInv, RecvAtOnce, CanRecv, Ends, AfterRecv, UseBurst, Hands, Goto, calls, socket,
        ghosts, memory
<1>1. TypeOK' /\ fault' = FALSE
  BY DEF OneOwner, TypeOK, Threads, Places, Operations, Results, Placed, InHand, InHold
<1>2. OneOwner'
  BY <1>1, ThreadsAre DEF OneOwner, TypeOK, Threads, Placed, InHand, InHold
<1>3. Placed' /\ Fresh'
  BY ThreadsAre
     DEF OneOwner, TypeOK, Threads, Placed, Fresh, InHand, InHold
<1>4. OneDisconnect' /\ Flagged'
  BY DEF OneOwner, TypeOK, Threads, Placed, Fresh, OneDisconnect, Flagged, Closes, InHand
<1>5. OpsCounted'
  <2>1. hand[t] \notin Outstanding /\ Outstanding' = Outstanding \cup {hand[t]} /\ Busy' = Busy
    BY ThreadsAre DEF Outstanding, Busy, OneOwner, TypeOK, Threads, Placed, InHand
  <2>2. CloseRef' = CloseRef
    BY ThreadsAre
       DEF CloseRef, Closing, Disconnects, Outstanding, OneOwner, TypeOK, Threads,
           Placed, Fresh, InHand, InHold
  <2>3. Cardinality(Outstanding') = Cardinality(Outstanding) + 1
    BY <2>1, CallAdded
  <2>4. QED BY <2>1, <2>2, <2>3, OutstandingIsFinite DEF OpsCounted, Busy, CloseRef
<1>6. FreedIsOver'
  BY DEF FreedIsOver, Outstanding, OneOwner, TypeOK, Threads, Placed, InHand, InHold
<1>7. QED BY <1>1, <1>2, <1>3, <1>4, <1>5, <1>6

\* WSARecv failed, and its error is on the port.
LEMMA RecvFailsKeeps ==
  ASSUME IInv, NEW t \in Threads, RecvFails(t)
  PROVE  IInv'
<1> USE BuffersAssumption
    DEF IInv, RecvFails, CanRecv, Ends, AfterRecv, Hands, Goto, calls, socket, ghosts,
        memory
<1>1. TypeOK' /\ fault' = FALSE
  BY DEF OneOwner, TypeOK, Threads, Places, Operations, Results, Placed, InHand, InHold
<1>2. OneOwner'
  BY <1>1, ThreadsAre DEF OneOwner, TypeOK, Threads, Placed, InHand, InHold
<1>3. Placed' /\ Fresh'
  BY ThreadsAre
     DEF OneOwner, TypeOK, Threads, Placed, Fresh, InHand, InHold
<1>4. OneDisconnect' /\ Flagged'
  BY DEF OneOwner, TypeOK, Threads, Placed, Fresh, OneDisconnect, Flagged, Closes, InHand
<1>5. OpsCounted'
  <2>1. hand[t] \notin Outstanding /\ Outstanding' = Outstanding \cup {hand[t]} /\ Busy' = Busy
    BY ThreadsAre DEF Outstanding, Busy, OneOwner, TypeOK, Threads, Placed, InHand
  <2>2. CloseRef' = CloseRef
    BY ThreadsAre
       DEF CloseRef, Closing, Disconnects, Outstanding, OneOwner, TypeOK, Threads,
           Placed, Fresh, InHand, InHold
  <2>3. Cardinality(Outstanding') = Cardinality(Outstanding) + 1
    BY <2>1, CallAdded
  <2>4. QED BY <2>1, <2>2, <2>3, OutstandingIsFinite DEF OpsCounted, Busy, CloseRef
<1>6. FreedIsOver'
  BY DEF FreedIsOver, Outstanding, OneOwner, TypeOK, Threads, Placed, InHand, InHold
<1>7. QED BY <1>1, <1>2, <1>3, <1>4, <1>5, <1>6

\* Nothing was posted: the buffer is freed.
LEMMA AcceptRefusedKeeps ==
  ASSUME IInv, NEW t \in Threads, AcceptRefused(t)
  PROVE  IInv'
<1> USE BuffersAssumption
    DEF IInv, AcceptRefused, AfterAccept, Free, Hands, Goto, calls, socket, ghosts, memory
<1>1. TypeOK' /\ fault' = FALSE
  <2>1. hand[t] \in live
    BY ThreadsAre DEF OneOwner, TypeOK, Threads, Placed, InHand, InHold
  <2>2. fault' = FALSE
    BY <2>1
  <2>3. /\ live' \subseteq Buffers
        /\ op' \in [Buffers -> Operations] /\ res' \in [Buffers -> Results]
    BY DEF OneOwner, TypeOK, Operations, Results
  <2>4. QED BY <2>2, <2>3 DEF OneOwner, TypeOK, Threads, Places, Placed, InHold
<1>2. OneOwner'
  BY <1>1, ThreadsAre DEF OneOwner, TypeOK, Threads, Placed, InHand, InHold
<1>3. Placed' /\ Fresh'
  BY ThreadsAre
     DEF OneOwner, TypeOK, Threads, Placed, Fresh, InHand, InHold
<1>4. OneDisconnect' /\ Flagged'
  BY DEF OneOwner, TypeOK, Threads, Placed, Fresh, OneDisconnect, Flagged, Closes, InHand
<1>5. OpsCounted'
  <2>1. Outstanding' = Outstanding /\ Busy' = Busy
    BY DEF Outstanding, Busy, OneOwner, TypeOK, Threads, Placed, InHand
  <2>2. CloseRef' = CloseRef
    BY DEF CloseRef, Closing, Disconnects, Outstanding, OneOwner, TypeOK, Threads,
           Placed, Fresh, InHand, InHold
  <2>3. QED BY <2>1, <2>2, OutstandingIsFinite DEF OpsCounted, Busy, CloseRef
<1>6. FreedIsOver'
  BY DEF FreedIsOver, Outstanding, OneOwner, TypeOK, Threads, Placed, InHand, InHold
<1>7. QED BY <1>1, <1>2, <1>3, <1>4, <1>5, <1>6

\* AcceptEx is outstanding.
LEMMA AcceptPendsKeeps ==
  ASSUME IInv, NEW t \in Threads, AcceptPends(t)
  PROVE  IInv'
<1> USE BuffersAssumption
    DEF IInv, AcceptPends, AfterAccept, Pends, Hands, Goto, calls, socket, ghosts, memory
<1>1. TypeOK' /\ fault' = FALSE
  BY DEF OneOwner, TypeOK, Threads, Places, Operations, Results, Placed, InHand, InHold
<1>2. OneOwner'
  BY <1>1, ThreadsAre DEF OneOwner, TypeOK, Threads, Placed, InHand, InHold
<1>3. Placed' /\ Fresh'
  BY ThreadsAre
     DEF OneOwner, TypeOK, Threads, Placed, Fresh, InHand, InHold
<1>4. OneDisconnect' /\ Flagged'
  BY DEF OneOwner, TypeOK, Threads, Placed, Fresh, OneDisconnect, Flagged, Closes, InHand
<1>5. OpsCounted'
  <2>1. hand[t] \notin Outstanding /\ Outstanding' = Outstanding \cup {hand[t]} /\ Busy' = Busy
    BY ThreadsAre DEF Outstanding, Busy, OneOwner, TypeOK, Threads, Placed, InHand
  <2>2. CloseRef' = CloseRef
    BY ThreadsAre
       DEF CloseRef, Closing, Disconnects, Outstanding, OneOwner, TypeOK, Threads,
           Placed, Fresh, InHand, InHold
  <2>3. Cardinality(Outstanding') = Cardinality(Outstanding) + 1
    BY <2>1, CallAdded
  <2>4. QED BY <2>1, <2>2, <2>3, OutstandingIsFinite DEF OpsCounted, Busy, CloseRef
<1>6. FreedIsOver'
  BY DEF FreedIsOver, Outstanding, OneOwner, TypeOK, Threads, Placed, InHand, InHold
<1>7. QED BY <1>1, <1>2, <1>3, <1>4, <1>5, <1>6

-----------------------------------------------------------------------------
(* The Tcl thread                                                           *)

\* A thread that has no buffer in hand gets one.
LEMMA GetKeeps ==
  ASSUME IInv, NEW t \in Threads, NEW place,
         \/ t = "tcl" /\ <<at.tcl, place>> \in {<<"idle", "send">>, <<"idle", "accept">>, <<"get", "recv">>,
                                      <<"replace", "disconnect">>}
         \/ t = "ct" /\ <<at.ct, place>> \in {<<"get", "recv">>, <<"getError", "pushNew">>,
                                    <<"replace", "accept">>},
         Get(t, place)
  PROVE  IInv'
<1> USE BuffersAssumption DEF IInv, Get, Hands, Goto, calls, socket, ghosts
<1>1. TypeOK' /\ fault' = FALSE
  BY DEF OneOwner, TypeOK, Threads, Places, Operations, Results, Placed, InHand, InHold
<1>2. OneOwner'
  BY <1>1, ThreadsAre DEF OneOwner, TypeOK, Threads, Placed, InHand, InHold
<1>3. Placed' /\ Fresh'
  BY ThreadsAre
     DEF OneOwner, TypeOK, Threads, Placed, Fresh, InHand, InHold
<1>4. OneDisconnect' /\ Flagged'
  BY DEF OneOwner, TypeOK, Threads, Placed, Fresh, OneDisconnect, Flagged, Closes, InHand
<1>5. OpsCounted'
  <2>1. Outstanding' = Outstanding /\ Busy' = Busy
    BY DEF Outstanding, Busy, OneOwner, TypeOK, Threads, Placed, InHand
  <2>2. CloseRef' = CloseRef
    BY DEF CloseRef, Closing, Disconnects, Outstanding, OneOwner, TypeOK, Threads,
           Placed, Fresh, InHand, InHold
  <2>3. QED BY <2>1, <2>2, OutstandingIsFinite DEF OpsCounted, Busy, CloseRef
<1>6. FreedIsOver'
  BY DEF FreedIsOver, Outstanding, OneOwner, TypeOK, Threads, Placed, InHand, InHold
<1>7. QED BY <1>1, <1>2, <1>3, <1>4, <1>5, <1>6

\* A buffer leaves llPendingRecv for IocpInputProc, or goes back.
LEMMA PopKeeps ==
  ASSUME IInv, Pop
  PROVE  IInv'
<1> USE BuffersAssumption
    DEF IInv, Pop, TclMay, Holds, Goto, calls, socket, ghosts, memory
<1>1. TypeOK' /\ fault' = FALSE
  BY DEF OneOwner, TypeOK, Threads, Places, Operations, Results, Placed, InHand, InHold
<1>2. OneOwner'
  BY <1>1, ThreadsAre DEF OneOwner, TypeOK, Threads, Placed, InHand, InHold
<1>3. Placed' /\ Fresh'
  BY ThreadsAre
     DEF OneOwner, TypeOK, Threads, Placed, Fresh, InHand, InHold
<1>4. OneDisconnect' /\ Flagged'
  BY DEF OneOwner, TypeOK, Threads, Placed, Fresh, OneDisconnect, Flagged, Closes, InHand
<1>5. OpsCounted'
  <2>1. Outstanding' = Outstanding /\ Busy' = Busy
    BY DEF Outstanding, Busy, OneOwner, TypeOK, Threads, Placed, InHand
  <2>2. CloseRef' = CloseRef
    BY DEF CloseRef, Closing, Disconnects, Outstanding, OneOwner, TypeOK, Threads,
           Placed, Fresh, InHand, InHold
  <2>3. QED BY <2>1, <2>2, OutstandingIsFinite DEF OpsCounted, Busy, CloseRef
<1>6. FreedIsOver'
  BY DEF FreedIsOver, Outstanding, OneOwner, TypeOK, Threads, Placed, InHand, InHold
<1>7. QED BY <1>1, <1>2, <1>3, <1>4, <1>5, <1>6

LEMMA PutBackKeeps ==
  ASSUME IInv, PutBack
  PROVE  IInv'
<1> USE BuffersAssumption DEF IInv, PutBack, Holds, Goto, calls, socket, ghosts, memory
<1>1. TypeOK' /\ fault' = FALSE
  BY DEF OneOwner, TypeOK, Threads, Places, Operations, Results, Placed, InHand, InHold
<1>2. OneOwner'
  BY <1>1, ThreadsAre DEF OneOwner, TypeOK, Threads, Placed, InHand, InHold
<1>3. Placed' /\ Fresh'
  BY ThreadsAre
     DEF OneOwner, TypeOK, Threads, Placed, Fresh, InHand, InHold
<1>4. OneDisconnect' /\ Flagged'
  BY DEF OneOwner, TypeOK, Threads, Placed, Fresh, OneDisconnect, Flagged, Closes, InHand
<1>5. OpsCounted'
  <2>1. Outstanding' = Outstanding /\ Busy' = Busy
    BY DEF Outstanding, Busy, OneOwner, TypeOK, Threads, Placed, InHand
  <2>2. CloseRef' = CloseRef
    BY DEF CloseRef, Closing, Disconnects, Outstanding, OneOwner, TypeOK, Threads,
           Placed, Fresh, InHand, InHold
  <2>3. QED BY <2>1, <2>2, OutstandingIsFinite DEF OpsCounted, Busy, CloseRef
<1>6. FreedIsOver'
  BY DEF FreedIsOver, Outstanding, OneOwner, TypeOK, Threads, Placed, InHand, InHold
<1>7. QED BY <1>1, <1>2, <1>3, <1>4, <1>5, <1>6

LEMMA NoMoreKeeps ==
  ASSUME IInv, NoMore
  PROVE  IInv'
<1> USE BuffersAssumption DEF IInv, NoMore, Holds, Goto, calls, socket, ghosts, memory
<1>1. TypeOK' /\ fault' = FALSE
  BY DEF OneOwner, TypeOK, Threads, Places, Operations, Results, Placed, InHand, InHold
<1>2. OneOwner'
  BY <1>1, ThreadsAre DEF OneOwner, TypeOK, Threads, Placed, InHand, InHold
<1>3. Placed' /\ Fresh'
  BY ThreadsAre
     DEF OneOwner, TypeOK, Threads, Placed, Fresh, InHand, InHold
<1>4. OneDisconnect' /\ Flagged'
  BY DEF OneOwner, TypeOK, Threads, Placed, Fresh, OneDisconnect, Flagged, Closes, InHand
<1>5. OpsCounted'
  <2>1. Outstanding' = Outstanding /\ Busy' = Busy
    BY DEF Outstanding, Busy, OneOwner, TypeOK, Threads, Placed, InHand
  <2>2. CloseRef' = CloseRef
    BY DEF CloseRef, Closing, Disconnects, Outstanding, OneOwner, TypeOK, Threads,
           Placed, Fresh, InHand, InHold
  <2>3. QED BY <2>1, <2>2, OutstandingIsFinite DEF OpsCounted, Busy, CloseRef
<1>6. FreedIsOver'
  BY DEF FreedIsOver, Outstanding, OneOwner, TypeOK, Threads, Placed, InHand, InHold
<1>7. QED BY <1>1, <1>2, <1>3, <1>4, <1>5, <1>6

\* A merged buffer is freed, whatever it said.
LEMMA MergeKeeps ==
  ASSUME IInv, Merge
  PROVE  IInv'
<1> USE BuffersAssumption DEF IInv, Merge, Free, Holds, Goto, calls, socket, ghosts
<1>1. TypeOK' /\ fault' = FALSE
  <2>1. held.tcl \in live
    BY ThreadsAre DEF OneOwner, TypeOK, Threads, Placed, InHand, InHold
  <2>2. fault' = FALSE
    BY <2>1
  <2>3. /\ live' \subseteq Buffers
        /\ op' \in [Buffers -> Operations] /\ res' \in [Buffers -> Results]
    BY DEF OneOwner, TypeOK, Operations, Results
  <2>4. QED BY <2>2, <2>3 DEF OneOwner, TypeOK, Threads, Places, Placed, InHold
<1>2. OneOwner'
  BY <1>1, ThreadsAre DEF OneOwner, TypeOK, Threads, Placed, InHand, InHold
<1>3. Placed' /\ Fresh'
  BY ThreadsAre
     DEF OneOwner, TypeOK, Threads, Placed, Fresh, InHand, InHold
<1>4. OneDisconnect' /\ Flagged'
  BY DEF OneOwner, TypeOK, Threads, Placed, Fresh, OneDisconnect, Flagged, Closes, InHand
<1>5. OpsCounted'
  <2>1. Outstanding' = Outstanding /\ Busy' = Busy
    BY DEF Outstanding, Busy, OneOwner, TypeOK, Threads, Placed, InHand
  <2>2. CloseRef' = CloseRef
    BY ThreadsAre
       DEF CloseRef, Closing, Disconnects, Outstanding, OneOwner, TypeOK, Threads,
           Placed, Fresh, InHand, InHold
  <2>3. QED BY <2>1, <2>2, OutstandingIsFinite DEF OpsCounted, Busy, CloseRef
<1>6. FreedIsOver'
  BY DEF FreedIsOver, Outstanding, OneOwner, TypeOK, Threads, Placed, InHand, InHold
<1>7. QED BY <1>1, <1>2, <1>3, <1>4, <1>5, <1>6

LEMMA MergeEofKeeps ==
  ASSUME IInv, MergeEof
  PROVE  IInv'
<1> USE BuffersAssumption DEF IInv, MergeEof, Free, Holds, Goto, calls, socket, ghosts
<1>1. TypeOK' /\ fault' = FALSE
  <2>1. held.tcl \in live
    BY ThreadsAre DEF OneOwner, TypeOK, Threads, Placed, InHand, InHold
  <2>2. fault' = FALSE
    BY <2>1
  <2>3. /\ live' \subseteq Buffers
        /\ op' \in [Buffers -> Operations] /\ res' \in [Buffers -> Results]
    BY DEF OneOwner, TypeOK, Operations, Results
  <2>4. QED BY <2>2, <2>3 DEF OneOwner, TypeOK, Threads, Places, Placed, InHold
<1>2. OneOwner'
  BY <1>1, ThreadsAre DEF OneOwner, TypeOK, Threads, Placed, InHand, InHold
<1>3. Placed' /\ Fresh'
  BY ThreadsAre
     DEF OneOwner, TypeOK, Threads, Placed, Fresh, InHand, InHold
<1>4. OneDisconnect' /\ Flagged'
  BY DEF OneOwner, TypeOK, Threads, Placed, Fresh, OneDisconnect, Flagged, Closes, InHand
<1>5. OpsCounted'
  <2>1. Outstanding' = Outstanding /\ Busy' = Busy
    BY DEF Outstanding, Busy, OneOwner, TypeOK, Threads, Placed, InHand
  <2>2. CloseRef' = CloseRef
    BY ThreadsAre
       DEF CloseRef, Closing, Disconnects, Outstanding, OneOwner, TypeOK, Threads,
           Placed, Fresh, InHand, InHold
  <2>3. QED BY <2>1, <2>2, OutstandingIsFinite DEF OpsCounted, Busy, CloseRef
<1>6. FreedIsOver'
  BY DEF FreedIsOver, Outstanding, OneOwner, TypeOK, Threads, Placed, InHand, InHold
<1>7. QED BY <1>1, <1>2, <1>3, <1>4, <1>5, <1>6

LEMMA MergeErrorKeeps ==
  ASSUME IInv, MergeError
  PROVE  IInv'
<1> USE BuffersAssumption DEF IInv, MergeError, Free, Holds, Goto, calls, socket, ghosts
<1>1. TypeOK' /\ fault' = FALSE
  <2>1. held.tcl \in live
    BY ThreadsAre DEF OneOwner, TypeOK, Threads, Placed, InHand, InHold
  <2>2. fault' = FALSE
    BY <2>1
  <2>3. /\ live' \subseteq Buffers
        /\ op' \in [Buffers -> Operations] /\ res' \in [Buffers -> Results]
    BY DEF OneOwner, TypeOK, Operations, Results
  <2>4. QED BY <2>2, <2>3 DEF OneOwner, TypeOK, Threads, Places, Placed, InHold
<1>2. OneOwner'
  BY <1>1, ThreadsAre DEF OneOwner, TypeOK, Threads, Placed, InHand, InHold
<1>3. Placed' /\ Fresh'
  BY ThreadsAre
     DEF OneOwner, TypeOK, Threads, Placed, Fresh, InHand, InHold
<1>4. OneDisconnect' /\ Flagged'
  BY DEF OneOwner, TypeOK, Threads, Placed, Fresh, OneDisconnect, Flagged, Closes, InHand
<1>5. OpsCounted'
  <2>1. Outstanding' = Outstanding /\ Busy' = Busy
    BY DEF Outstanding, Busy, OneOwner, TypeOK, Threads, Placed, InHand
  <2>2. CloseRef' = CloseRef
    BY ThreadsAre
       DEF CloseRef, Closing, Disconnects, Outstanding, OneOwner, TypeOK, Threads,
           Placed, Fresh, InHand, InHold
  <2>3. QED BY <2>1, <2>2, OutstandingIsFinite DEF OpsCounted, Busy, CloseRef
<1>6. FreedIsOver'
  BY DEF FreedIsOver, Outstanding, OneOwner, TypeOK, Threads, Placed, InHand, InHold
<1>7. QED BY <1>1, <1>2, <1>3, <1>4, <1>5, <1>6

LEMMA RepostKeeps ==
  ASSUME IInv, Repost
  PROVE  IInv'
<1> USE BuffersAssumption DEF IInv, Repost, Holds, Goto, calls, socket, ghosts, memory
<1>1. TypeOK' /\ fault' = FALSE
  BY DEF OneOwner, TypeOK, Threads, Places, Operations, Results, Placed, InHand, InHold
<1>2. OneOwner'
  BY <1>1, ThreadsAre DEF OneOwner, TypeOK, Threads, Placed, InHand, InHold
<1>3. Placed' /\ Fresh'
  BY ThreadsAre
     DEF OneOwner, TypeOK, Threads, Placed, Fresh, InHand, InHold
<1>4. OneDisconnect' /\ Flagged'
  BY DEF OneOwner, TypeOK, Threads, Placed, Fresh, OneDisconnect, Flagged, Closes, InHand
<1>5. OpsCounted'
  <2>1. Outstanding' = Outstanding /\ Busy' = Busy
    BY DEF Outstanding, Busy, OneOwner, TypeOK, Threads, Placed, InHand
  <2>2. CloseRef' = CloseRef
    BY DEF CloseRef, Closing, Disconnects, Outstanding, OneOwner, TypeOK, Threads,
           Placed, Fresh, InHand, InHold
  <2>3. QED BY <2>1, <2>2, OutstandingIsFinite DEF OpsCounted, Busy, CloseRef
<1>6. FreedIsOver'
  BY DEF FreedIsOver, Outstanding, OneOwner, TypeOK, Threads, Placed, InHand, InHold
<1>7. QED BY <1>1, <1>2, <1>3, <1>4, <1>5, <1>6

\* Sends.
LEMMA SendRefusedKeeps ==
  ASSUME IInv, SendRefused
  PROVE  IInv'
<1> USE BuffersAssumption
    DEF IInv, SendRefused, Sent, Free, Hands, Goto, calls, socket, ghosts, memory
<1>1. TypeOK' /\ fault' = FALSE
  <2>1. hand.tcl \in live
    BY ThreadsAre DEF OneOwner, TypeOK, Threads, Placed, InHand, InHold
  <2>2. fault' = FALSE
    BY <2>1
  <2>3. /\ live' \subseteq Buffers
        /\ op' \in [Buffers -> Operations] /\ res' \in [Buffers -> Results]
    BY DEF OneOwner, TypeOK, Operations, Results
  <2>4. QED BY <2>2, <2>3 DEF OneOwner, TypeOK, Threads, Places, Placed, InHold
<1>2. OneOwner'
  BY <1>1, ThreadsAre DEF OneOwner, TypeOK, Threads, Placed, InHand, InHold
<1>3. Placed' /\ Fresh'
  BY ThreadsAre
     DEF OneOwner, TypeOK, Threads, Placed, Fresh, InHand, InHold
<1>4. OneDisconnect' /\ Flagged'
  BY DEF OneOwner, TypeOK, Threads, Placed, Fresh, OneDisconnect, Flagged, Closes, InHand
<1>5. OpsCounted'
  <2>1. Outstanding' = Outstanding /\ Busy' = Busy
    BY DEF Outstanding, Busy, OneOwner, TypeOK, Threads, Placed, InHand
  <2>2. CloseRef' = CloseRef
    BY DEF CloseRef, Closing, Disconnects, Outstanding, OneOwner, TypeOK, Threads,
           Placed, Fresh, InHand, InHold
  <2>3. QED BY <2>1, <2>2, OutstandingIsFinite DEF OpsCounted, Busy, CloseRef
<1>6. FreedIsOver'
  BY DEF FreedIsOver, Outstanding, OneOwner, TypeOK, Threads, Placed, InHand, InHold
<1>7. QED BY <1>1, <1>2, <1>3, <1>4, <1>5, <1>6

LEMMA SendNotConnKeeps ==
  ASSUME IInv, SendNotConn
  PROVE  IInv'
<1> USE BuffersAssumption
    DEF IInv, SendNotConn, Sent, Loses, Hands, Goto, calls, socket, ghosts, memory
<1>1. TypeOK' /\ fault' = FALSE
  BY DEF OneOwner, TypeOK, Threads, Places, Operations, Results, Placed, InHand, InHold
<1>2. OneOwner'
  BY <1>1, ThreadsAre DEF OneOwner, TypeOK, Threads, Placed, InHand, InHold
<1>3. Placed' /\ Fresh'
  BY ThreadsAre
     DEF OneOwner, TypeOK, Threads, Placed, Fresh, InHand, InHold
<1>4. OneDisconnect' /\ Flagged'
  BY DEF OneOwner, TypeOK, Threads, Placed, Fresh, OneDisconnect, Flagged, Closes, InHand
<1>5. OpsCounted'
  <2>1. Outstanding' = Outstanding /\ Busy' = Busy
    BY DEF Outstanding, Busy, OneOwner, TypeOK, Threads, Placed, InHand
  <2>2. CloseRef' = CloseRef
    BY DEF CloseRef, Closing, Disconnects, Outstanding, OneOwner, TypeOK, Threads,
           Placed, Fresh, InHand, InHold
  <2>3. QED BY <2>1, <2>2, OutstandingIsFinite DEF OpsCounted, Busy, CloseRef
<1>6. FreedIsOver'
  BY DEF FreedIsOver, Outstanding, OneOwner, TypeOK, Threads, Placed, InHand, InHold
<1>7. QED BY <1>1, <1>2, <1>3, <1>4, <1>5, <1>6

LEMMA SendPendsKeeps ==
  ASSUME IInv, SendPends
  PROVE  IInv'
<1> USE BuffersAssumption
    DEF IInv, SendPends, Sent, Pends, Hands, Goto, calls, socket, ghosts, memory
<1>1. TypeOK' /\ fault' = FALSE
  BY DEF OneOwner, TypeOK, Threads, Places, Operations, Results, Placed, InHand, InHold
<1>2. OneOwner'
  BY <1>1, ThreadsAre DEF OneOwner, TypeOK, Threads, Placed, InHand, InHold
<1>3. Placed' /\ Fresh'
  BY ThreadsAre
     DEF OneOwner, TypeOK, Threads, Placed, Fresh, InHand, InHold
<1>4. OneDisconnect' /\ Flagged'
  BY DEF OneOwner, TypeOK, Threads, Placed, Fresh, OneDisconnect, Flagged, Closes, InHand
<1>5. OpsCounted'
  <2>1. hand.tcl \notin Outstanding /\ Outstanding' = Outstanding \cup {hand.tcl} /\ Busy' = Busy
    BY ThreadsAre DEF Outstanding, Busy, OneOwner, TypeOK, Threads, Placed, InHand
  <2>2. CloseRef' = CloseRef
    BY ThreadsAre
       DEF CloseRef, Closing, Disconnects, Outstanding, OneOwner, TypeOK, Threads,
           Placed, Fresh, InHand, InHold
  <2>3. Cardinality(Outstanding') = Cardinality(Outstanding) + 1
    BY <2>1, CallAdded
  <2>4. QED BY <2>1, <2>2, <2>3, OutstandingIsFinite DEF OpsCounted, Busy, CloseRef
<1>6. FreedIsOver'
  BY DEF FreedIsOver, Outstanding, OneOwner, TypeOK, Threads, Placed, InHand, InHold
<1>7. QED BY <1>1, <1>2, <1>3, <1>4, <1>5, <1>6

LEMMA SendEndsKeeps ==
  ASSUME IInv, SendEnds
  PROVE  IInv'
<1> USE BuffersAssumption
    DEF IInv, SendEnds, Sent, Ends, Hands, Goto, calls, socket, ghosts, memory
<1>1. TypeOK' /\ fault' = FALSE
  BY DEF OneOwner, TypeOK, Threads, Places, Operations, Results, Placed, InHand, InHold
<1>2. OneOwner'
  BY <1>1, ThreadsAre DEF OneOwner, TypeOK, Threads, Placed, InHand, InHold
<1>3. Placed' /\ Fresh'
  BY ThreadsAre
     DEF OneOwner, TypeOK, Threads, Placed, Fresh, InHand, InHold
<1>4. OneDisconnect' /\ Flagged'
  BY DEF OneOwner, TypeOK, Threads, Placed, Fresh, OneDisconnect, Flagged, Closes, InHand
<1>5. OpsCounted'
  <2>1. hand.tcl \notin Outstanding /\ Outstanding' = Outstanding \cup {hand.tcl} /\ Busy' = Busy
    BY ThreadsAre DEF Outstanding, Busy, OneOwner, TypeOK, Threads, Placed, InHand
  <2>2. CloseRef' = CloseRef
    BY ThreadsAre
       DEF CloseRef, Closing, Disconnects, Outstanding, OneOwner, TypeOK, Threads,
           Placed, Fresh, InHand, InHold
  <2>3. Cardinality(Outstanding') = Cardinality(Outstanding) + 1
    BY <2>1, CallAdded
  <2>4. QED BY <2>1, <2>2, <2>3, OutstandingIsFinite DEF OpsCounted, Busy, CloseRef
<1>6. FreedIsOver'
  BY DEF FreedIsOver, Outstanding, OneOwner, TypeOK, Threads, Placed, InHand, InHold
<1>7. QED BY <1>1, <1>2, <1>3, <1>4, <1>5, <1>6

LEMMA SendNoBufsKeeps ==
  ASSUME IInv, SendNoBufs
  PROVE  IInv'
<1> USE BuffersAssumption
    DEF IInv, SendNoBufs, Sent, Ends, Hands, Goto, calls, socket, ghosts, memory
<1>1. TypeOK' /\ fault' = FALSE
  BY DEF OneOwner, TypeOK, Threads, Places, Operations, Results, Placed, InHand, InHold
<1>2. OneOwner'
  BY <1>1, ThreadsAre DEF OneOwner, TypeOK, Threads, Placed, InHand, InHold
<1>3. Placed' /\ Fresh'
  BY ThreadsAre
     DEF OneOwner, TypeOK, Threads, Placed, Fresh, InHand, InHold
<1>4. OneDisconnect' /\ Flagged'
  BY DEF OneOwner, TypeOK, Threads, Placed, Fresh, OneDisconnect, Flagged, Closes, InHand
<1>5. OpsCounted'
  <2>1. hand.tcl \notin Outstanding /\ Outstanding' = Outstanding \cup {hand.tcl} /\ Busy' = Busy
    BY ThreadsAre DEF Outstanding, Busy, OneOwner, TypeOK, Threads, Placed, InHand
  <2>2. CloseRef' = CloseRef
    BY ThreadsAre
       DEF CloseRef, Closing, Disconnects, Outstanding, OneOwner, TypeOK, Threads,
           Placed, Fresh, InHand, InHold
  <2>3. Cardinality(Outstanding') = Cardinality(Outstanding) + 1
    BY <2>1, CallAdded
  <2>4. QED BY <2>1, <2>2, <2>3, OutstandingIsFinite DEF OpsCounted, Busy, CloseRef
<1>6. FreedIsOver'
  BY DEF FreedIsOver, Outstanding, OneOwner, TypeOK, Threads, Placed, InHand, InHold
<1>7. QED BY <1>1, <1>2, <1>3, <1>4, <1>5, <1>6

\* IocpClose2Proc takes a reference for a client, and its DisconnectEx another.
LEMMA CloseKeeps ==
  ASSUME IInv, Close
  PROVE  IInv'
<1> USE BuffersAssumption
    DEF IInv, Close, TclMay, Holds, Goto, calls, socket, ghosts, memory
<1>1. TypeOK' /\ fault' = FALSE
  <2>1. ops' \in Int
    BY DEF OneOwner, TypeOK
  <2>2. flags' \subseteq {"EOF", "CLOSING", "CLOSABLE"}
    BY DEF OneOwner, TypeOK
  <2>3. at' \in [Threads -> Places]
    BY DEF OneOwner, TypeOK, Threads, Places
  <2>4. QED BY <2>1, <2>2, <2>3 DEF OneOwner, TypeOK
<1>2. OneOwner'
  BY <1>1, ThreadsAre DEF OneOwner, TypeOK, Threads, Placed, InHand, InHold
<1>3. Placed' /\ Fresh'
  BY ThreadsAre
     DEF OneOwner, TypeOK, Threads, Placed, Fresh, InHand, InHold
<1>4. OneDisconnect' /\ Flagged'
  BY DEF OneOwner, TypeOK, Threads, Placed, Fresh, OneDisconnect, Flagged, Closes, InHand
<1>5. OpsCounted'
  <2>1. Outstanding' = Outstanding /\ Busy' = Busy
    BY DEF Outstanding, Busy, OneOwner, TypeOK, Threads, Placed, InHand
  <2>2. CloseRef' = IF kind = "listener" THEN CloseRef ELSE CloseRef + 1
    BY DEF CloseRef, Closing, Disconnects, Outstanding, OneOwner, TypeOK, Threads,
           Placed, Fresh, InHand, InHold, OneDisconnect
  <2>3. QED BY <2>1, <2>2, OutstandingIsFinite DEF OpsCounted, Busy, CloseRef
<1>6. FreedIsOver'
  BY DEF FreedIsOver, Outstanding, OneOwner, TypeOK, Threads, Placed, InHand, InHold
<1>7. QED BY <1>1, <1>2, <1>3, <1>4, <1>5, <1>6

LEMMA DisconnectKeeps ==
  ASSUME IInv, Disconnect
  PROVE  IInv'
<1> USE BuffersAssumption
    DEF IInv, Disconnect, Pends, Ends, Hands, Goto, calls, socket, ghosts, memory
<1>1. TypeOK' /\ fault' = FALSE
  BY DEF OneOwner, TypeOK, Threads, Places, Operations, Results, Placed, InHand, InHold
<1>2. OneOwner'
  BY <1>1, ThreadsAre DEF OneOwner, TypeOK, Threads, Placed, InHand, InHold
<1>3. Placed' /\ Fresh'
  BY ThreadsAre
     DEF OneOwner, TypeOK, Threads, Placed, Fresh, InHand, InHold
<1>4. OneDisconnect' /\ Flagged'
  BY DEF OneOwner, TypeOK, Threads, Placed, Fresh, OneDisconnect, Flagged, Closes, InHand
<1>5. OpsCounted'
  <2>1. hand.tcl \notin Outstanding /\ Outstanding' = Outstanding \cup {hand.tcl} /\ Busy' = Busy
    BY ThreadsAre DEF Outstanding, Busy, OneOwner, TypeOK, Threads, Placed, InHand
  <2>2. CloseRef' = CloseRef /\ CloseRef = 1
    BY ThreadsAre
       DEF CloseRef, Closing, Disconnects, Outstanding, OneOwner, TypeOK, Threads,
           Placed, Fresh, InHand, InHold
  <2>3. Cardinality(Outstanding') = Cardinality(Outstanding) + 1
    BY <2>1, CallAdded
  <2>4. QED BY <2>1, <2>2, <2>3, OutstandingIsFinite DEF OpsCounted, Busy, CloseRef
<1>6. FreedIsOver'
  BY DEF FreedIsOver, Outstanding, OneOwner, TypeOK, Threads, Placed, InHand, InHold
<1>7. QED BY <1>1, <1>2, <1>3, <1>4, <1>5, <1>6

-----------------------------------------------------------------------------
(* Winsock and the completion thread                                        *)

\* A call ends.
LEMMA CompleteKeeps ==
  ASSUME IInv, NEW b \in Buffers, Complete(b)
  PROVE  IInv'
<1> USE BuffersAssumption
    DEF IInv, Complete, Outcomes, Hands, Goto, calls, socket, ghosts, memory
<1>1. TypeOK' /\ fault' = FALSE
  BY DEF OneOwner, TypeOK, Threads, Places, Operations, Results, Placed, InHand, InHold
<1>2. OneOwner'
  BY <1>1, ThreadsAre DEF OneOwner, TypeOK, Threads, Placed, InHand, InHold
<1>3. Placed' /\ Fresh'
  BY ThreadsAre
     DEF OneOwner, TypeOK, Threads, Placed, Fresh, InHand, InHold
<1>4. OneDisconnect' /\ Flagged'
  BY DEF OneOwner, TypeOK, Threads, Placed, Fresh, OneDisconnect, Flagged, Closes, InHand
<1>5. OpsCounted'
  <2>1. Outstanding' = Outstanding /\ Busy' = Busy
    BY DEF Outstanding, Busy, OneOwner, TypeOK, Threads, Placed, InHand
  <2>2. CloseRef' = CloseRef
    BY DEF CloseRef, Closing, Disconnects, Outstanding, OneOwner, TypeOK, Threads,
           Placed, Fresh, InHand, InHold
  <2>3. QED BY <2>1, <2>2, OutstandingIsFinite DEF OpsCounted, Busy, CloseRef
<1>6. FreedIsOver'
  BY DEF FreedIsOver, Outstanding, OneOwner, TypeOK, Threads, Placed, InHand, InHold
<1>7. QED BY <1>1, <1>2, <1>3, <1>4, <1>5, <1>6

\* HandleIo has it.
LEMMA TakeKeeps ==
  ASSUME IInv, NEW b \in Buffers, Take(b)
  PROVE  IInv'
<1> USE BuffersAssumption DEF IInv, Take, Holds, Goto, calls, socket, ghosts, memory
<1>1. TypeOK' /\ fault' = FALSE
  <2>1. b \in live /\ info # "freed"
    BY DEF OneOwner, FreedIsOver, Outstanding
  <2>2. fault' = FALSE
    BY <2>1
  <2>3. QED BY <2>2 DEF OneOwner, TypeOK, Threads, Places
<1>2. OneOwner'
  BY <1>1, ThreadsAre DEF OneOwner, TypeOK, Threads, Placed, InHand, InHold
<1>3. Placed' /\ Fresh'
  BY ThreadsAre
     DEF OneOwner, TypeOK, Threads, Placed, Fresh, InHand, InHold
<1>4. OneDisconnect' /\ Flagged'
  BY DEF OneOwner, TypeOK, Threads, Placed, Fresh, OneDisconnect, Flagged, Closes, InHand
<1>5. OpsCounted'
  <2>1. b \in Outstanding /\ Outstanding' = Outstanding \ {b} /\ Busy = 0 /\ Busy' = 1
    BY DEF Outstanding, Busy, OneOwner, TypeOK, Threads
  <2>2. CloseRef' = CloseRef
    BY DEF CloseRef, Closing, Disconnects, Outstanding, OneOwner, TypeOK, Threads,
           Placed, Fresh, InHand, InHold
  <2>3. Cardinality(Outstanding') = Cardinality(Outstanding) - 1
    BY <2>1, CallRemoved
  <2>4. QED BY <2>1, <2>2, <2>3, OutstandingIsFinite DEF OpsCounted, Busy, CloseRef
<1>6. FreedIsOver'
  BY DEF FreedIsOver, Outstanding, OneOwner, TypeOK, Threads, Placed, InHand, InHold
<1>7. QED BY <1>1, <1>2, <1>3, <1>4, <1>5, <1>6

LEMMA HandleAbortedKeeps ==
  ASSUME IInv, HandleAborted
  PROVE  IInv'
<1> USE BuffersAssumption
    DEF IInv, HandleAborted, Handles, Goto, calls, socket, ghosts, memory
<1>1. TypeOK' /\ fault' = FALSE
  BY DEF OneOwner, TypeOK, Threads, Places, Operations, Results, Placed, InHand, InHold
<1>2. OneOwner'
  BY <1>1, ThreadsAre DEF OneOwner, TypeOK, Threads, Placed, InHand, InHold
<1>3. Placed' /\ Fresh'
  BY ThreadsAre
     DEF OneOwner, TypeOK, Threads, Placed, Fresh, InHand, InHold
<1>4. OneDisconnect' /\ Flagged'
  BY DEF OneOwner, TypeOK, Threads, Placed, Fresh, OneDisconnect, Flagged, Closes, InHand
<1>5. OpsCounted'
  <2>1. Outstanding' = Outstanding /\ Busy' = Busy
    BY DEF Outstanding, Busy, OneOwner, TypeOK, Threads, Placed, InHand
  <2>2. CloseRef' = CloseRef
    BY DEF CloseRef, Closing, Disconnects, Outstanding, OneOwner, TypeOK, Threads,
           Placed, Fresh, InHand, InHold, OneDisconnect
  <2>3. QED BY <2>1, <2>2, OutstandingIsFinite DEF OpsCounted, Busy, CloseRef
<1>6. FreedIsOver'
  BY DEF FreedIsOver, Outstanding, OneOwner, TypeOK, Threads, Placed, InHand, InHold
<1>7. QED BY <1>1, <1>2, <1>3, <1>4, <1>5, <1>6

LEMMA HandleDataKeeps ==
  ASSUME IInv, HandleData
  PROVE  IInv'
<1> USE BuffersAssumption
    DEF IInv, HandleData, Handles, Goto, calls, socket, ghosts, memory
<1>1. TypeOK' /\ fault' = FALSE
  BY DEF OneOwner, TypeOK, Threads, Places, Operations, Results, Placed, InHand, InHold
<1>2. OneOwner'
  BY <1>1, ThreadsAre DEF OneOwner, TypeOK, Threads, Placed, InHand, InHold
<1>3. Placed' /\ Fresh'
  BY ThreadsAre
     DEF OneOwner, TypeOK, Threads, Placed, Fresh, InHand, InHold
<1>4. OneDisconnect' /\ Flagged'
  BY DEF OneOwner, TypeOK, Threads, Placed, Fresh, OneDisconnect, Flagged, Closes, InHand
<1>5. OpsCounted'
  <2>1. Outstanding' = Outstanding /\ Busy' = Busy
    BY DEF Outstanding, Busy, OneOwner, TypeOK, Threads, Placed, InHand
  <2>2. CloseRef' = CloseRef
    BY DEF CloseRef, Closing, Disconnects, Outstanding, OneOwner, TypeOK, Threads,
           Placed, Fresh, InHand, InHold
  <2>3. QED BY <2>1, <2>2, OutstandingIsFinite DEF OpsCounted, Busy, CloseRef
<1>6. FreedIsOver'
  BY DEF FreedIsOver, Outstanding, OneOwner, TypeOK, Threads, Placed, InHand, InHold
<1>7. QED BY <1>1, <1>2, <1>3, <1>4, <1>5, <1>6

LEMMA HandleReadClosingKeeps ==
  ASSUME IInv, HandleReadClosing
  PROVE  IInv'
<1> USE BuffersAssumption
    DEF IInv, HandleReadClosing, Handles, Goto, calls, socket, ghosts, memory
<1>1. TypeOK' /\ fault' = FALSE
  BY DEF OneOwner, TypeOK, Threads, Places, Operations, Results, Placed, InHand, InHold
<1>2. OneOwner'
  BY <1>1, ThreadsAre DEF OneOwner, TypeOK, Threads, Placed, InHand, InHold
<1>3. Placed' /\ Fresh'
  BY ThreadsAre
     DEF OneOwner, TypeOK, Threads, Placed, Fresh, InHand, InHold
<1>4. OneDisconnect' /\ Flagged'
  BY DEF OneOwner, TypeOK, Threads, Placed, Fresh, OneDisconnect, Flagged, Closes, InHand
<1>5. OpsCounted'
  <2>1. Outstanding' = Outstanding /\ Busy' = Busy
    BY DEF Outstanding, Busy, OneOwner, TypeOK, Threads, Placed, InHand
  <2>2. CloseRef' = CloseRef
    BY DEF CloseRef, Closing, Disconnects, Outstanding, OneOwner, TypeOK, Threads,
           Placed, Fresh, InHand, InHold
  <2>3. QED BY <2>1, <2>2, OutstandingIsFinite DEF OpsCounted, Busy, CloseRef
<1>6. FreedIsOver'
  BY DEF FreedIsOver, Outstanding, OneOwner, TypeOK, Threads, Placed, InHand, InHold
<1>7. QED BY <1>1, <1>2, <1>3, <1>4, <1>5, <1>6

LEMMA HandleReadNoBufsKeeps ==
  ASSUME IInv, HandleReadNoBufs
  PROVE  IInv'
<1> USE BuffersAssumption
    DEF IInv, HandleReadNoBufs, Handles, Goto, calls, socket, ghosts, memory
<1>1. TypeOK' /\ fault' = FALSE
  BY DEF OneOwner, TypeOK, Threads, Places, Operations, Results, Placed, InHand, InHold
<1>2. OneOwner'
  BY <1>1, ThreadsAre DEF OneOwner, TypeOK, Threads, Placed, InHand, InHold
<1>3. Placed' /\ Fresh'
  BY ThreadsAre
     DEF OneOwner, TypeOK, Threads, Placed, Fresh, InHand, InHold
<1>4. OneDisconnect' /\ Flagged'
  BY DEF OneOwner, TypeOK, Threads, Placed, Fresh, OneDisconnect, Flagged, Closes, InHand
<1>5. OpsCounted'
  <2>1. Outstanding' = Outstanding /\ Busy' = Busy
    BY DEF Outstanding, Busy, OneOwner, TypeOK, Threads, Placed, InHand
  <2>2. CloseRef' = CloseRef
    BY DEF CloseRef, Closing, Disconnects, Outstanding, OneOwner, TypeOK, Threads,
           Placed, Fresh, InHand, InHold
  <2>3. QED BY <2>1, <2>2, OutstandingIsFinite DEF OpsCounted, Busy, CloseRef
<1>6. FreedIsOver'
  BY DEF FreedIsOver, Outstanding, OneOwner, TypeOK, Threads, Placed, InHand, InHold
<1>7. QED BY <1>1, <1>2, <1>3, <1>4, <1>5, <1>6

LEMMA HandleReadEndKeeps ==
  ASSUME IInv, HandleReadEnd
  PROVE  IInv'
<1> USE BuffersAssumption
    DEF IInv, HandleReadEnd, Handles, Goto, calls, socket, ghosts, memory
<1>1. TypeOK' /\ fault' = FALSE
  BY DEF OneOwner, TypeOK, Threads, Places, Operations, Results, Placed, InHand, InHold
<1>2. OneOwner'
  BY <1>1, ThreadsAre DEF OneOwner, TypeOK, Threads, Placed, InHand, InHold
<1>3. Placed' /\ Fresh'
  BY ThreadsAre
     DEF OneOwner, TypeOK, Threads, Placed, Fresh, InHand, InHold
<1>4. OneDisconnect' /\ Flagged'
  BY DEF OneOwner, TypeOK, Threads, Placed, Fresh, OneDisconnect, Flagged, Closes, InHand
<1>5. OpsCounted'
  <2>1. Outstanding' = Outstanding /\ Busy' = Busy
    BY DEF Outstanding, Busy, OneOwner, TypeOK, Threads, Placed, InHand
  <2>2. CloseRef' = CloseRef
    BY DEF CloseRef, Closing, Disconnects, Outstanding, OneOwner, TypeOK, Threads,
           Placed, Fresh, InHand, InHold
  <2>3. QED BY <2>1, <2>2, OutstandingIsFinite DEF OpsCounted, Busy, CloseRef
<1>6. FreedIsOver'
  BY DEF FreedIsOver, Outstanding, OneOwner, TypeOK, Threads, Placed, InHand, InHold
<1>7. QED BY <1>1, <1>2, <1>3, <1>4, <1>5, <1>6

LEMMA HandleWriteKeeps ==
  ASSUME IInv, HandleWrite
  PROVE  IInv'
<1> USE BuffersAssumption
    DEF IInv, HandleWrite, Handles, Goto, calls, socket, ghosts, memory
<1>1. TypeOK' /\ fault' = FALSE
  BY DEF OneOwner, TypeOK, Threads, Places, Operations, Results, Placed, InHand, InHold
<1>2. OneOwner'
  BY <1>1, ThreadsAre DEF OneOwner, TypeOK, Threads, Placed, InHand, InHold
<1>3. Placed' /\ Fresh'
  BY ThreadsAre
     DEF OneOwner, TypeOK, Threads, Placed, Fresh, InHand, InHold
<1>4. OneDisconnect' /\ Flagged'
  BY DEF OneOwner, TypeOK, Threads, Placed, Fresh, OneDisconnect, Flagged, Closes, InHand
<1>5. OpsCounted'
  <2>1. Outstanding' = Outstanding /\ Busy' = Busy
    BY DEF Outstanding, Busy, OneOwner, TypeOK, Threads, Placed, InHand
  <2>2. CloseRef' = CloseRef
    BY DEF CloseRef, Closing, Disconnects, Outstanding, OneOwner, TypeOK, Threads,
           Placed, Fresh, InHand, InHold
  <2>3. QED BY <2>1, <2>2, OutstandingIsFinite DEF OpsCounted, Busy, CloseRef
<1>6. FreedIsOver'
  BY DEF FreedIsOver, Outstanding, OneOwner, TypeOK, Threads, Placed, InHand, InHold
<1>7. QED BY <1>1, <1>2, <1>3, <1>4, <1>5, <1>6

LEMMA HandleConnectKeeps ==
  ASSUME IInv, HandleConnect
  PROVE  IInv'
<1> USE BuffersAssumption
    DEF IInv, HandleConnect, Handles, Goto, calls, socket, ghosts, memory
<1>1. TypeOK' /\ fault' = FALSE
  BY DEF OneOwner, TypeOK, Threads, Places, Operations, Results, Placed, InHand, InHold
<1>2. OneOwner'
  BY <1>1, ThreadsAre DEF OneOwner, TypeOK, Threads, Placed, InHand, InHold
<1>3. Placed' /\ Fresh'
  BY ThreadsAre
     DEF OneOwner, TypeOK, Threads, Placed, Fresh, InHand, InHold
<1>4. OneDisconnect' /\ Flagged'
  BY DEF OneOwner, TypeOK, Threads, Placed, Fresh, OneDisconnect, Flagged, Closes, InHand
<1>5. OpsCounted'
  <2>1. Outstanding' = Outstanding /\ Busy' = Busy
    BY DEF Outstanding, Busy, OneOwner, TypeOK, Threads, Placed, InHand
  <2>2. CloseRef' = CloseRef
    BY DEF CloseRef, Closing, Disconnects, Outstanding, OneOwner, TypeOK, Threads,
           Placed, Fresh, InHand, InHold
  <2>3. QED BY <2>1, <2>2, OutstandingIsFinite DEF OpsCounted, Busy, CloseRef
<1>6. FreedIsOver'
  BY DEF FreedIsOver, Outstanding, OneOwner, TypeOK, Threads, Placed, InHand, InHold
<1>7. QED BY <1>1, <1>2, <1>3, <1>4, <1>5, <1>6

LEMMA HandleAcceptKeeps ==
  ASSUME IInv, HandleAccept
  PROVE  IInv'
<1> USE BuffersAssumption
    DEF IInv, HandleAccept, Handles, Goto, calls, socket, ghosts, memory
<1>1. TypeOK' /\ fault' = FALSE
  BY DEF OneOwner, TypeOK, Threads, Places, Operations, Results, Placed, InHand, InHold
<1>2. OneOwner'
  BY <1>1, ThreadsAre DEF OneOwner, TypeOK, Threads, Placed, InHand, InHold
<1>3. Placed' /\ Fresh'
  BY ThreadsAre
     DEF OneOwner, TypeOK, Threads, Placed, Fresh, InHand, InHold
<1>4. OneDisconnect' /\ Flagged'
  BY DEF OneOwner, TypeOK, Threads, Placed, Fresh, OneDisconnect, Flagged, Closes, InHand
<1>5. OpsCounted'
  <2>1. Outstanding' = Outstanding /\ Busy' = Busy
    BY DEF Outstanding, Busy, OneOwner, TypeOK, Threads, Placed, InHand
  <2>2. CloseRef' = CloseRef
    BY DEF CloseRef, Closing, Disconnects, Outstanding, OneOwner, TypeOK, Threads,
           Placed, Fresh, InHand, InHold
  <2>3. QED BY <2>1, <2>2, OutstandingIsFinite DEF OpsCounted, Busy, CloseRef
<1>6. FreedIsOver'
  BY DEF FreedIsOver, Outstanding, OneOwner, TypeOK, Threads, Placed, InHand, InHold
<1>7. QED BY <1>1, <1>2, <1>3, <1>4, <1>5, <1>6

LEMMA HandleDisconnectKeeps ==
  ASSUME IInv, HandleDisconnect
  PROVE  IInv'
<1> USE BuffersAssumption
    DEF IInv, HandleDisconnect, Handles, Goto, calls, socket, ghosts, memory
<1>1. TypeOK' /\ fault' = FALSE
  BY DEF OneOwner, TypeOK, Threads, Places, Operations, Results, Placed, InHand, InHold
<1>2. OneOwner'
  BY <1>1, ThreadsAre DEF OneOwner, TypeOK, Threads, Placed, InHand, InHold
<1>3. Placed' /\ Fresh'
  BY ThreadsAre
     DEF OneOwner, TypeOK, Threads, Placed, Fresh, InHand, InHold
<1>4. OneDisconnect' /\ Flagged'
  <2>1. held.ct \in Buffers /\ at.tcl = "closed"
    BY DEF OneOwner, TypeOK, Threads, Placed, InHold, OneDisconnect
  <2>2. QED BY <2>1 DEF OneOwner, TypeOK, Threads, OneDisconnect, Flagged, Closes
<1>5. OpsCounted'
  <2>1. Outstanding' = Outstanding /\ Busy' = Busy
    BY DEF Outstanding, Busy, OneOwner, TypeOK, Threads
  <2>2. held.ct \in Buffers /\ at.tcl = "closed" /\ at'.tcl = "closed" /\ at'.ct = "release"
    BY DEF OneOwner, TypeOK, Threads, Placed, InHold, OneDisconnect
  <2>3. CloseRef = 1
    BY <2>2 DEF CloseRef, Closing, Disconnects
  <2>4. held.ct \notin Outstanding
    BY ThreadsAre DEF OneOwner, Outstanding
  <2>5. \A b \in Buffers : ~Disconnects(b)'
    BY <2>1, <2>2, <2>4 DEF Disconnects, OneDisconnect
  <2>6. CloseRef' = 0
    BY <2>2, <2>5 DEF CloseRef, Closing
  <2>7. QED BY <2>1, <2>3, <2>6, OutstandingIsFinite DEF OpsCounted, Busy
<1>6. FreedIsOver'
  BY DEF FreedIsOver, Outstanding, OneOwner, TypeOK, Threads, Placed, InHand, InHold
<1>7. QED BY <1>1, <1>2, <1>3, <1>4, <1>5, <1>6

LEMMA HandleDudKeeps ==
  ASSUME IInv, HandleDud
  PROVE  IInv'
<1> USE BuffersAssumption
    DEF IInv, HandleDud, Loses, Holds, Goto, calls, socket, ghosts, memory
<1>1. TypeOK' /\ fault' = FALSE
  BY DEF OneOwner, TypeOK, Threads, Places, Operations, Results, Placed, InHand, InHold
<1>2. OneOwner'
  BY <1>1, ThreadsAre DEF OneOwner, TypeOK, Threads, Placed, InHand, InHold
<1>3. Placed' /\ Fresh'
  BY ThreadsAre
     DEF OneOwner, TypeOK, Threads, Placed, Fresh, InHand, InHold
<1>4. OneDisconnect' /\ Flagged'
  BY DEF OneOwner, TypeOK, Threads, Placed, Fresh, OneDisconnect, Flagged, Closes, InHand
<1>5. OpsCounted'
  <2>1. Outstanding' = Outstanding /\ Busy' = Busy
    BY DEF Outstanding, Busy, OneOwner, TypeOK, Threads, Placed, InHand
  <2>2. CloseRef' = CloseRef
    BY DEF CloseRef, Closing, Disconnects, Outstanding, OneOwner, TypeOK, Threads,
           Placed, Fresh, InHand, InHold
  <2>3. QED BY <2>1, <2>2, OutstandingIsFinite DEF OpsCounted, Busy, CloseRef
<1>6. FreedIsOver'
  BY DEF FreedIsOver, Outstanding, OneOwner, TypeOK, Threads, Placed, InHand, InHold
<1>7. QED BY <1>1, <1>2, <1>3, <1>4, <1>5, <1>6

LEMMA PushKeeps ==
  ASSUME IInv, Push
  PROVE  IInv'
<1> USE BuffersAssumption DEF IInv, Push, Holds, Goto, calls, socket, ghosts, memory
<1>1. TypeOK' /\ fault' = FALSE
  BY DEF OneOwner, TypeOK, Threads, Places, Operations, Results, Placed, InHand, InHold
<1>2. OneOwner'
  BY <1>1, ThreadsAre DEF OneOwner, TypeOK, Threads, Placed, InHand, InHold
<1>3. Placed' /\ Fresh'
  BY ThreadsAre
     DEF OneOwner, TypeOK, Threads, Placed, Fresh, InHand, InHold
<1>4. OneDisconnect' /\ Flagged'
  BY DEF OneOwner, TypeOK, Threads, Placed, Fresh, OneDisconnect, Flagged, Closes, InHand
<1>5. OpsCounted'
  <2>1. Outstanding' = Outstanding /\ Busy' = Busy
    BY DEF Outstanding, Busy, OneOwner, TypeOK, Threads, Placed, InHand
  <2>2. CloseRef' = CloseRef
    BY DEF CloseRef, Closing, Disconnects, Outstanding, OneOwner, TypeOK, Threads,
           Placed, Fresh, InHand, InHold
  <2>3. QED BY <2>1, <2>2, OutstandingIsFinite DEF OpsCounted, Busy, CloseRef
<1>6. FreedIsOver'
  BY DEF FreedIsOver, Outstanding, OneOwner, TypeOK, Threads, Placed, InHand, InHold
<1>7. QED BY <1>1, <1>2, <1>3, <1>4, <1>5, <1>6

LEMMA PushErrorKeeps ==
  ASSUME IInv, PushError
  PROVE  IInv'
<1> USE BuffersAssumption DEF IInv, PushError, Hands, Goto, calls, socket, ghosts, memory
<1>1. TypeOK' /\ fault' = FALSE
  BY DEF OneOwner, TypeOK, Threads, Places, Operations, Results, Placed, InHand, InHold
<1>2. OneOwner'
  BY <1>1, ThreadsAre DEF OneOwner, TypeOK, Threads, Placed, InHand, InHold
<1>3. Placed' /\ Fresh'
  BY ThreadsAre
     DEF OneOwner, TypeOK, Threads, Placed, Fresh, InHand, InHold
<1>4. OneDisconnect' /\ Flagged'
  BY DEF OneOwner, TypeOK, Threads, Placed, Fresh, OneDisconnect, Flagged, Closes, InHand
<1>5. OpsCounted'
  <2>1. Outstanding' = Outstanding /\ Busy' = Busy
    BY DEF Outstanding, Busy, OneOwner, TypeOK, Threads, Placed, InHand
  <2>2. CloseRef' = CloseRef
    BY DEF CloseRef, Closing, Disconnects, Outstanding, OneOwner, TypeOK, Threads,
           Placed, Fresh, InHand, InHold
  <2>3. QED BY <2>1, <2>2, OutstandingIsFinite DEF OpsCounted, Busy, CloseRef
<1>6. FreedIsOver'
  BY DEF FreedIsOver, Outstanding, OneOwner, TypeOK, Threads, Placed, InHand, InHold
<1>7. QED BY <1>1, <1>2, <1>3, <1>4, <1>5, <1>6

LEMMA ReleaseKeeps ==
  ASSUME IInv, Release
  PROVE  IInv'
<1> USE BuffersAssumption DEF IInv, Release, Free, Holds, Goto, calls, socket, ghosts
<1>1. TypeOK' /\ fault' = FALSE
  <2>1. held.ct \in live
    BY ThreadsAre DEF OneOwner, TypeOK, Threads, Placed, InHand, InHold
  <2>2. fault' = FALSE
    BY <2>1
  <2>3. /\ live' \subseteq Buffers
        /\ op' \in [Buffers -> Operations] /\ res' \in [Buffers -> Results]
    BY DEF OneOwner, TypeOK, Operations, Results
  <2>4. QED BY <2>2, <2>3 DEF OneOwner, TypeOK, Threads, Places, Placed, InHold
<1>2. OneOwner'
  BY <1>1, ThreadsAre DEF OneOwner, TypeOK, Threads, Placed, InHand, InHold
<1>3. Placed' /\ Fresh'
  BY ThreadsAre
     DEF OneOwner, TypeOK, Threads, Placed, Fresh, InHand, InHold
<1>4. OneDisconnect' /\ Flagged'
  BY DEF OneOwner, TypeOK, Threads, Placed, Fresh, OneDisconnect, Flagged, Closes, InHand
<1>5. OpsCounted'
  <2>1. Outstanding' = Outstanding /\ Busy' = Busy
    BY DEF Outstanding, Busy, OneOwner, TypeOK, Threads, Placed, InHand
  <2>2. CloseRef' = CloseRef
    BY ThreadsAre
       DEF CloseRef, Closing, Disconnects, Outstanding, OneOwner, TypeOK, Threads,
           Placed, Fresh, InHand, InHold
  <2>3. QED BY <2>1, <2>2, OutstandingIsFinite DEF OpsCounted, Busy, CloseRef
<1>6. FreedIsOver'
  BY DEF FreedIsOver, Outstanding, OneOwner, TypeOK, Threads, Placed, InHand, InHold
<1>7. QED BY <1>1, <1>2, <1>3, <1>4, <1>5, <1>6

\* At the end of HandleIo.  When the count is zero and the socket closable there is no
\* call, the other thread has closed, and only llPendingRecv has anything.
LEMMA LastIsQuiet ==
  ASSUME IInv, at.ct = "done", ops - 1 <= 0, "CLOSABLE" \in flags
  PROVE  Outstanding = {} /\ at.tcl = "closed"
<1>1. Busy = 1 /\ CloseRef \in {0, 1} /\ Cardinality(Outstanding) \in Nat
  BY OutstandingIsFinite DEF IInv, Busy, CloseRef
<1>2. Cardinality(Outstanding) = 0 /\ CloseRef = 0
  BY <1>1 DEF IInv, OpsCounted
<1>3. Outstanding = {}
  BY <1>2, OutstandingIsFinite, FS_EmptySet DEF IInv
<1>4. at.tcl = "closed"
  BY <1>2 DEF IInv, Flagged, Closes, CloseRef, Closing
<1>5. QED BY <1>3, <1>4

LEMMA DoneKeeps ==
  ASSUME IInv, Done
  PROVE  IInv'
<1> USE BuffersAssumption DEF IInv
<1>1. /\ at.ct = "done" /\ at' = [at EXCEPT !.ct = "idle"] /\ ops' = ops - 1
      /\ UNCHANGED <<kind, mode, winsock, port, held, hand, flags, left, lost, wild>>
  BY DEF Done, Goto, calls, socket, ghosts
<1>2. CASE ops' <= 0 /\ "CLOSABLE" \in flags
  <2>1. Outstanding = {} /\ at.tcl = "closed"
    BY <1>1, <1>2, LastIsQuiet
  <2>2. info' = "freed" /\ queue' = {} /\ Free(queue)
    BY <1>2 DEF Done
  <2>3. queue \subseteq live
    BY DEF OneOwner
  <2>4. fault' = FALSE
    BY <2>2, <2>3 DEF Free
  <2>5. live' = live \ queue /\ op' \in [Buffers -> Operations] /\ res' \in [Buffers -> Results]
    BY <2>2 DEF Free, OneOwner, TypeOK, Operations, Results
  <2>6. TypeOK'
    <3>1. at' \in [Threads -> Places] /\ ops' \in Int
      BY <1>1 DEF OneOwner, TypeOK, Threads, Places
    <3>2. live' \subseteq Buffers /\ info' \in {"live", "freed"} /\ queue' \subseteq Buffers
      BY <2>2, <2>5 DEF OneOwner, TypeOK
    <3>3. QED BY <1>1, <2>4, <2>5, <3>1, <3>2 DEF OneOwner, TypeOK
  <2>7. OneOwner'
    BY <1>1, <2>2, <2>5, <2>6, ThreadsAre DEF OneOwner, TypeOK, Threads
  <2>8. Placed' /\ Fresh'
    BY <1>1, <2>2, ThreadsAre
       DEF Free, OneOwner, TypeOK, Threads, Placed, Fresh, InHand, InHold
  <2>9. OneDisconnect' /\ Flagged'
    BY <1>1, <2>2 DEF Free, OneOwner, TypeOK, Threads, OneDisconnect, Flagged
  <2>10. FreedIsOver'
    BY <1>1, <2>1, <2>2 DEF FreedIsOver, Outstanding, OneOwner, TypeOK, Threads
  <2>11. OpsCounted'
    <3>1. Outstanding' = Outstanding /\ Busy = 1 /\ Busy' = 0
      BY <1>1 DEF Outstanding, Busy, OneOwner, TypeOK, Threads
    <3>2. ~Closing /\ ~Closing'
      BY <1>1, <2>1 DEF Closing, Disconnects, Outstanding, OneOwner, TypeOK, Threads
    <3>3. QED BY <1>1, <3>1, <3>2, OutstandingIsFinite DEF OpsCounted, CloseRef
  <2>12. QED BY <2>4, <2>6, <2>7, <2>8, <2>9, <2>10, <2>11
<1>3. CASE ~(ops' <= 0 /\ "CLOSABLE" \in flags)
  <2>1. UNCHANGED <<info, live, op, res, queue, fault>>
    BY <1>3 DEF Done, memory
  <2>2. TypeOK' /\ fault' = FALSE
    BY <1>1, <2>1 DEF OneOwner, TypeOK, Threads, Places
  <2>3. OneOwner'
    BY <1>1, <2>1, <2>2, ThreadsAre DEF OneOwner, TypeOK, Threads
  <2>4. Placed' /\ Fresh'
    BY <1>1, <2>1 DEF OneOwner, TypeOK, Threads, Placed, Fresh, InHand, InHold
  <2>5. OneDisconnect' /\ Flagged'
    BY <1>1, <2>1 DEF OneOwner, TypeOK, Threads, OneDisconnect, Flagged
  <2>6. FreedIsOver'
    BY <1>1, <2>1 DEF FreedIsOver, OneOwner, TypeOK, Threads
  <2>7. OpsCounted'
    <3>1. Outstanding' = Outstanding /\ Busy = 1 /\ Busy' = 0
      BY <1>1 DEF Outstanding, Busy, OneOwner, TypeOK, Threads
    <3>2. Closing' <=> Closing
      BY <1>1, <2>1 DEF Closing, Disconnects, Outstanding, OneOwner, TypeOK, Threads
    <3>3. QED BY <1>1, <3>1, <3>2, OutstandingIsFinite DEF OpsCounted, CloseRef
  <2>8. QED BY <2>2, <2>3, <2>4, <2>5, <2>6, <2>7
<1>4. QED BY <1>2, <1>3

-----------------------------------------------------------------------------
(* All steps                                                                *)

LEMMA PostKeeps ==
  ASSUME IInv, NEW t \in Threads, PostOverlappedRecv(t) \/ PostOverlappedAccept(t)
  PROVE  IInv'
BY RecvRefusedKeeps, RecvPendsKeeps, RecvAtOnceKeeps, RecvFailsKeeps, AcceptRefusedKeeps,
   AcceptPendsKeeps
   DEF PostOverlappedRecv, PostOverlappedAccept

LEMMA TclKeeps ==
  ASSUME IInv, Tcl
  PROVE  IInv'
<1>1. CASE Pop \/ NoMore \/ PutBack \/ Merge \/ MergeEof \/ MergeError \/ Repost
  BY <1>1, PopKeeps, NoMoreKeeps, PutBackKeeps, MergeKeeps, MergeEofKeeps,
     MergeErrorKeeps,
     RepostKeeps
<1>2. CASE SendRefused \/ SendNotConn \/ SendPends \/ SendEnds \/ SendNoBufs
  BY <1>2, SendRefusedKeeps, SendNotConnKeeps, SendPendsKeeps, SendEndsKeeps,
     SendNoBufsKeeps
<1>3. CASE Output \/ Backlog \/ CloseGet \/ TclGets
  BY <1>3, GetKeeps DEF Output, Backlog, CloseGet, TclGets, TclMay, Threads
<1>4. CASE Close \/ Disconnect
  BY <1>4, CloseKeeps, DisconnectKeeps
<1>5. CASE PostOverlappedRecv("tcl") \/ PostOverlappedAccept("tcl")
  BY <1>5, PostKeeps DEF Threads
<1>6. QED BY <1>1, <1>2, <1>3, <1>4, <1>5 DEF Tcl

LEMMA CompletionThreadKeeps ==
  ASSUME IInv, CompletionThread
  PROVE  IInv'
<1>1. CASE \E b \in Buffers : Take(b)
  BY <1>1, TakeKeeps
<1>2. CASE HandleAborted \/ HandleData \/ HandleReadClosing \/ HandleReadNoBufs \/ HandleReadEnd
  BY <1>2, HandleAbortedKeeps, HandleDataKeeps, HandleReadClosingKeeps,
     HandleReadNoBufsKeeps,
     HandleReadEndKeeps
<1>3. CASE HandleWrite \/ HandleConnect \/ HandleDisconnect \/ HandleAccept \/ HandleDud
  BY <1>3, HandleWriteKeeps, HandleConnectKeeps, HandleDisconnectKeeps, HandleAcceptKeeps,
     HandleDudKeeps
<1>4. CASE CtGets
  BY <1>4, GetKeeps DEF CtGets, Threads
<1>5. CASE Push \/ PushError \/ Release \/ Done
  BY <1>5, PushKeeps, PushErrorKeeps, ReleaseKeeps, DoneKeeps
<1>6. CASE PostOverlappedRecv("ct") \/ PostOverlappedAccept("ct")
  BY <1>6, PostKeeps DEF Threads
<1>7. QED BY <1>1, <1>2, <1>3, <1>4, <1>5, <1>6 DEF CompletionThread

LEMMA StutterKeeps ==
  ASSUME IInv, UNCHANGED vars
  PROVE  IInv'
<1> USE DEF IInv, vars, socket, memory, calls, ghosts
<1>1. OneOwner' /\ fault' = FALSE /\ Placed' /\ Fresh'
  BY ThreadsAre DEF OneOwner, TypeOK, Placed, Fresh
<1>2. OneDisconnect' /\ Flagged'
  BY DEF OneDisconnect, Flagged
<1>3. FreedIsOver'
  BY DEF FreedIsOver, Outstanding
<1>4. OpsCounted'
  BY DEF OpsCounted, Outstanding, Busy, CloseRef, Closing, Disconnects
<1>5. QED BY <1>1, <1>2, <1>3, <1>4

LEMMA NextKeeps == IInv /\ [Next]_vars => IInv'
<1> SUFFICES ASSUME IInv, [Next]_vars PROVE IInv'
  OBVIOUS
<1>1. CASE Tcl
  BY <1>1, TclKeeps
<1>2. CASE CompletionThread
  BY <1>2, CompletionThreadKeeps
<1>3. CASE \E b \in Buffers : Complete(b)
  BY <1>3, CompleteKeeps
<1>4. CASE UNCHANGED vars
  BY <1>4, StutterKeeps
<1>5. QED BY <1>1, <1>2, <1>3, <1>4 DEF Next

\* The conjunction above holds in every reachable state.
THEOREM Invariance == Spec => []IInv
<1>1. QED BY InitIsInv, NextKeeps, PTL DEF Spec

\* Every allocated BufferInfo has exactly one owner, however many there are and whichever
\* call fails: none is lost but by the two branches that lose one, and none is freed while
\* Winsock, the port, the list or the other thread has it (GetBufferObj, FreeBufferObj and
\* every path between them).
THEOREM OwnedByOne == Spec => []OneOwner
<1>1. IInv => OneOwner
  BY DEF IInv
<1>2. QED BY <1>1, Invariance, PTL

\* FreeSocketInfo at the end of HandleIo leaves no buffer of the socket behind, in Winsock,
\* on the port or unread, and the Tcl thread is past its last call.
THEOREM FreedLeavesNothing == Spec => []NothingRemains
<1>1. IInv => NothingRemains
  <2> SUFFICES ASSUME IInv, info = "freed" PROVE live = lost /\ at.tcl = "closed" /\ ~fault
    BY DEF NothingRemains
  <2>1. Outstanding = {} /\ queue = {} /\ at.ct = "idle" /\ at.tcl = "closed"
    BY DEF IInv, FreedIsOver
  <2>2. InThreads = {None}
    BY <2>1, ThreadsAre DEF IInv, Placed, InHand, InHold, Threads
  <2>3. live = lost
    BY <2>1, <2>2 DEF IInv, OneOwner, Outstanding
  <2>4. QED BY <2>1, <2>3 DEF IInv
<1>2. QED BY <1>1, Invariance, PTL

-----------------------------------------------------------------------------
(* The refinement of BufferContract                                         *)

\* Only what a thread has in hand is posted, only HandleIo takes a call off the port, and
\* only what a thread has is put on the list.
Flows ==
  /\ Outstanding' \subseteq Outstanding \cup {hand.tcl, hand.ct}
  /\ Outstanding \subseteq Outstanding' \cup {held'.ct}
  /\ queue' \subseteq queue \cup {held.tcl, held.ct, hand.ct}

LEMMA TclFlows ==
  ASSUME IInv, Tcl
  PROVE  Flows
<1> USE DEF IInv, OneOwner, TypeOK, Threads, Flows, Outstanding, calls
<1>1. CASE Pop \/ NoMore \/ PutBack \/ Merge \/ MergeEof \/ MergeError \/ Repost
  BY <1>1 DEF Pop, NoMore, PutBack, Merge, MergeEof, MergeError, Repost
<1>2. CASE SendRefused \/ SendNotConn \/ SendPends \/ SendEnds \/ SendNoBufs
  BY <1>2 DEF SendRefused, SendNotConn, SendPends, SendEnds, SendNoBufs, Pends, Ends
<1>3. CASE Output \/ Backlog \/ CloseGet \/ TclGets
  BY <1>3 DEF Output, Backlog, CloseGet, TclGets, Get
<1>4. CASE Close \/ Disconnect
  BY <1>4 DEF Close, Disconnect, Pends, Ends
<1>5. CASE PostOverlappedRecv("tcl") \/ PostOverlappedAccept("tcl")
  BY <1>5 DEF PostOverlappedRecv, RecvRefused, RecvPends, RecvAtOnce, RecvFails,
              PostOverlappedAccept, AcceptRefused, AcceptPends, Pends, Ends
<1>6. QED BY <1>1, <1>2, <1>3, <1>4, <1>5 DEF Tcl

LEMMA CompletionThreadFlows ==
  ASSUME IInv, CompletionThread
  PROVE  Flows
<1> USE DEF IInv, OneOwner, TypeOK, Threads, Flows, Outstanding, calls
<1>1. CASE \E b \in Buffers : Take(b)
  BY <1>1 DEF Take, Holds
<1>2. CASE HandleAborted \/ HandleData \/ HandleReadClosing \/ HandleReadNoBufs \/ HandleReadEnd
  BY <1>2
     DEF HandleAborted, HandleData, HandleReadClosing, HandleReadNoBufs, HandleReadEnd,
              Handles
<1>3. CASE HandleWrite \/ HandleConnect \/ HandleDisconnect \/ HandleAccept \/ HandleDud
  BY <1>3
     DEF HandleWrite, HandleConnect, HandleDisconnect, HandleAccept, HandleDud, Handles
<1>4. CASE CtGets
  BY <1>4 DEF CtGets, Get
<1>5. CASE Push \/ PushError \/ Release \/ Done
  BY <1>5 DEF Push, PushError, Release, Done
<1>6. CASE PostOverlappedRecv("ct") \/ PostOverlappedAccept("ct")
  BY <1>6 DEF PostOverlappedRecv, RecvRefused, RecvPends, RecvAtOnce, RecvFails,
              PostOverlappedAccept, AcceptRefused, AcceptPends, Pends, Ends
<1>7. QED BY <1>1, <1>2, <1>3, <1>4, <1>5, <1>6 DEF CompletionThread

LEMMA NextFlows ==
  ASSUME IInv, Next
  PROVE  Flows
<1>1. ASSUME NEW b \in Buffers, Complete(b) PROVE Flows
  BY <1>1 DEF Complete, Flows, Outstanding
<1>2. QED BY <1>1, TclFlows, CompletionThreadFlows DEF Next

LEMMA StepHandsOn ==
  ASSUME IInv, IInv', Next, NEW b \in Buffers
  PROVE  OwnerOf'[b] \in Contract!Heirs[OwnerOf[b]]
<1> USE DEF IInv, OneOwner
<1>1. Flows
  BY NextFlows
<1>2. CASE b \in Outstanding
  <2>1. b \in Outstanding' \/ (b = held'.ct /\ b \in live' /\ b \notin queue')
    BY <1>1, <1>2, ThreadsAre, BuffersAssumption DEF Flows
  <2>2. QED BY <1>2, <2>1 DEF OwnerOf, Outstanding, Contract!Heirs
<1>3. CASE b \in queue
  <2>1. b \notin Outstanding /\ b \notin Outstanding'
    BY <1>1, <1>3, ThreadsAre DEF Flows, Outstanding
  <2>2. QED BY <1>3, <2>1 DEF OwnerOf, Outstanding, Contract!Heirs
<1>4. CASE b \notin live
  <2>1. b \notin Outstanding /\ b \notin queue /\ b \notin InThreads
    BY <1>4, BuffersAssumption DEF Outstanding
  <2>2. b \notin Outstanding' /\ b \notin queue'
    BY <1>1, <2>1, ThreadsAre DEF Flows
  <2>3. QED BY <1>4, <2>1, <2>2 DEF OwnerOf, Outstanding, Contract!Heirs
<1>5. CASE b \in live /\ b \notin Outstanding /\ b \notin queue
  BY <1>5 DEF OwnerOf, Outstanding, Contract!Heirs, Contract!Owners
<1>6. QED BY <1>2, <1>3, <1>4, <1>5

\* No BufferInfo is freed, nor handed on, while Winsock may write into it, and only a thread
\* hands one to Winsock or to a list: Buffers implements BufferContract for any number of them.
THEOREM Implements == Spec => ImplementsContract
<1>1. Init => Contract!Init
  <2> SUFFICES ASSUME Init PROVE Contract!Init
    OBVIOUS
  <2>1. winsock = live /\ port = {} /\ queue = {}
    BY DEF Init
  <2>2. QED BY <2>1 DEF OwnerOf, Contract!Init
<1>2. IInv /\ IInv' /\ [Next]_vars => [Contract!Next]_OwnerOf
  <2> SUFFICES ASSUME IInv, IInv', [Next]_vars
               PROVE  [Contract!Next]_OwnerOf
    OBVIOUS
  <2>1. CASE Next
    BY <2>1, StepHandsOn DEF Contract!Next, OwnerOf, Contract!Owners
  <2>2. CASE UNCHANGED vars
    BY <2>2 DEF OwnerOf, vars, calls, memory
  <2>3. QED BY <2>1, <2>2
<1>3. QED BY <1>1, <1>2, Invariance, PTL DEF Spec, ImplementsContract, Contract!Spec

=============================================================================
