------------------------ MODULE SocketLifetimeProofs ------------------------
(***************************************************************************)
(* Proofs about SocketLifetime, for any sets of listeners and clients.       *)
(*                                                                           *)
(* None of the properties is inductive alone: that the last operation is the *)
(* last (LastOpIsLast) needs outstandingOps to be exact (Balanced), which    *)
(* needs to know where each thread may be and which references it holds      *)
(* there (TclPlace, CtPlace), what a dud may still have outstanding, and     *)
(* that a connection waits in one place of one queue (QueuedAreNew).  IInv   *)
(* is their conjunction.  There is one lemma per action.                     *)
(***************************************************************************)
EXTENDS SocketLifetime, TLAPS

\* A client, a listener and "no socket" are three different things.
LEMMA Universe ==
  /\ \A c \in Clients : c \in Sockets /\ c \notin Listeners
  /\ \A l \in Listeners : l \in Sockets /\ l \notin Clients
  /\ \A s \in Sockets : s \in Clients \/ s \in Listeners
  /\ None \notin Sockets
BY SocketsAssumption DEF Sockets

\* The types of out, tcl and ct, under names of their own.
OutType == [Sockets -> [Ops -> Nat]]
TclType == [at : TclAt, sock : Sockets \cup {None}, todo : Nat, op : Ops \cup {None}]
CtType  == [at : CtAt, sock : Sockets \cup {None}]

\* The five kinds of overlapped operation.
LEMMA OpsAre ==
  "ACCEPT" \in Ops /\ "READ" \in Ops /\ "WRITE" \in Ops /\ "CONNECT" \in Ops
    /\ "DISCONNECT" \in Ops
BY DEF Ops

\* What Winsock has of a socket is a natural number, no smaller than its
\* disconnects alone.
LEMMA TotalNat ==
  ASSUME out \in OutType, NEW s \in Sockets
  PROVE  Total(s) \in Nat /\ out[s].DISCONNECT \in Nat
                 /\ out[s].DISCONNECT <= Total(s)
BY DEF OutType, Ops, Total

\* The same after a step.
LEMMA TotalNatNext ==
  ASSUME out' \in OutType, NEW s \in Sockets
  PROVE  Total(s)' \in Nat /\ out'[s].DISCONNECT \in Nat
BY DEF OutType, Ops, Total

\* The ranges of the terms of OpsBalance.
LEMMA Sizes ==
  ASSUME TypeOK, NEW s \in Sockets
  PROVE  /\ Total(s) \in Nat /\ out[s].DISCONNECT \in Nat /\ ops[s] \in Int
         /\ out[s].DISCONNECT <= Total(s)
         /\ Held(s) \in {0, 1} /\ TclRefs(s) \in {0, 1, 2}
BY TotalNat DEF TypeOK, OutType, Held, TclRefs

\* InterlockedIncrement or InterlockedDecrement changes one outstandingOps.
LEMMA CountedEffect ==
  ASSUME ops \in [Sockets -> Int], NEW s \in Sockets, NEW n \in Int, Counted(s, n)
  PROVE  /\ ops' \in [Sockets -> Int]
         /\ ops'[s] = ops[s] + n
         /\ \A x \in Sockets : x # s => ops'[x] = ops[x]
BY DEF Counted

\* A post adds one operation to its socket and touches no other socket.
LEMMA PostedEffect ==
  ASSUME out \in OutType, NEW s \in Sockets, NEW op \in Ops, Posted(s, op)
  PROVE  /\ out' \in OutType
         /\ Total(s)' = Total(s) + 1
         /\ out'[s].DISCONNECT = out[s].DISCONNECT + (IF op = "DISCONNECT" THEN 1 ELSE 0)
         /\ \A x \in Sockets : x # s => out'[x] = out[x]
<1>1. out' \in OutType BY DEF OutType, Posted
<1>2. Total(s)' = Total(s) + 1 BY DEF OutType, Posted, Ops, Total
<1>3. out'[s].DISCONNECT = out[s].DISCONNECT + (IF op = "DISCONNECT" THEN 1 ELSE 0)
  BY DEF OutType, Posted, Ops
<1>4. \A x \in Sockets : x # s => out'[x] = out[x]
  BY DEF OutType, Posted
<1> QED BY <1>1, <1>2, <1>3, <1>4

\* GetQueuedCompletionStatus takes one operation of its socket; when it is no
\* disconnect there was more outstanding than the disconnects.
LEMMA DequeuedEffect ==
  ASSUME out \in OutType, NEW s \in Sockets, NEW op \in Ops, Dequeued(s, op)
  PROVE  /\ out' \in OutType
         /\ Total(s)' = Total(s) - 1
         /\ out'[s].DISCONNECT = out[s].DISCONNECT - (IF op = "DISCONNECT" THEN 1 ELSE 0)
         /\ op # "DISCONNECT" => out[s].DISCONNECT < Total(s)
         /\ \A x \in Sockets : x # s => out'[x] = out[x]
<1>1. out' \in OutType BY DEF OutType, Dequeued
<1>2. Total(s)' = Total(s) - 1 BY DEF OutType, Dequeued, Ops, Total
<1>3. out'[s].DISCONNECT = out[s].DISCONNECT - (IF op = "DISCONNECT" THEN 1 ELSE 0)
  BY DEF OutType, Dequeued, Ops
<1>4. \A x \in Sockets : x # s => out'[x] = out[x]
  BY DEF OutType, Dequeued
<1>5. op # "DISCONNECT" => out[s].DISCONNECT < Total(s)
  BY DEF OutType, Dequeued, Ops, Total
<1> QED BY <1>1, <1>2, <1>3, <1>4, <1>5

\* No field of socket x changes; neither thread enters or leaves it.
Same(x) ==
  /\ life'[x] = life[x] /\ channel'[x] = channel[x] /\ flags'[x] = flags[x]
  /\ ops'[x] = ops[x] /\ out'[x] = out[x]
Aside(x) ==
  /\ tcl' = tcl \/ (tcl.sock # x /\ tcl'.sock # x)
  /\ ct' = ct \/ (ct.sock # x /\ ct'.sock # x)

\* A socket no field of which changes, and which neither thread enters or
\* leaves, keeps its part of the invariant.
LEMMA Untouched ==
  ASSUME NEW x \in Sockets, SocketInv(x), Same(x), Aside(x)
  PROVE  SocketInv(x)'
<1>1. Total(x)' = Total(x) /\ (Quiet(x)' <=> Quiet(x)) /\ (Dud(x)' <=> Dud(x))
  BY DEF Same, Total, Quiet, Dud
<1>2. Held(x)' = Held(x) /\ TclRefs(x)' = TclRefs(x)
  BY DEF Aside, Held, TclRefs
<1>3. DisconnectRef(x)' = DisconnectRef(x)
  BY <1>1 DEF Same, DisconnectRef
<1>4. Balanced(x)'
  BY <1>1, <1>2, <1>3 DEF Balanced, SocketInv, Same
<1>5. (ct'.sock = x <=> ct.sock = x) /\ (ct.sock = x => ct'.at = ct.at)
  BY DEF Aside
<1> QED BY <1>1, <1>4, <1>5 DEF SocketInv, Same

\* The readyAccepts part holds on when the queues and the sockets Tcl has not
\* seen stay as they are.
LEMMA QueueFrame ==
  ASSUME QueuedAreNew, readyAccepts \in [Sockets -> Seq(Clients)],
         UNCHANGED readyAccepts,
         \A c \in Clients : life[c] = "live" /\ channel[c] = "never" /\ flags[c] = {}
            => life'[c] = "live" /\ channel'[c] = "never" /\ flags'[c] = {}
  PROVE  QueuedAreNew'
BY DEF QueuedAreNew

\* The completion thread stays where it may be when another thread steps.
LEMMA CtFrame ==
  ASSUME TypeOK, CtPlace, UNCHANGED ct,
         \A x \in Sockets :
           /\ life[x] \notin {"unused", "lastOp"} => life'[x] \notin {"unused", "lastOp"}
           /\ life[x] = "live" /\ ops[x] <= 0 /\ "CLOSABLE" \in flags[x]
                /\ ct.at = "free" /\ ct.sock = x =>
                life'[x] = "live" /\ ops'[x] <= 0 /\ "CLOSABLE" \in flags'[x]
  PROVE  CtPlace'
<1>1. ct.at # "idle" => ct.sock \in Sockets
  BY DEF TypeOK, CtPlace
<1> QED BY <1>1 DEF CtPlace

\* The Tcl thread stays where it may be when another thread steps.
LEMMA TclFrame ==
  ASSUME TypeOK, TclPlace, UNCHANGED tcl,
         \A x \in Sockets :
           /\ channel'[x] = channel[x]
           /\ life[x] = "live" /\ tcl.sock = x => life'[x] = "live"
           /\ "CLOSING" \in flags[x] => "CLOSING" \in flags'[x]
  PROVE  TclPlace'
<1>1. tcl.at # "idle" => tcl.sock \in Sockets
  BY DEF TypeOK, TclPlace
<1> QED BY <1>1 DEF TclPlace

\* A step that changes one socket s preserves IInv when it does so for s and
\* for the places of the two threads.
LEMMA OneSocket ==
  ASSUME IInv, TypeOK', NEW s \in Sockets,
         \A x \in Sockets : x # s => Same(x) /\ Aside(x),
         SocketInv(s)', TclPlace', CtPlace',
         UNCHANGED readyAccepts,
         s \in Clients /\ life[s] = "live" /\ channel[s] = "never" /\ flags[s] = {}
            => life'[s] = "live" /\ channel'[s] = "never" /\ flags'[s] = {}
  PROVE  IInv'
<1>1. \A x \in Sockets : SocketInv(x)'
  <2> SUFFICES ASSUME NEW x \in Sockets, x # s PROVE SocketInv(x)'
    OBVIOUS
  <2> QED BY Untouched DEF IInv
<1>2. \A c \in Clients : life[c] = "live" /\ channel[c] = "never" /\ flags[c] = {}
            => life'[c] = "live" /\ channel'[c] = "never" /\ flags'[c] = {}
  BY Universe DEF Same
<1>3. QueuedAreNew'
  BY <1>2, QueueFrame DEF IInv, TypeOK
<1> QED BY <1>1, <1>3 DEF IInv

\* IocpClose2Proc setting IOCP_CLOSING and channel preserves IInv.
LEMMA CloseFlagStep ==
  ASSUME IInv, NEW s, tcl.sock = s, CloseFlag
  PROVE  IInv'
<1>i. /\ TypeOK /\ (\A x \in Sockets : SocketInv(x)) /\ TclPlace /\ CtPlace
      /\ QueuedAreNew
  BY DEF IInv
<1>a. s \in Sockets /\ tcl.at = "closeFlag" /\ channel[s] = "open"
  BY <1>i, Universe DEF TypeOK, TclPlace, CloseFlag
<1>b. SocketInv(s) /\ life[s] = "live" /\ flags[s] = {}
  BY <1>i, <1>a DEF SocketInv
<1>1. /\ flags' \in [Sockets -> SUBSET {"CLOSING", "CLOSABLE"}]
      /\ flags'[s] = {"CLOSING"}
      /\ \A x \in Sockets : x # s => flags'[x] = flags[x]
  BY <1>a, <1>b, <1>i DEF TypeOK, CloseFlag
<1>2. /\ channel' \in [Sockets -> {"never", "open", "closed"}]
      /\ channel'[s] = "closed"
      /\ \A x \in Sockets : x # s => channel'[x] = channel[x]
  BY <1>a, <1>b, <1>i DEF TypeOK, CloseFlag
<1>3. tcl' \in TclType /\ tcl'.sock = s /\ tcl'.at = IF s \in Clients THEN "closeCount" ELSE "closeMark"
  BY <1>a, OpsAre, Universe DEF CloseFlag, At, TclIdle, TclType, TclAt
<1>u. UNCHANGED <<life, ops, out, handle, lists, readyAccepts, accepting, ct, fault>>
  BY DEF CloseFlag
<1>t. TypeOK'
  BY <1>1, <1>2, <1>3, <1>u, <1>i, Zenon DEF TypeOK, TclType, CtType, OutType
<1>f. ASSUME NEW x \in Sockets, x # s PROVE Same(x) /\ Aside(x)
  <2>1. Same(x)
    BY <1>1, <1>2, <1>3, <1>u, <1>f DEF Same
  <2>2. Aside(x)
    BY <1>a, <1>1, <1>2, <1>3, <1>u, <1>f, Universe DEF Aside
  <2> QED BY <2>1, <2>2
<1>s. SocketInv(s)'
  <2>1. Total(s)' = Total(s) /\ Held(s)' = Held(s)
    BY <1>1, <1>2, <1>3, <1>u DEF Total, Held
  <2>2. TclRefs(s) = 1 /\ TclRefs(s)' = 1
    BY <1>a, <1>1, <1>2, <1>3, <1>u, Universe DEF TclRefs
  <2>3. DisconnectRef(s) = 0 /\ DisconnectRef(s)' = 0
    BY <1>a, <1>b, <1>1, <1>2, <1>3, <1>u, Universe DEF DisconnectRef, SocketInv, Dud
  <2>4. Balanced(s)'
    <3>1. /\ Total(s) \in Nat /\ out[s].DISCONNECT \in Nat /\ ops[s] \in Int
          /\ Held(s) \in {0, 1}
      BY <1>a, <1>i, TotalNat DEF TypeOK, OutType, Held
    <3>2. life'[s] = life[s] /\ ops'[s] = ops[s]
      BY <1>1, <1>2, <1>3, <1>u
    <3>3. Balanced(s)
      BY <1>b DEF SocketInv
    <3> QED BY <2>1, <2>2, <2>3, <3>1, <3>2, <3>3 DEF Balanced
  <2> QED BY <1>a, <1>b, <1>1, <1>2, <1>3, <1>u, <2>1, <2>4, Universe
      DEF SocketInv, Quiet, Dud
<1>p. TclPlace'
  <2>1. CASE s \in Clients
    <3>1. tcl'.at = "closeCount" /\ s \notin Listeners
      BY <2>1, <1>1, <1>2, <1>3, Universe
    <3> QED BY <3>1, <2>1, <1>a, <1>b, <1>1, <1>2, <1>3, <1>u, Universe DEF TclPlace
  <2>2. CASE s \in Listeners
    <3>1. tcl'.at = "closeMark" /\ s \notin Clients
      BY <2>2, <1>1, <1>2, <1>3, Universe
    <3> QED BY <3>1, <2>2, <1>a, <1>b, <1>1, <1>2, <1>3, <1>u, Universe DEF TclPlace
  <2> QED BY <2>1, <2>2, <1>a, Universe
<1>c. CtPlace'
  BY <1>a, <1>b, <1>1, <1>2, <1>3, <1>u, <1>i, CtFrame
<1> QED BY <1>a, <1>b, <1>1, <1>2, <1>3, <1>u, <1>t, <1>f, <1>s, <1>p, <1>c, Universe,
    OneSocket

\* PostOverlappedDisconnect counting its operation preserves IInv.
LEMMA CloseCountStep ==
  ASSUME IInv, NEW s, tcl.sock = s, CloseCount
  PROVE  IInv'
<1>i. /\ TypeOK /\ (\A x \in Sockets : SocketInv(x)) /\ TclPlace /\ CtPlace
      /\ QueuedAreNew
  BY DEF IInv
<1>a. s \in Sockets /\ tcl.at = "closeCount" /\ s \in Clients /\ channel[s] = "closed" /\ life[s] = "live"
  BY <1>i, Universe DEF TypeOK, TclPlace, CloseCount
<1>b. SocketInv(s) /\ "CLOSING" \in flags[s]
  BY <1>i, <1>a DEF SocketInv
<1>1. /\ ops' \in [Sockets -> Int]
      /\ ops'[s] = ops[s] + 1
      /\ \A x \in Sockets : x # s => ops'[x] = ops[x]
  BY <1>a, <1>i, CountedEffect DEF TypeOK, CloseCount
<1>2. tcl' \in TclType /\ tcl'.sock = s /\ tcl'.at = "closePost"
  BY <1>a, OpsAre, Universe DEF CloseCount, At, TclIdle, TclType, TclAt
<1>u. UNCHANGED <<life, channel, flags, out, handle, lists, readyAccepts, accepting, ct, fault>>
  BY DEF CloseCount
<1>t. TypeOK'
  BY <1>1, <1>2, <1>u, <1>i, Zenon DEF TypeOK, TclType, CtType, OutType
<1>f. ASSUME NEW x \in Sockets, x # s PROVE Same(x) /\ Aside(x)
  <2>1. Same(x)
    BY <1>1, <1>2, <1>u, <1>f DEF Same
  <2>2. Aside(x)
    BY <1>a, <1>1, <1>2, <1>u, <1>f, Universe DEF Aside
  <2> QED BY <2>1, <2>2
<1>s. SocketInv(s)'
  <2>1. Total(s)' = Total(s) /\ Held(s)' = Held(s)
    BY <1>1, <1>2, <1>u DEF Total, Held
  <2>2. TclRefs(s) = 1 /\ TclRefs(s)' = 2
    BY <1>a, <1>1, <1>2, <1>u, Universe DEF TclRefs
  <2>3. DisconnectRef(s) = out[s].DISCONNECT /\ DisconnectRef(s)' = out[s].DISCONNECT
    BY <1>a, <1>b, <1>1, <1>2, <1>u, Universe DEF DisconnectRef, SocketInv, Dud
  <2>4. Balanced(s)'
    <3>1. /\ Total(s) \in Nat /\ out[s].DISCONNECT \in Nat /\ ops[s] \in Int
          /\ Held(s) \in {0, 1}
      BY <1>a, <1>i, TotalNat DEF TypeOK, OutType, Held
    <3>2. life'[s] = life[s] /\ ops'[s] = ops[s] + 1
      BY <1>1, <1>2, <1>u
    <3>3. Balanced(s)
      BY <1>b DEF SocketInv
    <3> QED BY <2>1, <2>2, <2>3, <3>1, <3>2, <3>3 DEF Balanced
  <2> QED BY <1>a, <1>b, <1>1, <1>2, <1>u, <2>1, <2>4, Universe DEF SocketInv, Quiet, Dud
<1>p. TclPlace'
  BY <1>a, <1>b, <1>1, <1>2, <1>u, Universe DEF TclPlace
<1>c. CtPlace'
  <2>1. ops[s] \in Int /\ ops[s] > 0
    <3>1. TclRefs(s) = 1 /\ DisconnectRef(s) = out[s].DISCONNECT
      BY <1>a DEF TclRefs, DisconnectRef
    <3>2. /\ Total(s) \in Nat /\ out[s].DISCONNECT \in Nat /\ ops[s] \in Int
          /\ Held(s) \in {0, 1}
      BY <1>a, <1>i, TotalNat DEF TypeOK, OutType, Held
    <3>3. Balanced(s)
      BY <1>b DEF SocketInv
    <3> QED BY <3>1, <3>2, <3>3, <1>a DEF Balanced
  <2> QED BY <2>1, <1>a, <1>b, <1>1, <1>2, <1>u, <1>i, CtFrame
<1> QED BY <1>a, <1>b, <1>1, <1>2, <1>u, <1>t, <1>f, <1>s, <1>p, <1>c, Universe, OneSocket

\* PostOverlappedDisconnect calling DisconnectEx preserves IInv.
LEMMA ClosePostStep ==
  ASSUME IInv, NEW s, tcl.sock = s, ClosePost
  PROVE  IInv'
<1>i. /\ TypeOK /\ (\A x \in Sockets : SocketInv(x)) /\ TclPlace /\ CtPlace
      /\ QueuedAreNew
  BY DEF IInv
<1>a. s \in Sockets /\ tcl.at = "closePost" /\ s \in Clients /\ channel[s] = "closed" /\ life[s] = "live"
  BY <1>i, Universe DEF TypeOK, TclPlace, ClosePost
<1>b. SocketInv(s) /\ "CLOSING" \in flags[s]
  BY <1>i, <1>a DEF SocketInv
<1>1. /\ out' \in OutType
      /\ Total(s)' = Total(s) + 1
      /\ out'[s].DISCONNECT = out[s].DISCONNECT + 1
      /\ \A x \in Sockets : x # s => out'[x] = out[x]
  BY <1>a, <1>i, PostedEffect, OpsAre DEF TypeOK, OutType, ClosePost
<1>2. tcl' \in TclType /\ tcl'.sock = None /\ tcl'.at = "idle"
  BY <1>a, OpsAre, Universe DEF ClosePost, At, TclIdle, TclType, TclAt
<1>u. UNCHANGED <<life, channel, flags, ops, handle, lists, readyAccepts, accepting, ct, fault>>
  BY DEF ClosePost
<1>t. TypeOK'
  BY <1>1, <1>2, <1>u, <1>i, Zenon DEF TypeOK, TclType, CtType, OutType
<1>f. ASSUME NEW x \in Sockets, x # s PROVE Same(x) /\ Aside(x)
  <2>1. Same(x)
    BY <1>1, <1>2, <1>u, <1>f DEF Same
  <2>2. Aside(x)
    BY <1>a, <1>1, <1>2, <1>u, <1>f, Universe DEF Aside
  <2> QED BY <2>1, <2>2
<1>s. SocketInv(s)'
  <2>1. Held(s)' = Held(s)
    BY <1>1, <1>2, <1>u DEF Held
  <2>2. TclRefs(s) = 2 /\ TclRefs(s)' = 0
    BY <1>a, <1>1, <1>2, <1>u, Universe DEF TclRefs
  <2>3. DisconnectRef(s) = out[s].DISCONNECT /\ DisconnectRef(s)' = out[s].DISCONNECT + 1
    BY <1>a, <1>b, <1>1, <1>2, <1>u, Universe DEF DisconnectRef, SocketInv, Dud
  <2>4. Balanced(s)'
    <3>1. /\ Total(s) \in Nat /\ out[s].DISCONNECT \in Nat /\ ops[s] \in Int
          /\ Held(s) \in {0, 1}
      BY <1>a, <1>i, TotalNat DEF TypeOK, OutType, Held
    <3>2. life'[s] = life[s] /\ ops'[s] = ops[s]
      BY <1>1, <1>2, <1>u
    <3>3. Balanced(s)
      BY <1>b DEF SocketInv
    <3> QED BY <1>1, <2>1, <2>2, <2>3, <3>1, <3>2, <3>3 DEF Balanced
  <2> QED BY <1>a, <1>b, <1>1, <1>2, <1>u, <2>1, <2>4, Universe DEF SocketInv, Quiet, Dud
<1>p. TclPlace'
  BY <1>a, <1>b, <1>1, <1>2, <1>u, Universe DEF TclPlace
<1>c. CtPlace'
  BY <1>a, <1>b, <1>1, <1>2, <1>u, <1>i, CtFrame
<1> QED BY <1>a, <1>b, <1>1, <1>2, <1>u, <1>t, <1>f, <1>s, <1>p, <1>c, Universe, OneSocket

\* IocpClose2Proc marking a listener IOCP_CLOSABLE preserves IInv.
LEMMA CloseMarkStep ==
  ASSUME IInv, NEW s, tcl.sock = s, CloseMark
  PROVE  IInv'
<1>i. /\ TypeOK /\ (\A x \in Sockets : SocketInv(x)) /\ TclPlace /\ CtPlace
      /\ QueuedAreNew
  BY DEF IInv
<1>a. s \in Sockets /\ tcl.at = "closeMark" /\ s \in Listeners /\ channel[s] = "closed" /\ life[s] = "live" /\ "CLOSING" \in flags[s]
  BY <1>i, Universe DEF TypeOK, TclPlace, CloseMark
<1>b. SocketInv(s)
  BY <1>i, <1>a DEF SocketInv
<1>1. /\ flags' \in [Sockets -> SUBSET {"CLOSING", "CLOSABLE"}]
      /\ flags'[s] = flags[s] \cup {"CLOSABLE"}
      /\ \A x \in Sockets : x # s => flags'[x] = flags[x]
  BY <1>a, <1>b, <1>i DEF TypeOK, CloseMark
<1>2. tcl' \in TclType /\ tcl'.sock = s /\ tcl'.at = "closeDrop"
  BY <1>a, OpsAre, Universe DEF CloseMark, At, TclIdle, TclType, TclAt
<1>u. UNCHANGED <<life, channel, ops, out, handle, lists, readyAccepts, accepting, ct, fault>>
  BY DEF CloseMark
<1>t. TypeOK'
  BY <1>1, <1>2, <1>u, <1>i, Zenon DEF TypeOK, TclType, CtType, OutType
<1>f. ASSUME NEW x \in Sockets, x # s PROVE Same(x) /\ Aside(x)
  <2>1. Same(x)
    BY <1>1, <1>2, <1>u, <1>f DEF Same
  <2>2. Aside(x)
    BY <1>a, <1>1, <1>2, <1>u, <1>f, Universe DEF Aside
  <2> QED BY <2>1, <2>2
<1>s. SocketInv(s)'
  <2>1. Total(s)' = Total(s) /\ Held(s)' = Held(s)
    BY <1>1, <1>2, <1>u DEF Total, Held
  <2>2. TclRefs(s) = 1 /\ TclRefs(s)' = 1
    BY <1>a, <1>1, <1>2, <1>u, Universe DEF TclRefs
  <2>3. DisconnectRef(s) = 0 /\ DisconnectRef(s)' = 0
    BY <1>a, <1>b, <1>1, <1>2, <1>u, Universe DEF DisconnectRef, SocketInv, Dud
  <2>4. Balanced(s)'
    <3>1. /\ Total(s) \in Nat /\ out[s].DISCONNECT \in Nat /\ ops[s] \in Int
          /\ Held(s) \in {0, 1}
      BY <1>a, <1>i, TotalNat DEF TypeOK, OutType, Held
    <3>2. life'[s] = life[s] /\ ops'[s] = ops[s]
      BY <1>1, <1>2, <1>u
    <3>3. Balanced(s)
      BY <1>b DEF SocketInv
    <3> QED BY <2>1, <2>2, <2>3, <3>1, <3>2, <3>3 DEF Balanced
  <2> QED BY <1>a, <1>b, <1>1, <1>2, <1>u, <2>1, <2>4, Universe DEF SocketInv, Quiet, Dud
<1>p. TclPlace'
  BY <1>a, <1>b, <1>1, <1>2, <1>u, Universe DEF TclPlace
<1>c. CtPlace'
  BY <1>a, <1>b, <1>1, <1>2, <1>u, <1>i, CtFrame
<1> QED BY <1>a, <1>b, <1>1, <1>2, <1>u, <1>t, <1>f, <1>s, <1>p, <1>c, Universe, OneSocket

\* IocpClose2Proc taking back the artificial count preserves IInv.
LEMMA CloseDropStep ==
  ASSUME IInv, NEW s, tcl.sock = s, CloseDrop
  PROVE  IInv'
<1>i. /\ TypeOK /\ (\A x \in Sockets : SocketInv(x)) /\ TclPlace /\ CtPlace
      /\ QueuedAreNew
  BY DEF IInv
<1>a. s \in Sockets /\ tcl.at = "closeDrop" /\ s \in Listeners /\ channel[s] = "closed" /\ life[s] = "live" /\ "CLOSING" \in flags[s]
  BY <1>i, Universe DEF TypeOK, TclPlace, CloseDrop
<1>b. SocketInv(s)
  BY <1>i, <1>a DEF SocketInv
<1>1. /\ ops' \in [Sockets -> Int]
      /\ ops'[s] = ops[s] + (-1)
      /\ \A x \in Sockets : x # s => ops'[x] = ops[x]
  BY <1>a, <1>i, CountedEffect DEF TypeOK, CloseDrop
<1>2. tcl' \in TclType /\ tcl'.sock = s /\ tcl'.at = "closeSocket"
  BY <1>a, OpsAre, Universe DEF CloseDrop, At, TclIdle, TclType, TclAt
<1>u. UNCHANGED <<life, channel, flags, out, handle, lists, readyAccepts, accepting, ct, fault>>
  BY DEF CloseDrop
<1>t. TypeOK'
  BY <1>1, <1>2, <1>u, <1>i, Zenon DEF TypeOK, TclType, CtType, OutType
<1>f. ASSUME NEW x \in Sockets, x # s PROVE Same(x) /\ Aside(x)
  <2>1. Same(x)
    BY <1>1, <1>2, <1>u, <1>f DEF Same
  <2>2. Aside(x)
    BY <1>a, <1>1, <1>2, <1>u, <1>f, Universe DEF Aside
  <2> QED BY <2>1, <2>2
<1>s. SocketInv(s)'
  <2>1. Total(s)' = Total(s) /\ Held(s)' = Held(s)
    BY <1>1, <1>2, <1>u DEF Total, Held
  <2>2. TclRefs(s) = 1 /\ TclRefs(s)' = 0
    BY <1>a, <1>1, <1>2, <1>u, Universe DEF TclRefs
  <2>3. DisconnectRef(s) = 0 /\ DisconnectRef(s)' = 0
    BY <1>a, <1>b, <1>1, <1>2, <1>u, Universe DEF DisconnectRef, SocketInv, Dud
  <2>4. Balanced(s)'
    <3>1. /\ Total(s) \in Nat /\ out[s].DISCONNECT \in Nat /\ ops[s] \in Int
          /\ Held(s) \in {0, 1}
      BY <1>a, <1>i, TotalNat DEF TypeOK, OutType, Held
    <3>2. life'[s] = life[s] /\ ops'[s] = ops[s] + (-1)
      BY <1>1, <1>2, <1>u
    <3>3. Balanced(s)
      BY <1>b DEF SocketInv
    <3> QED BY <2>1, <2>2, <2>3, <3>1, <3>2, <3>3 DEF Balanced
  <2> QED BY <1>a, <1>b, <1>1, <1>2, <1>u, <2>1, <2>4, Universe DEF SocketInv, Quiet, Dud
<1>p. TclPlace'
  BY <1>a, <1>b, <1>1, <1>2, <1>u, Universe DEF TclPlace
<1>c. CtPlace'
  <2>1. ops[s] \in Int
    BY <1>a, <1>i DEF TypeOK
  <2> QED BY <2>1, <1>a, <1>b, <1>1, <1>2, <1>u, <1>i, CtFrame
<1> QED BY <1>a, <1>b, <1>1, <1>2, <1>u, <1>t, <1>f, <1>s, <1>p, <1>c, Universe, OneSocket

\* IocpClose2Proc closing the listening SOCKET preserves IInv.
LEMMA CloseSocketStep ==
  ASSUME IInv, NEW s, tcl.sock = s, CloseSocket
  PROVE  IInv'
<1>i. /\ TypeOK /\ (\A x \in Sockets : SocketInv(x)) /\ TclPlace /\ CtPlace
      /\ QueuedAreNew
  BY DEF IInv
<1>a. s \in Sockets /\ tcl.at = "closeSocket" /\ s \in Listeners /\ channel[s] = "closed"
  BY <1>i, Universe DEF TypeOK, TclPlace, CloseSocket
<1>b. SocketInv(s)
  BY <1>i, <1>a DEF SocketInv
<1>1. handle' \in [Sockets -> BOOLEAN]
  BY <1>a, <1>i DEF TypeOK, CloseSocket
<1>2. tcl' \in TclType /\ tcl'.sock = None /\ tcl'.at = "idle"
  BY <1>a, OpsAre, Universe DEF CloseSocket, At, TclIdle, TclType, TclAt
<1>u. UNCHANGED <<life, channel, flags, ops, out, lists, readyAccepts, accepting, ct, fault>>
  BY DEF CloseSocket
<1>t. TypeOK'
  BY <1>1, <1>2, <1>u, <1>i, Zenon DEF TypeOK, TclType, CtType, OutType
<1>f. ASSUME NEW x \in Sockets, x # s PROVE Same(x) /\ Aside(x)
  <2>1. Same(x)
    BY <1>1, <1>2, <1>u, <1>f DEF Same
  <2>2. Aside(x)
    BY <1>a, <1>1, <1>2, <1>u, <1>f, Universe DEF Aside
  <2> QED BY <2>1, <2>2
<1>s. SocketInv(s)'
  <2>1. Total(s)' = Total(s) /\ Held(s)' = Held(s)
    BY <1>1, <1>2, <1>u DEF Total, Held
  <2>2. TclRefs(s) = 0 /\ TclRefs(s)' = 0
    BY <1>a, <1>1, <1>2, <1>u, Universe DEF TclRefs
  <2>3. DisconnectRef(s) = 0 /\ DisconnectRef(s)' = 0
    BY <1>a, <1>b, <1>1, <1>2, <1>u, Universe DEF DisconnectRef, SocketInv, Dud
  <2>4. Balanced(s)'
    <3>1. /\ Total(s) \in Nat /\ out[s].DISCONNECT \in Nat /\ ops[s] \in Int
          /\ Held(s) \in {0, 1}
      BY <1>a, <1>i, TotalNat DEF TypeOK, OutType, Held
    <3>2. life'[s] = life[s] /\ ops'[s] = ops[s]
      BY <1>1, <1>2, <1>u
    <3>3. Balanced(s)
      BY <1>b DEF SocketInv
    <3> QED BY <2>1, <2>2, <2>3, <3>1, <3>2, <3>3 DEF Balanced
  <2> QED BY <1>a, <1>b, <1>1, <1>2, <1>u, <2>1, <2>4, Universe DEF SocketInv, Quiet, Dud
<1>p. TclPlace'
  BY <1>a, <1>b, <1>1, <1>2, <1>u, Universe DEF TclPlace
<1>c. CtPlace'
  BY <1>a, <1>b, <1>1, <1>2, <1>u, <1>i, CtFrame
<1> QED BY <1>a, <1>b, <1>1, <1>2, <1>u, <1>t, <1>f, <1>s, <1>p, <1>c, Universe, OneSocket

\* IocpClose2Proc taking the artificial count preserves IInv.
LEMMA CloseBeginStep ==
  ASSUME IInv, NEW s \in Sockets, CloseBegin(s)
  PROVE  IInv'
<1>i. /\ TypeOK /\ (\A x \in Sockets : SocketInv(x)) /\ TclPlace /\ CtPlace
      /\ QueuedAreNew
  BY DEF IInv
<1>a. s \in Sockets /\ tcl.at = "idle" /\ tcl.sock = None /\ channel[s] = "open"
  BY <1>i DEF TclPlace, CloseBegin
<1>b. SocketInv(s) /\ life[s] = "live" /\ flags[s] = {}
  BY <1>i, <1>a DEF SocketInv
<1>1. /\ ops' \in [Sockets -> Int]
      /\ ops'[s] = ops[s] + 1
      /\ \A x \in Sockets : x # s => ops'[x] = ops[x]
  BY <1>a, <1>i, CountedEffect DEF TypeOK, CloseBegin
<1>2. tcl' \in TclType /\ tcl'.sock = s /\ tcl'.at = "closeFlag"
  BY <1>a, OpsAre, Universe DEF CloseBegin, At, TclIdle, TclType, TclAt
<1>u. UNCHANGED <<life, channel, flags, out, handle, lists, readyAccepts, accepting, ct, fault>>
  BY DEF CloseBegin
<1>t. TypeOK'
  BY <1>1, <1>2, <1>u, <1>i, Zenon DEF TypeOK, TclType, CtType, OutType
<1>f. ASSUME NEW x \in Sockets, x # s PROVE Same(x) /\ Aside(x)
  <2>1. Same(x)
    BY <1>1, <1>2, <1>u, <1>f DEF Same
  <2>2. Aside(x)
    BY <1>a, <1>1, <1>2, <1>u, <1>f, Universe DEF Aside
  <2> QED BY <2>1, <2>2
<1>s. SocketInv(s)'
  <2>1. Total(s)' = Total(s) /\ Held(s)' = Held(s)
    BY <1>1, <1>2, <1>u DEF Total, Held
  <2>2. TclRefs(s) = 0 /\ TclRefs(s)' = 1
    BY <1>a, <1>1, <1>2, <1>u, Universe DEF TclRefs
  <2>3. DisconnectRef(s) = 0 /\ DisconnectRef(s)' = 0
    BY <1>a, <1>b, <1>1, <1>2, <1>u, Universe DEF DisconnectRef, SocketInv, Dud
  <2>4. Balanced(s)'
    <3>1. /\ Total(s) \in Nat /\ out[s].DISCONNECT \in Nat /\ ops[s] \in Int
          /\ Held(s) \in {0, 1}
      BY <1>a, <1>i, TotalNat DEF TypeOK, OutType, Held
    <3>2. life'[s] = life[s] /\ ops'[s] = ops[s] + 1
      BY <1>1, <1>2, <1>u
    <3>3. Balanced(s)
      BY <1>b DEF SocketInv
    <3> QED BY <2>1, <2>2, <2>3, <3>1, <3>2, <3>3 DEF Balanced
  <2> QED BY <1>a, <1>b, <1>1, <1>2, <1>u, <2>1, <2>4, Universe DEF SocketInv, Quiet, Dud
<1>p. TclPlace'
  BY <1>a, <1>b, <1>1, <1>2, <1>u, Universe DEF TclPlace
<1>c. CtPlace'
  BY <1>a, <1>b, <1>1, <1>2, <1>u, <1>i, CtFrame
<1> QED BY <1>a, <1>b, <1>1, <1>2, <1>u, <1>t, <1>f, <1>s, <1>p, <1>c, Universe, OneSocket

\* Counting a WSARecv, WSASend or AcceptEx before it is posted preserves IInv.
LEMMA PostBeginStep ==
  ASSUME IInv, NEW s, NEW op, PostBegin(s, op),
         \/ s \in Clients /\ op \in {"READ", "WRITE"}
         \/ s \in Listeners /\ op = "ACCEPT"
  PROVE  IInv'
<1>i. /\ TypeOK /\ (\A x \in Sockets : SocketInv(x)) /\ TclPlace /\ CtPlace
      /\ QueuedAreNew
  BY DEF IInv
<1>a. /\ s \in Sockets /\ tcl.at = "idle" /\ tcl.sock = None /\ channel[s] = "open"
      /\ op \in Ops
  BY <1>i, Universe, OpsAre DEF TclPlace, PostBegin
<1>b. SocketInv(s) /\ life[s] = "live" /\ flags[s] = {}
  BY <1>i, <1>a DEF SocketInv
<1>1. /\ ops' \in [Sockets -> Int]
      /\ ops'[s] = ops[s] + 1
      /\ \A x \in Sockets : x # s => ops'[x] = ops[x]
  BY <1>a, <1>i, CountedEffect DEF TypeOK, PostBegin
<1>2. tcl' \in TclType /\ tcl'.sock = s /\ tcl'.at = "posting" /\ tcl'.op = op
  BY <1>a, OpsAre, Universe DEF PostBegin, At, TclIdle, TclType, TclAt
<1>u. UNCHANGED <<life, channel, flags, out, handle, lists, readyAccepts, accepting, ct, fault>>
  BY DEF PostBegin
<1>t. TypeOK'
  BY <1>1, <1>2, <1>u, <1>i, Zenon DEF TypeOK, TclType, CtType, OutType
<1>f. ASSUME NEW x \in Sockets, x # s PROVE Same(x) /\ Aside(x)
  <2>1. Same(x)
    BY <1>1, <1>2, <1>u, <1>f DEF Same
  <2>2. Aside(x)
    BY <1>a, <1>1, <1>2, <1>u, <1>f, Universe DEF Aside
  <2> QED BY <2>1, <2>2
<1>s. SocketInv(s)'
  <2>1. Total(s)' = Total(s) /\ Held(s)' = Held(s)
    BY <1>1, <1>2, <1>u DEF Total, Held
  <2>2. TclRefs(s) = 0 /\ TclRefs(s)' = 1
    BY <1>a, <1>1, <1>2, <1>u, Universe DEF TclRefs
  <2>3. DisconnectRef(s) = 0 /\ DisconnectRef(s)' = 0
    BY <1>a, <1>b, <1>1, <1>2, <1>u, Universe DEF DisconnectRef, SocketInv, Dud
  <2>4. Balanced(s)'
    <3>1. /\ Total(s) \in Nat /\ out[s].DISCONNECT \in Nat /\ ops[s] \in Int
          /\ Held(s) \in {0, 1}
      BY <1>a, <1>i, TotalNat DEF TypeOK, OutType, Held
    <3>2. life'[s] = life[s] /\ ops'[s] = ops[s] + 1
      BY <1>1, <1>2, <1>u
    <3>3. Balanced(s)
      BY <1>b DEF SocketInv
    <3> QED BY <2>1, <2>2, <2>3, <3>1, <3>2, <3>3 DEF Balanced
  <2> QED BY <1>a, <1>b, <1>1, <1>2, <1>u, <2>1, <2>4, Universe DEF SocketInv, Quiet, Dud
<1>p. TclPlace'
  BY <1>a, <1>b, <1>1, <1>2, <1>u, Universe DEF TclPlace
<1>c. CtPlace'
  BY <1>a, <1>b, <1>1, <1>2, <1>u, <1>i, CtFrame
<1> QED BY <1>a, <1>b, <1>1, <1>2, <1>u, <1>t, <1>f, <1>s, <1>p, <1>c, Universe, OneSocket

\* Posting the counted operation, or taking its count back, preserves IInv.
LEMMA PostEndStep ==
  ASSUME IInv, NEW s, tcl.sock = s, PostEnd
  PROVE  IInv'
<1>i. /\ TypeOK /\ (\A x \in Sockets : SocketInv(x)) /\ TclPlace /\ CtPlace
      /\ QueuedAreNew
  BY DEF IInv
<1>a. /\ s \in Sockets /\ tcl.at = "posting" /\ channel[s] = "open"
      /\ tcl.op \in {"READ", "WRITE", "ACCEPT"}
  BY <1>i, Universe DEF TypeOK, TclPlace, PostEnd
<1>b. SocketInv(s) /\ life[s] = "live" /\ flags[s] = {}
  BY <1>i, <1>a DEF SocketInv
<1>o. PICK op \in {"READ", "WRITE", "ACCEPT"} : tcl.op = op
  BY <1>a
<1>n. /\ Total(s) \in Nat /\ out \in OutType /\ out[s].DISCONNECT \in Nat
      /\ ops \in [Sockets -> Int] /\ ops[s] \in Int
  BY <1>a, <1>i, TotalNat DEF TypeOK, OutType
<1>1. /\ out' \in OutType /\ ops' \in [Sockets -> Int]
      /\ Total(s)' \in Nat /\ ops'[s] \in Int
      /\ ops'[s] - Total(s)' = ops[s] - Total(s) - 1
      /\ out'[s].DISCONNECT = out[s].DISCONNECT
      /\ \A x \in Sockets : x # s => out'[x] = out[x] /\ ops'[x] = ops[x]
  <2>1. CASE Posted(s, op) /\ UNCHANGED ops
    <3>1. op \in Ops /\ op # "DISCONNECT"
      BY <1>o, OpsAre
    <3>2. /\ out' \in OutType
          /\ Total(s)' = Total(s) + 1
          /\ out'[s].DISCONNECT = out[s].DISCONNECT
          /\ \A x \in Sockets : x # s => out'[x] = out[x]
      BY <1>a, <1>n, <2>1, <3>1, PostedEffect
    <3> QED BY <1>n, <2>1, <3>2
  <2>2. CASE Counted(s, -1) /\ UNCHANGED out
    <3>1. /\ ops' \in [Sockets -> Int]
          /\ ops'[s] = ops[s] + (-1)
          /\ \A x \in Sockets : x # s => ops'[x] = ops[x]
      BY <1>a, <1>n, <2>2, CountedEffect
    <3>2. Total(s)' = Total(s)
      BY <2>2 DEF Total
    <3> QED BY <1>n, <2>2, <3>1, <3>2
  <2> QED BY <1>o, <2>1, <2>2 DEF PostEnd
<1>2. tcl' \in TclType /\ tcl'.sock = None /\ tcl'.at = "idle"
  BY <1>a, OpsAre, Universe DEF PostEnd, At, TclIdle, TclType, TclAt
<1>u. UNCHANGED <<life, channel, flags, handle, lists, readyAccepts, accepting, ct, fault>>
  BY DEF PostEnd
<1>t. TypeOK'
  BY <1>1, <1>2, <1>u, <1>i, Zenon DEF TypeOK, TclType, CtType, OutType
<1>f. ASSUME NEW x \in Sockets, x # s PROVE Same(x) /\ Aside(x)
  <2>1. Same(x)
    BY <1>1, <1>2, <1>u, <1>f DEF Same
  <2>2. Aside(x)
    BY <1>a, <1>1, <1>2, <1>u, <1>f, Universe DEF Aside
  <2> QED BY <2>1, <2>2
<1>s. SocketInv(s)'
  <2>1. Held(s)' = Held(s)
    BY <1>1, <1>2, <1>u DEF Held
  <2>2. TclRefs(s) = 1 /\ TclRefs(s)' = 0
    BY <1>a, <1>1, <1>2, <1>u, Universe DEF TclRefs
  <2>3. DisconnectRef(s) = 0 /\ DisconnectRef(s)' = 0
    BY <1>a, <1>b, <1>1, <1>2, <1>u, Universe DEF DisconnectRef, SocketInv, Dud
  <2>4. Balanced(s)'
    <3>1. Held(s) \in {0, 1}
      BY DEF Held
    <3>2. life'[s] = life[s]
      BY <1>u
    <3>3. Balanced(s)
      BY <1>b DEF SocketInv
    <3> QED BY <1>1, <1>n, <2>1, <2>2, <2>3, <3>1, <3>2, <3>3 DEF Balanced
  <2> QED BY <1>a, <1>b, <1>1, <1>2, <1>u, <2>1, <2>4, Universe DEF SocketInv, Quiet, Dud
<1>p. TclPlace'
  BY <1>a, <1>b, <1>1, <1>2, <1>u, Universe DEF TclPlace
<1>c. CtPlace'
  BY <1>a, <1>b, <1>1, <1>2, <1>u, <1>i, CtFrame
<1> QED BY <1>a, <1>b, <1>1, <1>2, <1>u, <1>t, <1>f, <1>s, <1>p, <1>c, Universe, OneSocket

\* Iocp_OpenTcpServer giving the listener its channel preserves IInv.
LEMMA OpenServerDoneStep ==
  ASSUME IInv, NEW s, tcl.sock = s, OpenServerDone
  PROVE  IInv'
<1>i. /\ TypeOK /\ (\A x \in Sockets : SocketInv(x)) /\ TclPlace /\ CtPlace
      /\ QueuedAreNew
  BY DEF IInv
<1>a. s \in Sockets /\ tcl.at = "opening" /\ s \in Listeners /\ channel[s] = "never" /\ life[s] = "live"
  BY <1>i, Universe DEF TypeOK, TclPlace, OpenServerDone
<1>b. SocketInv(s) /\ flags[s] = {}
  BY <1>i, <1>a DEF SocketInv
<1>1. /\ channel' \in [Sockets -> {"never", "open", "closed"}]
      /\ channel'[s] = "open"
      /\ \A x \in Sockets : x # s => channel'[x] = channel[x]
  BY <1>a, <1>b, <1>i DEF TypeOK, OpenServerDone
<1>2. tcl' \in TclType /\ tcl'.sock = None /\ tcl'.at = "idle"
  BY <1>a, OpsAre, Universe DEF OpenServerDone, At, TclIdle, TclType, TclAt
<1>u. UNCHANGED <<life, flags, ops, out, handle, lists, readyAccepts, accepting, ct, fault>>
  BY DEF OpenServerDone
<1>t. TypeOK'
  BY <1>1, <1>2, <1>u, <1>i, Zenon DEF TypeOK, TclType, CtType, OutType
<1>f. ASSUME NEW x \in Sockets, x # s PROVE Same(x) /\ Aside(x)
  <2>1. Same(x)
    BY <1>1, <1>2, <1>u, <1>f DEF Same
  <2>2. Aside(x)
    BY <1>a, <1>1, <1>2, <1>u, <1>f, Universe DEF Aside
  <2> QED BY <2>1, <2>2
<1>s. SocketInv(s)'
  <2>1. Total(s)' = Total(s) /\ Held(s)' = Held(s)
    BY <1>1, <1>2, <1>u DEF Total, Held
  <2>2. TclRefs(s) = 0 /\ TclRefs(s)' = 0
    BY <1>a, <1>1, <1>2, <1>u, Universe DEF TclRefs
  <2>3. DisconnectRef(s) = 0 /\ DisconnectRef(s)' = 0
    BY <1>a, <1>b, <1>1, <1>2, <1>u, Universe DEF DisconnectRef, SocketInv, Dud
  <2>4. Balanced(s)'
    <3>1. /\ Total(s) \in Nat /\ out[s].DISCONNECT \in Nat /\ ops[s] \in Int
          /\ Held(s) \in {0, 1}
      BY <1>a, <1>i, TotalNat DEF TypeOK, OutType, Held
    <3>2. life'[s] = life[s] /\ ops'[s] = ops[s]
      BY <1>1, <1>2, <1>u
    <3>3. Balanced(s)
      BY <1>b DEF SocketInv
    <3> QED BY <2>1, <2>2, <2>3, <3>1, <3>2, <3>3 DEF Balanced
  <2> QED BY <1>a, <1>b, <1>1, <1>2, <1>u, <2>1, <2>4, Universe DEF SocketInv, Quiet, Dud
<1>p. TclPlace'
  BY <1>a, <1>b, <1>1, <1>2, <1>u, Universe DEF TclPlace
<1>c. CtPlace'
  BY <1>u, <1>i, CtFrame
<1> QED BY <1>a, <1>b, <1>1, <1>2, <1>u, <1>t, <1>f, <1>s, <1>p, <1>c, Universe, OneSocket

\* HandleIo taking a completion of one live client preserves IInv when it
\* keeps the balance and the dud condition of that client.
LEMMA TakeFrame ==
  ASSUME IInv, NEW s \in Sockets, ct.at = "idle", life[s] = "live",
         ops' \in [Sockets -> Int], out' \in OutType,
         flags' \in [Sockets -> SUBSET {"CLOSING", "CLOSABLE"}],
         lists' \in [Sockets -> BOOLEAN],
         \A x \in Sockets : x # s =>
           ops'[x] = ops[x] /\ out'[x] = out[x] /\ flags'[x] = flags[x],
         UNCHANGED <<life, channel, handle, readyAccepts, tcl, accepting, fault>>,
         ct'.at \notin {"idle", "free"}, ct'.sock = s, ct' \in CtType,
         ct'.at = "replace" => s \in Listeners,
         ct'.at \in {"burst", "first"} => s \in Clients,
         ops'[s] - Total(s)' - DisconnectRef(s)' - 1
           = ops[s] - Total(s) - DisconnectRef(s),
         "CLOSING" \in flags'[s] <=> "CLOSING" \in flags[s],
         "CLOSABLE" \in flags[s] => "CLOSABLE" \in flags'[s],
         "CLOSABLE" \in flags'[s] => "CLOSING" \in flags'[s],
         s \in Clients /\ "CLOSING" \notin flags[s] => out'[s].DISCONNECT = 0,
         s \in Clients /\ Dud(s) =>
           /\ Total(s)' = 0 /\ out'[s].DISCONNECT = 0 /\ "CLOSABLE" \in flags'[s]
           /\ ct'.at = "done"
  PROVE  IInv'
<1>i. /\ TypeOK /\ (\A x \in Sockets : SocketInv(x)) /\ TclPlace /\ CtPlace
      /\ QueuedAreNew
  BY DEF IInv
<1>a. ct.sock = None /\ s # None
  BY <1>i, Universe DEF CtPlace
<1>b. SocketInv(s) /\ Balanced(s)
  BY <1>i DEF SocketInv
<1>t. TypeOK'
  BY <1>i, Zenon DEF TypeOK, CtType, OutType
<1>f. ASSUME NEW x \in Sockets, x # s PROVE Same(x) /\ Aside(x)
  <2>1. Same(x)
    BY <1>f DEF Same
  <2>2. Aside(x)
    BY <1>f, <1>a, Universe DEF Aside
  <2> QED BY <2>1, <2>2
<1>1. flags[s] = {} => flags'[s] = {}
  <2>1. flags'[s] \subseteq {"CLOSING", "CLOSABLE"}
    OBVIOUS
  <2> QED BY <2>1
<1>2. Held(s) = 0 /\ Held(s)' = 1 /\ TclRefs(s)' = TclRefs(s)
  BY <1>a DEF Held, TclRefs
<1>3. Balanced(s)'
  <2>1. ops[s] \in Int /\ Total(s) \in Nat /\ TclRefs(s) \in Int
    BY <1>i, Sizes
  <2>2. ops'[s] \in Int /\ Total(s)' \in Nat
    BY TotalNatNext
  <2>3. DisconnectRef(s) \in Int
    BY <1>i, Sizes DEF DisconnectRef
  <2>4. DisconnectRef(s)' \in Int
    BY TotalNatNext DEF DisconnectRef
  <2> QED BY <1>b, <1>2, <2>1, <2>2, <2>3, <2>4 DEF Balanced
<1>4. Dud(s)' <=> Dud(s)
  BY DEF Dud
<1>s. SocketInv(s)'
  BY <1>b, <1>1, <1>3, <1>4 DEF SocketInv
<1>p. TclPlace'
  <2>1. \A x \in Sockets : "CLOSING" \in flags[x] => "CLOSING" \in flags'[x]
    OBVIOUS
  <2> QED BY <2>1, <1>i, TclFrame
<1>c. CtPlace'
  BY <1>a DEF CtPlace
<1> QED BY <1>t, <1>f, <1>s, <1>p, <1>c, <1>1, OneSocket

\* HandleIo at OP_READ preserves IInv.
LEMMA HandleReadStep ==
  ASSUME IInv, NEW s \in Clients, HandleRead(s)
  PROVE  IInv'
<1>i. TypeOK /\ s \in Sockets /\ SocketInv(s) /\ s \notin Listeners
  BY Universe DEF IInv
<1>a. ct.at = "idle" /\ life[s] = "live" /\ Dequeued(s, "READ")
  BY DEF HandleRead, Dequeued
<1>1. /\ out' \in OutType
      /\ Total(s)' = Total(s) - 1
      /\ out'[s].DISCONNECT = out[s].DISCONNECT
      /\ out[s].DISCONNECT < Total(s)
      /\ \A x \in Sockets : x # s => out'[x] = out[x]
  <2>1. out \in OutType /\ out[s].DISCONNECT \in Nat
    BY <1>i, Sizes DEF TypeOK, OutType
  <2> QED BY <1>i, <1>a, <2>1, DequeuedEffect, OpsAre
<1>2. /\ flags' \in [Sockets -> SUBSET {"CLOSING", "CLOSABLE"}]
      /\ \/ flags'[s] = flags[s]
         \/ "CLOSING" \in flags[s] /\ flags'[s] = flags[s] \cup {"CLOSABLE"}
      /\ \A x \in Sockets : x # s => flags'[x] = flags[x]
  <2>0. flags \in [Sockets -> SUBSET {"CLOSING", "CLOSABLE"}]
    BY <1>i DEF TypeOK
  <2>1. \/ UNCHANGED flags
        \/ /\ "CLOSING" \in flags[s]
           /\ flags' = [flags EXCEPT ![s] = @ \cup {"CLOSABLE"}]
    BY DEF HandleRead
  <2> QED BY <1>i, <2>0, <2>1
<1>3. ct'.at = "done" /\ ct'.sock = s /\ ct' \in CtType
  BY <1>i DEF HandleRead, Handled, CtType, CtAt
<1>u. UNCHANGED <<life, channel, ops, handle, lists, readyAccepts, tcl, accepting, fault>>
  BY DEF HandleRead
<1>4. ~ Dud(s)
  BY <1>1, <1>a, <1>i, Sizes DEF SocketInv
<1>5. DisconnectRef(s)' = DisconnectRef(s)
  <2>1. Dud(s)' <=> Dud(s)
    BY <1>2, <1>u DEF Dud
  <2> QED BY <2>1, <1>1, <1>u DEF DisconnectRef
<1>6. ops'[s] - Total(s)' - DisconnectRef(s)' - 1 = ops[s] - Total(s) - DisconnectRef(s)
  BY <1>1, <1>5, <1>u, <1>i, Sizes DEF DisconnectRef
<1>7. /\ "CLOSING" \in flags'[s] <=> "CLOSING" \in flags[s]
      /\ "CLOSABLE" \in flags[s] => "CLOSABLE" \in flags'[s]
      /\ "CLOSABLE" \in flags'[s] => "CLOSING" \in flags'[s]
      /\ "CLOSING" \notin flags[s] => out'[s].DISCONNECT = 0
  BY <1>1, <1>2, <1>i DEF SocketInv
<1> QED BY <1>i, <1>a, <1>1, <1>2, <1>3, <1>u, <1>4, <1>6, <1>7, TakeFrame DEF TypeOK

\* HandleIo at OP_WRITE preserves IInv.
LEMMA HandleWriteStep ==
  ASSUME IInv, NEW s \in Clients, HandleWrite(s)
  PROVE  IInv'
<1>i. TypeOK /\ s \in Sockets /\ SocketInv(s) /\ s \notin Listeners
  BY Universe DEF IInv
<1>a. ct.at = "idle" /\ life[s] = "live" /\ Dequeued(s, "WRITE")
  BY DEF HandleWrite, Dequeued
<1>1. /\ out' \in OutType
      /\ Total(s)' = Total(s) - 1
      /\ out'[s].DISCONNECT = out[s].DISCONNECT
      /\ out[s].DISCONNECT < Total(s)
      /\ \A x \in Sockets : x # s => out'[x] = out[x]
  <2>1. out \in OutType /\ out[s].DISCONNECT \in Nat
    BY <1>i, Sizes DEF TypeOK, OutType
  <2> QED BY <1>i, <1>a, <2>1, DequeuedEffect, OpsAre
<1>3. ct'.at = "done" /\ ct'.sock = s /\ ct' \in CtType
  BY <1>i DEF HandleWrite, Handled, CtType, CtAt
<1>u. UNCHANGED <<life, channel, flags, ops, handle, lists, readyAccepts, tcl, accepting, fault>>
  BY DEF HandleWrite
<1>4. ~ Dud(s)
  BY <1>1, <1>a, <1>i, Sizes DEF SocketInv
<1>5. DisconnectRef(s)' = DisconnectRef(s)
  <2>1. Dud(s)' <=> Dud(s)
    BY <1>u DEF Dud
  <2> QED BY <2>1, <1>1, <1>u DEF DisconnectRef
<1>6. ops'[s] - Total(s)' - DisconnectRef(s)' - 1 = ops[s] - Total(s) - DisconnectRef(s)
  BY <1>1, <1>5, <1>u, <1>i, Sizes DEF DisconnectRef
<1>7. /\ "CLOSING" \in flags'[s] <=> "CLOSING" \in flags[s]
      /\ "CLOSABLE" \in flags[s] => "CLOSABLE" \in flags'[s]
      /\ "CLOSABLE" \in flags'[s] => "CLOSING" \in flags'[s]
      /\ "CLOSING" \notin flags[s] => out'[s].DISCONNECT = 0
  BY <1>1, <1>u, <1>i DEF SocketInv
<1> QED BY <1>i, <1>a, <1>1, <1>3, <1>u, <1>4, <1>6, <1>7, TakeFrame DEF TypeOK

\* HandleIo at OP_DISCONNECT preserves IInv: the reference it takes back is
\* the one DisconnectRef stands for.
LEMMA HandleDisconnectStep ==
  ASSUME IInv, NEW s \in Clients, HandleDisconnect(s)
  PROVE  IInv'
<1>i. TypeOK /\ s \in Sockets /\ SocketInv(s) /\ s \notin Listeners
  BY Universe DEF IInv
<1>a. ct.at = "idle" /\ life[s] = "live" /\ Dequeued(s, "DISCONNECT") /\ out[s].DISCONNECT > 0
  BY DEF HandleDisconnect, Dequeued
<1>1. /\ out' \in OutType
      /\ Total(s)' = Total(s) - 1
      /\ out'[s].DISCONNECT = out[s].DISCONNECT - 1
      /\ \A x \in Sockets : x # s => out'[x] = out[x]
  <2>1. out \in OutType /\ out[s].DISCONNECT \in Nat
    BY <1>i, Sizes DEF TypeOK, OutType
  <2> QED BY <1>i, <1>a, <2>1, DequeuedEffect, OpsAre
<1>2. /\ flags' \in [Sockets -> SUBSET {"CLOSING", "CLOSABLE"}]
      /\ flags'[s] = flags[s] \cup {"CLOSABLE"}
      /\ \A x \in Sockets : x # s => flags'[x] = flags[x]
  BY <1>i DEF TypeOK, HandleDisconnect
<1>3. ct'.at = "done" /\ ct'.sock = s /\ ct' \in CtType
  BY <1>i DEF HandleDisconnect, Handled, CtType, CtAt
<1>o. /\ ops' \in [Sockets -> Int]
      /\ ops'[s] = ops[s] + (-1)
      /\ \A x \in Sockets : x # s => ops'[x] = ops[x]
  BY <1>i, CountedEffect DEF TypeOK, HandleDisconnect
<1>u. UNCHANGED <<life, channel, handle, lists, readyAccepts, tcl, accepting, fault>>
  BY DEF HandleDisconnect
<1>4. "CLOSING" \in flags[s]
  BY <1>a, <1>i, Sizes DEF SocketInv
<1>5. DisconnectRef(s)' = DisconnectRef(s) - 1 /\ DisconnectRef(s) \in Int
  <2>1. Dud(s)' <=> Dud(s)
    BY <1>2, <1>u DEF Dud
  <2>2. channel[s] = "closed" \/ Dud(s)
    BY <1>4, <1>a, <1>i DEF SocketInv, TypeOK, Dud
  <2>3. out[s].DISCONNECT \in Nat
    BY <1>i, Sizes
  <2> QED BY <2>1, <2>2, <2>3, <1>1, <1>u DEF DisconnectRef
<1>6. ops'[s] - Total(s)' - DisconnectRef(s)' - 1 = ops[s] - Total(s) - DisconnectRef(s)
  BY <1>1, <1>5, <1>o, <1>i, Sizes
<1>7. /\ "CLOSING" \in flags'[s] <=> "CLOSING" \in flags[s]
      /\ "CLOSABLE" \in flags[s] => "CLOSABLE" \in flags'[s]
      /\ "CLOSABLE" \in flags'[s] => "CLOSING" \in flags'[s]
      /\ "CLOSING" \notin flags[s] => out'[s].DISCONNECT = 0
  BY <1>2, <1>4
<1>8. Dud(s) => Total(s)' = 0 /\ out'[s].DISCONNECT = 0 /\ "CLOSABLE" \in flags'[s]
  BY <1>1, <1>2, <1>i, <1>a, Sizes DEF SocketInv
<1> QED BY <1>i, <1>a, <1>1, <1>2, <1>3, <1>o, <1>u, <1>6, <1>7, <1>8, TakeFrame
    DEF TypeOK

\* HandleIo at OP_READ in burst mode preserves IInv.
LEMMA HandleReadBurstStep ==
  ASSUME IInv, NEW s \in Clients, HandleReadBurst(s)
  PROVE  IInv'
<1>i. TypeOK /\ s \in Sockets /\ SocketInv(s) /\ s \notin Listeners
  BY Universe DEF IInv
<1>a. /\ ct.at = "idle" /\ life[s] = "live" /\ "CLOSING" \notin flags[s]
      /\ Dequeued(s, "READ")
  BY DEF HandleReadBurst, Dequeued
<1>1. /\ out' \in OutType
      /\ Total(s)' = Total(s) - 1
      /\ out'[s].DISCONNECT = out[s].DISCONNECT
      /\ \A x \in Sockets : x # s => out'[x] = out[x]
  <2>1. out \in OutType /\ out[s].DISCONNECT \in Nat
    BY <1>i, Sizes DEF TypeOK, OutType
  <2> QED BY <1>i, <1>a, <2>1, DequeuedEffect, OpsAre
<1>3. ct'.at = "burst" /\ ct'.sock = s /\ ct' \in CtType
  BY <1>i DEF HandleReadBurst, CtType, CtAt
<1>u. UNCHANGED <<life, channel, flags, ops, handle, lists, readyAccepts, tcl,
                  accepting, fault>>
  BY DEF HandleReadBurst
<1>4. ~ Dud(s)
  BY <1>a DEF Dud
<1>5. DisconnectRef(s)' = DisconnectRef(s)
  <2>1. Dud(s)' <=> Dud(s)
    BY <1>u DEF Dud
  <2> QED BY <2>1, <1>1, <1>u DEF DisconnectRef
<1>6. ops'[s] - Total(s)' - DisconnectRef(s)' - 1 = ops[s] - Total(s) - DisconnectRef(s)
  BY <1>1, <1>5, <1>u, <1>i, Sizes DEF DisconnectRef
<1>7. /\ "CLOSABLE" \in flags[s] => "CLOSING" \in flags[s]
      /\ out'[s].DISCONNECT = 0
  BY <1>1, <1>a, <1>i DEF SocketInv
<1> QED BY <1>i, <1>a, <1>1, <1>3, <1>u, <1>4, <1>6, <1>7, TakeFrame DEF TypeOK

\* HandleIo at OP_CONNECT preserves IInv.
LEMMA HandleConnectStep ==
  ASSUME IInv, NEW s \in Clients, HandleConnect(s)
  PROVE  IInv'
<1>i. TypeOK /\ s \in Sockets /\ SocketInv(s) /\ s \notin Listeners
  BY Universe DEF IInv
<1>a. ct.at = "idle" /\ life[s] = "live" /\ Dequeued(s, "CONNECT")
  BY DEF HandleConnect, Dequeued
<1>1. /\ out' \in OutType
      /\ Total(s)' = Total(s) - 1
      /\ out'[s].DISCONNECT = out[s].DISCONNECT
      /\ out[s].DISCONNECT < Total(s)
      /\ \A x \in Sockets : x # s => out'[x] = out[x]
  <2>1. out \in OutType /\ out[s].DISCONNECT \in Nat
    BY <1>i, Sizes DEF TypeOK, OutType
  <2> QED BY <1>i, <1>a, <2>1, DequeuedEffect, OpsAre
<1>3. ct'.at \in {"first", "done"} /\ ct'.sock = s /\ ct' \in CtType
  BY <1>i DEF HandleConnect, Handled, CtType, CtAt
<1>l. lists' \in [Sockets -> BOOLEAN]
  BY <1>i DEF HandleConnect, TypeOK
<1>u. UNCHANGED <<life, channel, flags, ops, handle, readyAccepts, tcl, accepting,
                  fault>>
  BY DEF HandleConnect
<1>4. ~ Dud(s)
  BY <1>1, <1>a, <1>i, Sizes DEF SocketInv
<1>5. DisconnectRef(s)' = DisconnectRef(s)
  <2>1. Dud(s)' <=> Dud(s)
    BY <1>u DEF Dud
  <2> QED BY <2>1, <1>1, <1>u DEF DisconnectRef
<1>6. ops'[s] - Total(s)' - DisconnectRef(s)' - 1 = ops[s] - Total(s) - DisconnectRef(s)
  BY <1>1, <1>5, <1>u, <1>i, Sizes DEF DisconnectRef
<1>7. /\ "CLOSABLE" \in flags[s] => "CLOSING" \in flags[s]
      /\ "CLOSING" \notin flags[s] => out'[s].DISCONNECT = 0
  BY <1>1, <1>a, <1>i DEF SocketInv
<1> QED BY <1>i, <1>a, <1>1, <1>3, <1>l, <1>u, <1>4, <1>6, <1>7, TakeFrame DEF TypeOK

\* The WSARecv calls of HandleIo preserve IInv: each is counted, and a dud has
\* no receive that could lead here.
LEMMA RecvPostStep ==
  ASSUME IInv, NEW s, ct.sock = s, RecvPost
  PROVE  IInv'
<1>i. /\ TypeOK /\ (\A x \in Sockets : SocketInv(x)) /\ TclPlace /\ CtPlace
      /\ QueuedAreNew
  BY DEF IInv
<1>a. /\ s \in Sockets /\ s \in Clients /\ s \notin Listeners
      /\ ct.at \in {"burst", "first"} /\ life[s] \notin {"unused", "lastOp"}
  BY <1>i, Universe DEF RecvPost, CtPlace
<1>n. PICK n \in Nat :
        Counted(s, n) /\ out' = [out EXCEPT ![s].READ = @ + n]
  <2> DEFINE most == IF ct.at = "first" THEN InitialRecvCount ELSE RecvCap
  <2>1. most \in Nat
    BY CapsAssumption DEF InitialRecvCount
  <2>2. PICK n \in 0 .. most :
          Counted(s, n) /\ out' = [out EXCEPT ![s].READ = @ + n]
    BY DEF RecvPost
  <2>3. n \in Nat
    <3> HIDE DEF most
    <3> QED BY <2>1
  <2> QED BY <2>2, <2>3
<1>1. /\ out' \in OutType
      /\ Total(s)' = Total(s) + n
      /\ out'[s].DISCONNECT = out[s].DISCONNECT
      /\ \A x \in Sockets : x # s => out'[x] = out[x]
  <2>1. out \in OutType
    BY <1>i DEF TypeOK, OutType
  <2>2. out' \in OutType
    BY <2>1, <1>n, <1>a, <1>i DEF OutType, Ops
  <2>3. Total(s)' = Total(s) + n
    BY <2>1, <1>n, <1>a, <1>i DEF OutType, Ops, Total
  <2>4. /\ out'[s].DISCONNECT = out[s].DISCONNECT
        /\ \A x \in Sockets : x # s => out'[x] = out[x]
    BY <2>1, <1>n, <1>a, <1>i DEF OutType, Ops
  <2> QED BY <2>2, <2>3, <2>4
<1>o. /\ ops' \in [Sockets -> Int]
      /\ ops'[s] = ops[s] + n
      /\ \A x \in Sockets : x # s => ops'[x] = ops[x]
  BY <1>i, <1>a, <1>n, CountedEffect DEF TypeOK
<1>3. ct'.at = "done" /\ ct'.sock = s /\ ct' \in CtType
  BY <1>a DEF RecvPost, Handled, CtType, CtAt
<1>u. UNCHANGED <<life, channel, flags, handle, lists, readyAccepts, tcl, accepting, fault>>
  BY DEF RecvPost
<1>t. TypeOK'
  BY <1>1, <1>o, <1>3, <1>u, <1>i, Zenon DEF TypeOK, CtType, OutType
<1>f. ASSUME NEW x \in Sockets, x # s PROVE Same(x) /\ Aside(x)
  <2>1. Same(x)
    BY <1>1, <1>o, <1>u, <1>f DEF Same
  <2>2. Aside(x)
    BY <1>a, <1>3, <1>u, <1>f DEF Aside
  <2> QED BY <2>1, <2>2
<1>s. SocketInv(s)'
  <2>1. Held(s) = 1 /\ Held(s)' = 1 /\ TclRefs(s)' = TclRefs(s)
    BY <1>a, <1>3, <1>u DEF Held, TclRefs
  <2>2. SocketInv(s)
    BY <1>i, <1>a
  <2>3. life[s] = "live" => ~ Dud(s)
    BY <1>a, <2>2 DEF SocketInv
  <2>4. Dud(s)' <=> Dud(s)
    BY <1>u DEF Dud
  <2>5. DisconnectRef(s)' = DisconnectRef(s)
    BY <2>4, <1>1, <1>u DEF DisconnectRef
  <2>6. DisconnectRef(s) \in Int
    BY <1>i, <1>a, Sizes DEF DisconnectRef
  <2>7. Balanced(s)
    BY <2>2 DEF SocketInv
  <2>8. Balanced(s)'
    BY <1>1, <1>o, <1>u, <1>i, <1>a, <2>1, <2>5, <2>6, <2>7, Sizes DEF Balanced
  <2> QED BY <1>a, <1>1, <1>u, <2>2, <2>3, <2>4, <2>8 DEF SocketInv
<1>p. TclPlace'
  BY <1>u, <1>i, TclFrame
<1>c. CtPlace'
  BY <1>a, <1>3, <1>u, Universe DEF CtPlace
<1> QED BY <1>a, <1>t, <1>f, <1>s, <1>p, <1>c, <1>u, OneSocket

\* HandleIo at OP_ACCEPT with an error preserves IInv.
LEMMA RefusedAcceptStep ==
  ASSUME IInv, NEW s \in Listeners, ct.at = "idle", life[s] = "live", out[s].ACCEPT > 0,
         out' = [out EXCEPT ![s].ACCEPT = @ - 1],
         NEW at \in {"replace", "done"}, ct' = [at |-> at, sock |-> s],
         UNCHANGED <<life, channel, flags, ops, handle, lists, readyAccepts,
                     tcl, accepting, fault>>
  PROVE  IInv'
<1>i. TypeOK /\ s \in Sockets /\ SocketInv(s) /\ s \notin Clients
  BY Universe DEF IInv
<1>1. /\ out' \in OutType
      /\ Total(s)' = Total(s) - 1
      /\ \A x \in Sockets : x # s => out'[x] = out[x]
  <2>1. out \in OutType /\ Dequeued(s, "ACCEPT")
    BY <1>i DEF TypeOK, OutType, Dequeued
  <2> QED BY <1>i, <2>1, DequeuedEffect, OpsAre
<1>3. ct'.at = at /\ ct'.sock = s /\ ct' \in CtType
  BY <1>i DEF CtType, CtAt
<1>5. DisconnectRef(s) = 0 /\ DisconnectRef(s)' = 0
  BY <1>i DEF DisconnectRef
<1>6. ops'[s] - Total(s)' - DisconnectRef(s)' - 1 = ops[s] - Total(s) - DisconnectRef(s)
  BY <1>1, <1>5, <1>i, Sizes
<1>7. "CLOSABLE" \in flags[s] => "CLOSING" \in flags[s]
  BY <1>i DEF SocketInv
<1> QED BY <1>i, <1>1, <1>3, <1>6, <1>7, TakeFrame DEF TypeOK

\* The replacement AcceptEx, posted or refused, preserves IInv.
LEMMA ReplaceAcceptStep ==
  ASSUME IInv, NEW s, ct.sock = s, ReplaceAccept
  PROVE  IInv'
<1>i. /\ TypeOK /\ (\A x \in Sockets : SocketInv(x)) /\ TclPlace /\ CtPlace
      /\ QueuedAreNew
  BY DEF IInv
<1>a. /\ s \in Sockets /\ s \in Listeners /\ s \notin Clients
      /\ ct.at = "replace" /\ life[s] \notin {"unused", "lastOp"}
  BY <1>i, Universe DEF ReplaceAccept, CtPlace
<1>n. PICK n \in {0, 1} :
        /\ ops' = [ops EXCEPT ![s] = @ + n]
        /\ out' = [out EXCEPT ![s].ACCEPT = @ + n]
  <2>1. out \in OutType /\ ops \in [Sockets -> Int]
    BY <1>i DEF TypeOK, OutType
  <2>2. CASE UNCHANGED <<ops, out>>
    <3>1. ops' = [ops EXCEPT ![s] = @ + 0]
      BY <2>1, <2>2
    <3>2. out' = [out EXCEPT ![s].ACCEPT = @ + 0]
      BY <2>1, <2>2, <1>a DEF OutType, Ops
    <3> QED BY <3>1, <3>2
  <2>3. CASE Counted(s, 1) /\ Posted(s, "ACCEPT")
    <3>1. out' = [out EXCEPT ![s].ACCEPT = @ + 1]
      BY <2>3, <2>1, <1>a DEF Posted, OutType, Ops
    <3> QED BY <2>3, <3>1 DEF Counted
  <2> QED BY <2>2, <2>3 DEF ReplaceAccept
<1>1. /\ out' \in OutType
      /\ Total(s)' = Total(s) + n
      /\ out'[s].DISCONNECT = out[s].DISCONNECT
      /\ \A x \in Sockets : x # s => out'[x] = out[x]
  <2>1. out \in OutType
    BY <1>i DEF TypeOK, OutType
  <2>2. out' \in OutType
    BY <2>1, <1>n, <1>a, <1>i DEF OutType, Ops
  <2>3. Total(s)' = Total(s) + n
    BY <2>1, <1>n, <1>a, <1>i DEF OutType, Ops, Total
  <2>4. /\ out'[s].DISCONNECT = out[s].DISCONNECT
        /\ \A x \in Sockets : x # s => out'[x] = out[x]
    BY <2>1, <1>n, <1>a, <1>i DEF OutType, Ops
  <2> QED BY <2>2, <2>3, <2>4
<1>o. /\ ops' \in [Sockets -> Int]
      /\ ops'[s] = ops[s] + n
      /\ \A x \in Sockets : x # s => ops'[x] = ops[x]
  BY <1>i, <1>a, <1>n DEF TypeOK
<1>3. ct'.at = "done" /\ ct'.sock = s /\ ct' \in CtType
  BY <1>a DEF ReplaceAccept, Handled, CtType, CtAt
<1>u. UNCHANGED <<life, channel, flags, handle, lists, readyAccepts, tcl, accepting, fault>>
  BY DEF ReplaceAccept
<1>t. TypeOK'
  BY <1>1, <1>o, <1>3, <1>u, <1>i, Zenon DEF TypeOK, CtType, OutType
<1>f. ASSUME NEW x \in Sockets, x # s PROVE Same(x) /\ Aside(x)
  <2>1. Same(x)
    BY <1>1, <1>o, <1>u, <1>f DEF Same
  <2>2. Aside(x)
    BY <1>a, <1>3, <1>u, <1>f DEF Aside
  <2> QED BY <2>1, <2>2
<1>s. SocketInv(s)'
  <2>1. Held(s) = 1 /\ Held(s)' = 1 /\ TclRefs(s)' = TclRefs(s)
    BY <1>a, <1>3, <1>u DEF Held, TclRefs
  <2>2. DisconnectRef(s) = 0 /\ DisconnectRef(s)' = 0
    BY <1>a DEF DisconnectRef
  <2>3. Balanced(s)
    BY <1>i, <1>a DEF SocketInv
  <2>4. Balanced(s)'
    BY <1>1, <1>o, <1>u, <1>i, <1>a, <2>1, <2>2, <2>3, Sizes DEF Balanced
  <2>5. SocketInv(s)
    BY <1>i, <1>a
  <2> QED BY <1>a, <1>u, <2>4, <2>5 DEF SocketInv
<1>p. TclPlace'
  BY <1>u, <1>i, TclFrame
<1>c. CtPlace'
  BY <1>a, <1>3, <1>u, Universe DEF CtPlace
<1> QED BY <1>a, <1>t, <1>f, <1>s, <1>p, <1>c, <1>u, OneSocket

\* The decrement at the label done of HandleIo preserves IInv.
LEMMA DoneStep ==
  ASSUME IInv, NEW s, ct.sock = s, Done
  PROVE  IInv'
<1>i. /\ TypeOK /\ (\A x \in Sockets : SocketInv(x)) /\ TclPlace /\ CtPlace
      /\ QueuedAreNew
  BY DEF IInv
<1>a. /\ s \in Sockets /\ ct.at = "done" /\ life[s] \notin {"unused", "lastOp"}
  BY <1>i, Universe DEF Done, CtPlace, TypeOK
<1>b. SocketInv(s)
  BY <1>i, <1>a
<1>o. /\ ops' \in [Sockets -> Int]
      /\ ops'[s] = ops[s] + (-1)
      /\ \A x \in Sockets : x # s => ops'[x] = ops[x]
  BY <1>i, <1>a, CountedEffect DEF TypeOK, Done
<1>3. /\ ct' \in CtType
      /\ \/ ct'.at = "idle" /\ ct'.sock = None /\ ~ (ops'[s] <= 0 /\ "CLOSABLE" \in flags[s])
         \/ ct'.at = "free" /\ ct'.sock = s /\ ops'[s] <= 0 /\ "CLOSABLE" \in flags[s]
  BY <1>a, Zenon DEF Done, CtType, CtAt, CtIdle
<1>u. UNCHANGED <<life, channel, flags, out, handle, lists, readyAccepts, tcl, accepting, fault>>
  BY DEF Done
<1>t. TypeOK'
  BY <1>o, <1>3, <1>u, <1>i, Zenon DEF TypeOK, CtType, OutType
<1>f. ASSUME NEW x \in Sockets, x # s PROVE Same(x) /\ Aside(x)
  <2>1. Same(x)
    BY <1>o, <1>u, <1>f DEF Same
  <2>2. Aside(x)
    BY <1>a, <1>3, <1>u, <1>f, Universe DEF Aside
  <2> QED BY <2>1, <2>2
<1>l. "CLOSABLE" \in flags[s] => life[s] = "live"
  BY <1>a, <1>b, <1>i DEF SocketInv, TypeOK, Freed
<1>1. Held(s) = 1 /\ Held(s)' = 0 /\ TclRefs(s)' = TclRefs(s) /\ Total(s)' = Total(s)
  BY <1>a, <1>3, <1>u, Universe DEF Held, TclRefs, Total
<1>2. (Dud(s)' <=> Dud(s)) /\ DisconnectRef(s)' = DisconnectRef(s)
  BY <1>u DEF Dud, DisconnectRef
<1>4. Balanced(s)'
  <2>1. Balanced(s)
    BY <1>b DEF SocketInv
  <2>2. DisconnectRef(s) \in Int
    BY <1>i, <1>a, Sizes DEF DisconnectRef
  <2> QED BY <1>1, <1>2, <1>o, <1>u, <1>i, <1>a, <2>1, <2>2, Sizes DEF Balanced
<1>5. s \in Clients /\ Dud(s) /\ life[s] = "live" =>
        /\ Total(s) = out[s].DISCONNECT
        /\ out[s].DISCONNECT = 0 /\ "CLOSABLE" \in flags[s] /\ ct'.at = "free"
  <2> SUFFICES ASSUME s \in Clients, Dud(s), life[s] = "live"
               PROVE  /\ Total(s) = out[s].DISCONNECT
                      /\ out[s].DISCONNECT = 0 /\ "CLOSABLE" \in flags[s] /\ ct'.at = "free"
    OBVIOUS
  <2>1. /\ Total(s) = out[s].DISCONNECT
        /\ out[s].DISCONNECT = 0 /\ "CLOSABLE" \in flags[s]
    BY <1>b, <1>a DEF SocketInv
  <2>2. TclRefs(s) = 0
    BY <1>i, <1>b DEF TclRefs, TclPlace, SocketInv, Dud
  <2>3. DisconnectRef(s) = -1
    BY <2>1 DEF DisconnectRef, Dud
  <2>4. ops[s] = 0
    BY <1>b, <1>1, <2>1, <2>2, <2>3 DEF SocketInv, Balanced
  <2> QED BY <2>1, <2>4, <1>o, <1>3
<1>s. SocketInv(s)'
  BY <1>b, <1>u, <1>1, <1>2, <1>3, <1>4, <1>5, Universe, <1>a DEF SocketInv, Quiet
<1>p. TclPlace'
  BY <1>u, <1>i, TclFrame
<1>c. CtPlace'
  BY <1>a, <1>3, <1>u, <1>l, Universe DEF CtPlace
<1> QED BY <1>a, <1>t, <1>f, <1>s, <1>p, <1>c, <1>u, OneSocket

\* Opening a socket that was not in use preserves IInv when the new socket is
\* balanced and has no flag.
LEMMA OpenFrame ==
  ASSUME IInv, TypeOK', NEW s \in Sockets, tcl.at = "idle", life[s] = "unused",
         UNCHANGED <<flags, readyAccepts, ct>>,
         \A x \in Sockets : x # s =>
           /\ life'[x] = life[x] /\ channel'[x] = channel[x]
           /\ ops'[x] = ops[x] /\ out'[x] = out[x],
         \/ /\ tcl' = tcl
            /\ \/ /\ life'[s] = "live" /\ channel'[s] = "open"
                  /\ Total(s)' = 1 /\ ops'[s] = 1 /\ out'[s].DISCONNECT = 0
               \/ /\ life'[s] \in {"unused", "openFailed"}
                  /\ channel'[s] = channel[s] /\ ops'[s] = ops[s] /\ out'[s] = out[s]
         \/ /\ s \in Listeners /\ tcl'.at = "opening" /\ tcl'.sock = s
            /\ life'[s] = "live" /\ channel'[s] = channel[s]
            /\ ops'[s] = ops[s] /\ out'[s] = out[s]
  PROVE  IInv'
<1>i. /\ TypeOK /\ (\A x \in Sockets : SocketInv(x)) /\ TclPlace /\ CtPlace
      /\ QueuedAreNew
  BY DEF IInv
<1>a. /\ tcl.sock = None /\ s # None /\ ct.sock # s
      /\ channel[s] = "never" /\ flags[s] = {} /\ Total(s) = 0 /\ ops[s] = 0
  <2>1. ct.sock # s
    BY <1>i, Universe DEF CtPlace, TypeOK, CtAt
  <2>2. channel[s] = "never" /\ flags[s] = {} /\ Total(s) = 0 /\ ops[s] = 0
    BY <1>i DEF SocketInv, Quiet
  <2> QED BY <2>1, <2>2, <1>i, Universe DEF TclPlace
<1>b. SocketInv(s) /\ out[s].DISCONNECT = 0
  BY <1>a, <1>i, Sizes
<1>f. ASSUME NEW x \in Sockets, x # s PROVE Same(x) /\ Aside(x)
  <2>1. Same(x)
    BY <1>f DEF Same
  <2>2. Aside(x)
    BY <1>f, <1>a, Universe DEF Aside
  <2> QED BY <2>1, <2>2
<1>1. Held(s)' = 0 /\ TclRefs(s)' = 0
  BY <1>a DEF Held, TclRefs
<1>2. DisconnectRef(s)' = 0
  BY <1>a DEF DisconnectRef, Dud
<1>3. out'[s] = out[s] => Total(s)' = 0 /\ out'[s].DISCONNECT = 0
  BY <1>a, <1>b DEF Total
<1>4. Balanced(s)'
  BY <1>1, <1>2, <1>3, <1>a DEF Balanced
<1>5. /\ flags'[s] = {} /\ ~ Dud(s)' /\ out'[s].DISCONNECT = 0
      /\ life'[s] \in {"unused", "live", "openFailed"}
      /\ life'[s] = "unused" => Total(s)' = 0 /\ ops'[s] = 0 /\ channel'[s] = "never"
      /\ life'[s] = "openFailed" => channel'[s] = "never"
      /\ channel'[s] # "closed"
      /\ channel'[s] = "open" => life'[s] = "live"
  BY <1>3, <1>a, <1>b DEF Dud
<1>s. SocketInv(s)'
  BY <1>4, <1>5 DEF SocketInv, Quiet
<1>p. TclPlace'
  <2>1. CASE tcl' = tcl
    BY <2>1, <1>a, <1>i DEF TclPlace
  <2>2. CASE tcl'.at = "opening" /\ tcl'.sock = s /\ s \in Listeners /\ life'[s] = "live"
             /\ channel'[s] = channel[s]
    BY <2>2, <1>a DEF TclPlace
  <2> QED BY <2>1, <2>2
<1>c. CtPlace'
  BY <1>a, <1>i, CtFrame
<1> QED BY <1>a, <1>f, <1>s, <1>p, <1>c, OneSocket

\* CreateTcpSocket for a blocking connect, in its three outcomes, preserves
\* IInv.
LEMMA OpenClientStep ==
  ASSUME IInv, NEW s \in Clients, OpenClient(s)
  PROVE  IInv'
<1>i. TypeOK /\ s \in Sockets /\ Total(s) = 0 /\ out[s].DISCONNECT = 0 /\ ops[s] = 0
  BY Universe, Sizes DEF IInv, OpenClient, SocketInv, Quiet
<1>u. UNCHANGED <<flags, readyAccepts, tcl, accepting, ct>>
  BY DEF OpenClient
<1>1. CASE /\ life' = [life EXCEPT ![s] = "live"]
           /\ channel' = [channel EXCEPT ![s] = "open"]
           /\ Counted(s, InitialRecvCount)
           /\ out' = [out EXCEPT ![s].READ = @ + InitialRecvCount]
           /\ handle' = [handle EXCEPT ![s] = TRUE]
           /\ lists' = [lists EXCEPT ![s] = TRUE]
           /\ UNCHANGED fault
  <2>1. /\ ops' \in [Sockets -> Int] /\ ops'[s] = 1
        /\ \A x \in Sockets : x # s => ops'[x] = ops[x]
    BY <1>1, <1>i, CountedEffect DEF InitialRecvCount, TypeOK
  <2>2. /\ out' \in OutType /\ Total(s)' = 1 /\ out'[s].DISCONNECT = 0
        /\ \A x \in Sockets : x # s => out'[x] = out[x]
    <3>1. out \in OutType /\ out[s].READ = 0
      BY <1>i DEF TypeOK, OutType, Ops, Total
    <3>2. Posted(s, "READ")
      BY <1>1 DEF Posted, InitialRecvCount
    <3> QED BY <3>1, <3>2, <1>i, PostedEffect, OpsAre
  <2>3. /\ life' \in [Sockets -> {"unused", "live"} \cup Freed] /\ life'[s] = "live"
        /\ channel' \in [Sockets -> {"never", "open", "closed"}] /\ channel'[s] = "open"
        /\ handle' \in [Sockets -> BOOLEAN] /\ lists' \in [Sockets -> BOOLEAN]
        /\ \A x \in Sockets : x # s => life'[x] = life[x] /\ channel'[x] = channel[x]
    BY <1>1, <1>i DEF TypeOK
  <2>t. TypeOK'
    BY <2>1, <2>2, <2>3, <1>1, <1>u, <1>i, Zenon DEF TypeOK, OutType
  <2> QED BY <2>1, <2>2, <2>3, <2>t, <1>u, <1>i, OpenFrame DEF OpenClient
<1>2. CASE /\ life' = [life EXCEPT ![s] = "openFailed"] \/ UNCHANGED life
           /\ fault' \in BOOLEAN
           /\ UNCHANGED <<channel, ops, out, handle, lists>>
  <2>3. /\ life' \in [Sockets -> {"unused", "live"} \cup Freed]
        /\ life'[s] \in {"unused", "openFailed"}
        /\ \A x \in Sockets : x # s => life'[x] = life[x]
    BY <1>2, <1>i DEF TypeOK, Freed, OpenClient
  <2>t. TypeOK'
    BY <2>3, <1>2, <1>u, <1>i, Zenon DEF TypeOK, OutType
  <2> QED BY <2>3, <2>t, <1>2, <1>u, <1>i, OpenFrame DEF OpenClient
<1>3. fault \in BOOLEAN
  BY <1>i DEF TypeOK
<1> QED BY <1>1, <1>2, <1>3 DEF OpenClient

\* CreateTcpSocket for an asynchronous connect preserves IInv.
LEMMA OpenClientAsyncStep ==
  ASSUME IInv, NEW s \in Clients, OpenClientAsync(s)
  PROVE  IInv'
<1>i. TypeOK /\ s \in Sockets /\ Total(s) = 0 /\ out[s].DISCONNECT = 0 /\ ops[s] = 0
  BY Universe, Sizes DEF IInv, OpenClientAsync, SocketInv, Quiet
<1>u. UNCHANGED <<flags, lists, readyAccepts, tcl, accepting, ct, fault>>
  BY DEF OpenClientAsync
<1>1. CASE /\ life' = [life EXCEPT ![s] = "live"]
           /\ channel' = [channel EXCEPT ![s] = "open"]
           /\ Counted(s, 1)
           /\ Posted(s, "CONNECT")
           /\ handle' = [handle EXCEPT ![s] = TRUE]
  <2>1. /\ ops' \in [Sockets -> Int] /\ ops'[s] = 1
        /\ \A x \in Sockets : x # s => ops'[x] = ops[x]
    BY <1>1, <1>i, CountedEffect DEF TypeOK
  <2>2. /\ out' \in OutType /\ Total(s)' = 1 /\ out'[s].DISCONNECT = 0
        /\ \A x \in Sockets : x # s => out'[x] = out[x]
    <3>1. out \in OutType
      BY <1>i DEF TypeOK, OutType
    <3> QED BY <3>1, <1>1, <1>i, PostedEffect, OpsAre
  <2>3. /\ life' \in [Sockets -> {"unused", "live"} \cup Freed] /\ life'[s] = "live"
        /\ channel' \in [Sockets -> {"never", "open", "closed"}] /\ channel'[s] = "open"
        /\ handle' \in [Sockets -> BOOLEAN]
        /\ \A x \in Sockets : x # s => life'[x] = life[x] /\ channel'[x] = channel[x]
    BY <1>1, <1>i DEF TypeOK
  <2>t. TypeOK'
    BY <2>1, <2>2, <2>3, <1>u, <1>i, Zenon DEF TypeOK, OutType
  <2> QED BY <2>1, <2>2, <2>3, <2>t, <1>u, <1>i, OpenFrame DEF OpenClientAsync
<1>2. CASE /\ life' = [life EXCEPT ![s] = "openFailed"]
           /\ UNCHANGED <<channel, ops, out, handle>>
  <2>3. /\ life' \in [Sockets -> {"unused", "live"} \cup Freed]
        /\ life'[s] = "openFailed"
        /\ \A x \in Sockets : x # s => life'[x] = life[x]
    BY <1>2, <1>i DEF TypeOK, Freed
  <2>t. TypeOK'
    BY <2>3, <1>2, <1>u, <1>i, Zenon DEF TypeOK, OutType
  <2> QED BY <2>3, <2>t, <1>2, <1>u, <1>i, OpenFrame DEF OpenClientAsync
<1> QED BY <1>1, <1>2 DEF OpenClientAsync

\* CreateTcpSocket for a server, up to its accepts, preserves IInv.
LEMMA OpenServerStep ==
  ASSUME IInv, NEW s \in Listeners, OpenServer(s)
  PROVE  IInv'
<1>i. TypeOK /\ s \in Sockets /\ Total(s) = 0 /\ out[s].DISCONNECT = 0 /\ ops[s] = 0
  BY Universe, Sizes DEF IInv, OpenServer, SocketInv, Quiet
<1>u. UNCHANGED <<channel, flags, ops, out, readyAccepts, accepting, ct, fault>>
  BY DEF OpenServer
<1>1. CASE /\ life' = [life EXCEPT ![s] = "live"]
           /\ handle' = [handle EXCEPT ![s] = TRUE]
           /\ lists' = [lists EXCEPT ![s] = TRUE]
           /\ tcl' = [TclIdle EXCEPT !.at = "opening", !.sock = s,
                                     !.todo = AcceptCap]
  <2>3. /\ life' \in [Sockets -> {"unused", "live"} \cup Freed] /\ life'[s] = "live"
        /\ handle' \in [Sockets -> BOOLEAN] /\ lists' \in [Sockets -> BOOLEAN]
        /\ \A x \in Sockets : x # s => life'[x] = life[x]
    BY <1>1, <1>i DEF TypeOK
  <2>4. tcl' \in TclType /\ tcl'.at = "opening" /\ tcl'.sock = s
    BY <1>1, <1>i, CapsAssumption DEF TclType, TclAt, TclIdle
  <2>t. TypeOK'
    BY <2>3, <2>4, <1>u, <1>i, Zenon DEF TypeOK, TclType
  <2> QED BY <2>3, <2>4, <2>t, <1>u, <1>i, OpenFrame DEF OpenServer
<1>2. CASE /\ life' = [life EXCEPT ![s] = "openFailed"]
           /\ UNCHANGED <<handle, lists, tcl>>
  <2>3. /\ life' \in [Sockets -> {"unused", "live"} \cup Freed]
        /\ life'[s] = "openFailed"
        /\ \A x \in Sockets : x # s => life'[x] = life[x]
    BY <1>2, <1>i DEF TypeOK, Freed
  <2>t. TypeOK'
    BY <2>3, <1>2, <1>u, <1>i, Zenon DEF TypeOK, OutType
  <2> QED BY <2>3, <2>t, <1>2, <1>u, <1>i, OpenFrame DEF OpenServer
<1> QED BY <1>1, <1>2 DEF OpenServer

\* The return of the acceptProc callback preserves IInv.
LEMMA AcceptReturnStep ==
  ASSUME IInv, AcceptReturn
  PROVE  IInv'
<1>i. /\ TypeOK /\ (\A x \in Sockets : SocketInv(x)) /\ TclPlace /\ CtPlace
      /\ QueuedAreNew
  BY DEF IInv
<1>u. /\ accepting' = None
      /\ UNCHANGED <<life, channel, flags, ops, out, handle, lists, readyAccepts,
                     tcl, ct, fault>>
  BY DEF AcceptReturn, sockVars
<1>t. TypeOK'
  BY <1>u, <1>i, Zenon DEF TypeOK
<1>1. ASSUME NEW x \in Sockets PROVE SocketInv(x)'
  BY <1>u, <1>i, Untouched DEF Same, Aside
<1>2. TclPlace'
  BY <1>u, <1>i, TclFrame
<1>3. CtPlace'
  BY <1>u, <1>i, CtFrame
<1>4. QueuedAreNew'
  BY <1>u, <1>i DEF QueuedAreNew
<1> QED BY <1>t, <1>1, <1>2, <1>3, <1>4 DEF IInv

\* IocpAcceptOne handing the head of readyAccepts to Tcl preserves IInv: that
\* client leaves the only place of the only queue it was in.
LEMMA AcceptOneStep ==
  ASSUME IInv, NEW l \in Listeners, AcceptOne(l)
  PROVE  IInv'
<1>i. /\ TypeOK /\ (\A x \in Sockets : SocketInv(x)) /\ TclPlace /\ CtPlace
      /\ QueuedAreNew
  BY DEF IInv
<1>l. l \in Sockets /\ tcl.at = "idle" /\ tcl.sock = None
  BY <1>i, Universe DEF AcceptOne, TclPlace
<1>q. /\ readyAccepts \in [Sockets -> Seq(Clients)]
      /\ readyAccepts[l] \in Seq(Clients) /\ readyAccepts[l] # <<>>
      /\ 1 \in DOMAIN readyAccepts[l]
  BY <1>i, <1>l DEF AcceptOne, TypeOK
<1>c. PICK c \in Clients : c = readyAccepts[l][1] /\ c = Head(readyAccepts[l])
  BY <1>q
<1>a. /\ c \in Sockets /\ c # None /\ c \notin Listeners
      /\ life[c] = "live" /\ channel[c] = "never" /\ flags[c] = {}
  BY <1>c, <1>q, <1>i, <1>l, Universe DEF QueuedAreNew
<1>u. /\ channel' = [channel EXCEPT ![c] = "open"]
      /\ readyAccepts' = [readyAccepts EXCEPT ![l] = Tail(@)]
      /\ accepting' = l
      /\ UNCHANGED <<life, flags, ops, out, handle, lists, tcl, ct, fault>>
  BY <1>c DEF AcceptOne
<1>1. /\ channel' \in [Sockets -> {"never", "open", "closed"}]
      /\ channel'[c] = "open"
      /\ \A x \in Sockets : x # c => channel'[x] = channel[x]
  BY <1>a, <1>u, <1>i DEF TypeOK
<1>2. /\ readyAccepts' \in [Sockets -> Seq(Clients)]
      /\ \A j \in DOMAIN readyAccepts'[l] :
           j + 1 \in DOMAIN readyAccepts[l] /\ j # 0
             /\ readyAccepts'[l][j] = readyAccepts[l][j + 1]
      /\ \A k \in Sockets : k # l => readyAccepts'[k] = readyAccepts[k]
  <2>1. /\ readyAccepts'[l] = Tail(readyAccepts[l])
        /\ \A k \in Sockets : k # l => readyAccepts'[k] = readyAccepts[k]
    BY <1>u, <1>q, <1>l
  <2>2. Tail(readyAccepts[l]) \in Seq(Clients)
    BY <1>q
  <2>3. readyAccepts' \in [Sockets -> Seq(Clients)]
    BY <2>2, <1>u, <1>q, <1>l
  <2>4. \A j \in DOMAIN Tail(readyAccepts[l]) :
           j + 1 \in DOMAIN readyAccepts[l] /\ j # 0
             /\ Tail(readyAccepts[l])[j] = readyAccepts[l][j + 1]
    BY <1>q
  <2> QED BY <2>1, <2>3, <2>4
<1>t. TypeOK'
  BY <1>1, <1>2, <1>u, <1>i, Zenon DEF TypeOK
<1>f. ASSUME NEW x \in Sockets, x # c PROVE Same(x) /\ Aside(x)
  BY <1>f, <1>1, <1>u DEF Same, Aside
<1>s. SocketInv(c)'
  <2>1. /\ Total(c)' = Total(c) /\ Held(c)' = Held(c) /\ TclRefs(c)' = TclRefs(c)
    BY <1>u DEF Total, Held, TclRefs
  <2>2. DisconnectRef(c) = 0 /\ DisconnectRef(c)' = 0
    BY <1>a, <1>1, <1>u DEF DisconnectRef, Dud
  <2>3. SocketInv(c) /\ Balanced(c)
    BY <1>a, <1>i DEF SocketInv
  <2>4. Balanced(c)'
    BY <2>1, <2>2, <2>3, <1>u, <1>a DEF Balanced
  <2> QED BY <2>3, <2>4, <1>a, <1>1, <1>u DEF SocketInv, Dud
<1>p. TclPlace'
  BY <1>l, <1>u DEF TclPlace
<1>d. CtPlace'
  BY <1>u, <1>i, CtFrame
<1>3. ASSUME NEW k \in Sockets, NEW j \in DOMAIN readyAccepts'[k]
      PROVE  \E i \in DOMAIN readyAccepts[k] :
               /\ readyAccepts'[k][j] = readyAccepts[k][i]
               /\ i = (IF k = l THEN j + 1 ELSE j)
               /\ readyAccepts[k][i] # c /\ readyAccepts[k][i] \in Clients
  <2>1. CASE k = l
    <3>1. j + 1 \in DOMAIN readyAccepts[l] /\ j + 1 # 1
             /\ readyAccepts'[l][j] = readyAccepts[l][j + 1]
      BY <2>1, <1>2, <1>q
    <3>2. readyAccepts[l][j + 1] # c
      BY <3>1, <1>c, <1>q, <1>l, <1>i DEF QueuedAreNew
    <3>3. readyAccepts[l][j + 1] \in Clients
      BY <3>1, <1>q
    <3> QED BY <2>1, <3>1, <3>2, <3>3
  <2>2. CASE k # l
    <3>1. readyAccepts'[k] = readyAccepts[k]
      BY <2>2, <1>2
    <3>2. readyAccepts[k][j] # c
      BY <2>2, <3>1, <1>c, <1>q, <1>l, <1>i DEF QueuedAreNew
    <3>3. readyAccepts[k][j] \in Clients
      BY <3>1, <1>q
    <3> QED BY <2>2, <3>1, <3>2, <3>3
  <2> QED BY <2>1, <2>2
<1>4. QueuedAreNew'
  <2> SUFFICES ASSUME NEW m \in Sockets, NEW i \in DOMAIN readyAccepts'[m]
               PROVE  /\ life'[readyAccepts'[m][i]] = "live"
                      /\ channel'[readyAccepts'[m][i]] = "never"
                      /\ flags'[readyAccepts'[m][i]] = {}
                      /\ \A k \in Sockets : \A j \in DOMAIN readyAccepts'[k] :
                           readyAccepts'[k][j] = readyAccepts'[m][i] => k = m /\ j = i
    BY DEF QueuedAreNew
  <2>1. PICK i2 \in DOMAIN readyAccepts[m] :
               /\ readyAccepts'[m][i] = readyAccepts[m][i2]
               /\ i2 = (IF m = l THEN i + 1 ELSE i)
               /\ readyAccepts[m][i2] # c /\ readyAccepts[m][i2] \in Sockets
    BY <1>3, Universe
  <2>2. /\ life'[readyAccepts'[m][i]] = "live"
        /\ channel'[readyAccepts'[m][i]] = "never"
        /\ flags'[readyAccepts'[m][i]] = {}
    <3>1. PICK x \in Sockets : x = readyAccepts[m][i2] /\ x # c
      BY <2>1
    <3>2. life[x] = "live" /\ channel[x] = "never" /\ flags[x] = {}
      BY <3>1, <1>i DEF QueuedAreNew
    <3> QED BY <3>1, <3>2, <2>1, <1>1, <1>u
  <2>3. ASSUME NEW k \in Sockets, NEW j \in DOMAIN readyAccepts'[k],
               readyAccepts'[k][j] = readyAccepts'[m][i]
        PROVE  k = m /\ j = i
    <3>1. PICK j2 \in DOMAIN readyAccepts[k] :
               /\ readyAccepts'[k][j] = readyAccepts[k][j2]
               /\ j2 = (IF k = l THEN j + 1 ELSE j)
      BY <1>3
    <3>2. k = m /\ j2 = i2
      BY <2>1, <2>3, <3>1, <1>i DEF QueuedAreNew
    <3>3. i \in Int /\ j \in Int
      BY <1>2
    <3> QED BY <2>1, <3>1, <3>2, <3>3
  <2> QED BY <2>2, <2>3
<1> QED
  <2>1. \A x \in Sockets : SocketInv(x)'
    BY <1>f, <1>s, <1>i, Untouched
  <2> QED BY <2>1, <1>t, <1>p, <1>d, <1>4 DEF IInv

\* FreeSocketInfo frees its socket and the connections in its queue.
LEMMA FreedEffect ==
  ASSUME TypeOK, NEW s \in Sockets, NEW why \in Freed,
         \A i \in DOMAIN readyAccepts[s] : readyAccepts[s][i] # s,
         FreeSocketInfo(s, why), ~ (lists[s] /\ EmptyPopFaults)
  PROVE  /\ life' \in [Sockets -> {"unused", "live"} \cup Freed]
         /\ life'[s] = why
         /\ \A x \in Queued(s) : x \in Sockets /\ x # s /\ life'[x] = "drained"
         /\ \A x \in Sockets : x # s /\ x \notin Queued(s) => life'[x] = life[x]
         /\ handle' \in [Sockets -> BOOLEAN]
         /\ readyAccepts' \in [Sockets -> Seq(Clients)]
         /\ readyAccepts'[s] = <<>>
         /\ \A k \in Sockets : k # s => readyAccepts'[k] = readyAccepts[k]
         /\ UNCHANGED fault
<1>1. /\ life' = [x \in Sockets |-> IF x = s THEN why
                                    ELSE IF x \in {s} \cup Queued(s) THEN "drained"
                                    ELSE life[x]]
      /\ handle' = [x \in Sockets |-> handle[x] /\ x \notin {s} \cup Queued(s)]
      /\ readyAccepts' = [readyAccepts EXCEPT ![s] = <<>>]
      /\ UNCHANGED fault
  BY Zenon DEF FreeSocketInfo
<1>2. /\ life \in [Sockets -> {"unused", "live"} \cup Freed]
      /\ readyAccepts \in [Sockets -> Seq(Clients)]
  BY DEF TypeOK
<1>3. \A x \in Queued(s) : x \in Sockets /\ x # s
  BY <1>2, Universe DEF Queued
<1>4. life' \in [Sockets -> {"unused", "live"} \cup Freed]
  BY <1>1, <1>2 DEF Freed
<1>5. /\ life'[s] = why
      /\ \A x \in Queued(s) : life'[x] = "drained"
      /\ \A x \in Sockets : x # s /\ x \notin Queued(s) => life'[x] = life[x]
  BY <1>1, <1>3
<1>6. handle' \in [Sockets -> BOOLEAN]
  BY <1>1
<1>7. /\ readyAccepts' \in [Sockets -> Seq(Clients)]
      /\ readyAccepts'[s] = <<>>
      /\ \A k \in Sockets : k # s => readyAccepts'[k] = readyAccepts[k]
  BY <1>1, <1>2
<1> QED BY <1>1, <1>3, <1>4, <1>5, <1>6, <1>7

\* A step of either thread that calls FreeSocketInfo without a fault preserves
\* IInv when the freed socket may be freed and no thread is left inside it.
LEMMA FreeFrame ==
  ASSUME IInv, NEW s \in Sockets, NEW why \in Freed,
         \A k \in Sockets : \A i \in DOMAIN readyAccepts[k] : readyAccepts[k][i] # s,
         FreeSocketInfo(s, why), ~ (lists[s] /\ EmptyPopFaults),
         UNCHANGED <<channel, flags, ops, out, lists, accepting>>,
         tcl' \in TclType, ct' \in CtType,
         \A x \in Sockets : x # s /\ x \notin Queued(s) => Aside(x),
         SocketInv(s)', TclPlace', CtPlace'
  PROVE  IInv'
<1>i. /\ TypeOK /\ (\A x \in Sockets : SocketInv(x)) /\ QueuedAreNew
  BY DEF IInv
<1>1. /\ life' \in [Sockets -> {"unused", "live"} \cup Freed]
      /\ life'[s] = why
      /\ \A x \in Queued(s) : x \in Sockets /\ x # s /\ life'[x] = "drained"
      /\ \A x \in Sockets : x # s /\ x \notin Queued(s) => life'[x] = life[x]
      /\ handle' \in [Sockets -> BOOLEAN]
      /\ readyAccepts' \in [Sockets -> Seq(Clients)]
      /\ readyAccepts'[s] = <<>>
      /\ \A k \in Sockets : k # s => readyAccepts'[k] = readyAccepts[k]
      /\ UNCHANGED fault
  BY <1>i, FreedEffect
<1>t. TypeOK'
  BY <1>1, <1>i, Zenon DEF TypeOK, TclType, CtType
<1>2. ASSUME NEW x \in Queued(s) PROVE SocketInv(x)'
  <2>1. x \in Sockets /\ x # s /\ life'[x] = "drained"
    BY <1>1
  <2>2. life[x] = "live" /\ channel[x] = "never" /\ flags[x] = {}
    BY <1>i DEF Queued, QueuedAreNew
  <2>3. x \in Clients => out[x].DISCONNECT = 0
    BY <2>1, <2>2, <1>i DEF SocketInv
  <2> QED BY <2>1, <2>2, <2>3 DEF SocketInv, Balanced, Dud
<1>3. ASSUME NEW x \in Sockets, x # s, x \notin Queued(s) PROVE SocketInv(x)'
  BY <1>1, <1>3, <1>i, Untouched DEF Same
<1>4. QueuedAreNew'
  <2> SUFFICES ASSUME NEW m \in Sockets, NEW i \in DOMAIN readyAccepts'[m]
               PROVE  /\ life'[readyAccepts'[m][i]] = "live"
                      /\ channel'[readyAccepts'[m][i]] = "never"
                      /\ flags'[readyAccepts'[m][i]] = {}
                      /\ \A k \in Sockets : \A j \in DOMAIN readyAccepts'[k] :
                           readyAccepts'[k][j] = readyAccepts'[m][i] => k = m /\ j = i
    BY DEF QueuedAreNew
  <2>1. ASSUME NEW k \in Sockets, NEW j \in DOMAIN readyAccepts'[k]
        PROVE  k # s /\ readyAccepts'[k] = readyAccepts[k]
    <3>1. k # s
      BY <1>1, <2>1
    <3> QED BY <3>1, <1>1
  <2>2. m # s /\ readyAccepts'[m] = readyAccepts[m] /\ i \in DOMAIN readyAccepts[m]
    BY <2>1
  <2>3. PICK x \in Sockets : x = readyAccepts[m][i]
    BY <2>2, <1>i, Universe DEF TypeOK
  <2>4. x # s /\ x \notin Queued(s)
    BY <2>2, <2>3, <1>i DEF Queued, QueuedAreNew
  <2>5. life[x] = "live" /\ channel[x] = "never" /\ flags[x] = {}
    BY <2>2, <2>3, <1>i DEF QueuedAreNew
  <2>6. life'[x] = "live"
    BY <2>4, <2>5, <1>1
  <2>7. \A k \in Sockets : \A j \in DOMAIN readyAccepts'[k] :
           readyAccepts'[k][j] = readyAccepts'[m][i] => k = m /\ j = i
    BY <2>1, <2>2, <1>i DEF QueuedAreNew
  <2> QED BY <2>2, <2>3, <2>5, <2>6, <2>7
<1> QED
  <2>1. \A x \in Sockets : SocketInv(x)'
    BY <1>2, <1>3
  <2> QED BY <2>1, <1>t, <1>4 DEF IInv

\* A step that ends in an access violation and changes nothing else preserves
\* IInv.
LEMMA FaultOnly ==
  ASSUME IInv, fault' = TRUE,
         UNCHANGED <<life, channel, flags, ops, out, handle, lists, readyAccepts,
                     accepting, ct>>,
         tcl' = tcl \/ (tcl.at = "opening" /\ tcl' = TclIdle)
  PROVE  IInv'
<1>i. /\ TypeOK /\ (\A x \in Sockets : SocketInv(x)) /\ TclPlace /\ CtPlace
      /\ QueuedAreNew
  BY DEF IInv
<1>1. tcl' \in TclType
  BY <1>i DEF TypeOK, TclType, TclIdle, TclAt
<1>t. TypeOK'
  BY <1>1, <1>i, Zenon DEF TypeOK, TclType
<1>2. ASSUME NEW x \in Sockets PROVE SocketInv(x)'
  <2>1. TclRefs(x)' = TclRefs(x)
    BY Universe DEF TclRefs, TclIdle
  <2>2. /\ Total(x)' = Total(x) /\ Held(x)' = Held(x) /\ (Dud(x)' <=> Dud(x))
        /\ DisconnectRef(x)' = DisconnectRef(x)
    BY DEF Total, Held, Dud, DisconnectRef
  <2>3. SocketInv(x) /\ Balanced(x)
    BY <1>i DEF SocketInv
  <2>4. Balanced(x)'
    BY <2>1, <2>2, <2>3 DEF Balanced
  <2> QED BY <2>2, <2>3, <2>4 DEF SocketInv, Quiet
<1>3. TclPlace'
  BY <1>i DEF TclPlace, TclIdle
<1>4. CtPlace'
  BY <1>i, CtFrame
<1>5. QueuedAreNew'
  BY <1>i DEF QueuedAreNew
<1> QED BY <1>t, <1>2, <1>3, <1>4, <1>5 DEF IInv

\* The balance at the heart of it: when the count of a closable socket is not
\* above zero and HandleIo is about to free it, Winsock has nothing of it.
LEMMA FreeIsQuiet ==
  ASSUME IInv, NEW s, ct.sock = s, ct.at = "free"
  PROVE  s \in Sockets /\ life[s] = "live" /\ "CLOSABLE" \in flags[s]
           /\ Total(s) = 0 /\ TclRefs(s) = 0
<1>i. /\ TypeOK /\ TclPlace /\ CtPlace /\ \A x \in Sockets : SocketInv(x)
  BY DEF IInv
<1>1. s \in Sockets /\ life[s] = "live" /\ ops[s] <= 0 /\ "CLOSABLE" \in flags[s]
  BY <1>i, Universe DEF CtPlace, TypeOK
<1>2. SocketInv(s) /\ Balanced(s)
  BY <1>1, <1>i DEF SocketInv
<1>3. CASE s \in Clients /\ Dud(s)
  <2>1. Total(s) = 0
    BY <1>3, <1>1, <1>2 DEF SocketInv
  <2>2. TclRefs(s) = 0
    BY <1>3, <1>i, <1>1, Universe DEF TclRefs, TclPlace, Dud
  <2> QED BY <2>1, <2>2, <1>1
<1>4. CASE ~ (s \in Clients /\ Dud(s))
  <2>1. Held(s) = 0
    BY DEF Held
  <2>2. DisconnectRef(s) >= 0 /\ DisconnectRef(s) \in Int
    BY <1>4, <1>1, <1>i, Sizes DEF DisconnectRef
  <2> QED BY <1>1, <1>2, <1>i, <2>1, <2>2, Sizes DEF Balanced
<1> QED BY <1>3, <1>4

\* FreeSocketInfo for "the last operation" preserves IInv.
LEMMA FreeLastStep ==
  ASSUME IInv, ~ fault, NEW s, ct.sock = s, FreeLast
  PROVE  IInv'
<1>i. /\ TypeOK /\ (\A x \in Sockets : SocketInv(x)) /\ TclPlace /\ CtPlace
      /\ QueuedAreNew
  BY DEF IInv
<1>a. /\ s \in Sockets /\ ct.at = "free" /\ life[s] = "live" /\ "CLOSABLE" \in flags[s]
      /\ Total(s) = 0 /\ TclRefs(s) = 0
  BY FreeIsQuiet DEF FreeLast
<1>b. SocketInv(s) /\ "CLOSING" \in flags[s]
  BY <1>a, <1>i DEF SocketInv
<1>u. UNCHANGED <<channel, flags, ops, out, lists, tcl, accepting>>
  BY DEF FreeLast
<1>w. FreeSocketInfo(s, "lastOp") /\ ct' = IF fault' THEN ct ELSE CtIdle
  BY DEF FreeLast
<1>1. CASE lists[s] /\ EmptyPopFaults
  <2>1. fault' = TRUE /\ UNCHANGED <<life, handle, readyAccepts>>
    BY <1>1, <1>w DEF FreeSocketInfo
  <2> QED BY <2>1, <1>w, <1>u, FaultOnly
<1>2. CASE ~ (lists[s] /\ EmptyPopFaults)
  <2>q. \A k \in Sockets : \A i \in DOMAIN readyAccepts[k] : readyAccepts[k][i] # s
    BY <1>b, <1>i DEF QueuedAreNew
  <2>w. "lastOp" \in Freed
    BY DEF Freed
  <2>1. /\ life'[s] = "lastOp"
        /\ \A x \in Queued(s) : x \in Sockets /\ x # s /\ life'[x] = "drained"
        /\ \A x \in Sockets : x # s /\ x \notin Queued(s) => life'[x] = life[x]
        /\ UNCHANGED fault
    BY <1>w, <1>2, <1>a, <1>i, <2>q, <2>w, FreedEffect
  <2>2. ct' = CtIdle /\ ct' \in CtType /\ ct'.at = "idle" /\ ct'.sock = None
    BY <1>w, <2>1 DEF CtIdle, CtType, CtAt
  <2>3. tcl' \in TclType
    BY <1>u, <1>i DEF TypeOK, TclType
  <2>f. \A x \in Sockets : x # s => Aside(x)
    BY <1>u, <2>2, Universe DEF Aside
  <2>s. SocketInv(s)'
    <3>1. Total(s)' = 0
      BY <1>a, <1>u DEF Total
    <3> QED BY <3>1, <2>1, <2>2, <1>a, <1>b, <1>u
        DEF SocketInv, Balanced, Quiet, Dud, Freed
  <2>4. \A x \in Queued(s) : x \in Clients /\ channel[x] = "never"
    BY <1>a, <1>i DEF Queued, QueuedAreNew, TypeOK
  <2>p. TclPlace'
    <3>1. tcl.at # "idle" => tcl.sock \in Sockets
      BY <1>i DEF TypeOK, TclPlace
    <3>2. tcl.sock = s => tcl.at \in {"opening", "closeSocket", "idle"}
      BY <1>a, <1>i, <1>b DEF TclRefs, TclPlace, TypeOK, TclAt
    <3>3. ~ (tcl.sock = s /\ tcl.at = "opening")
      BY <1>a, <1>b, <1>i DEF TclPlace, SocketInv
    <3>4. tcl.at \in {"opening", "closeCount", "closePost", "closeMark", "closeDrop"}
            => tcl.sock # s /\ tcl.sock \notin Queued(s)
      BY <3>2, <3>3, <2>4, <1>i, Universe DEF TclPlace
    <3>5. tcl.at \in {"opening", "closeCount", "closePost", "closeMark", "closeDrop"}
            => life'[tcl.sock] = life[tcl.sock]
      BY <3>1, <3>4, <2>1
    <3> QED BY <3>5, <1>u, <1>i DEF TclPlace
  <2>c. CtPlace'
    BY <2>2 DEF CtPlace
  <2> QED BY <1>a, <1>u, <1>w, <1>2, <2>q, <2>w, <2>2, <2>3, <2>f, <2>s, <2>p, <2>c,
      FreeFrame
<1> QED BY <1>1, <1>2

\* One turn of the loop that posts the first accepts of a listener preserves
\* IInv, its failure that frees the listener included.
LEMMA OpenServerPostStep ==
  ASSUME IInv, ~ fault, NEW s, tcl.sock = s, OpenServerPost
  PROVE  IInv'
<1>i. /\ TypeOK /\ (\A x \in Sockets : SocketInv(x)) /\ TclPlace /\ CtPlace
      /\ QueuedAreNew
  BY DEF IInv
<1>a. /\ tcl.at = "opening" /\ tcl.todo > 0 /\ s \in Listeners /\ s \in Sockets
      /\ s # None /\ s \notin Clients /\ life[s] = "live" /\ channel[s] = "never"
  BY <1>i, Universe DEF TclPlace, OpenServerPost
<1>b. SocketInv(s) /\ flags[s] = {}
  BY <1>a, <1>i DEF SocketInv
<1>u. UNCHANGED <<channel, flags, lists, accepting, ct>>
  BY DEF OpenServerPost
<1>1. CASE /\ Counted(s, 1)
           /\ Posted(s, "ACCEPT")
           /\ tcl' = [tcl EXCEPT !.todo = @ - 1]
           /\ UNCHANGED <<life, handle, readyAccepts, fault>>
  <2>1. /\ ops' \in [Sockets -> Int]
        /\ ops'[s] = ops[s] + 1
        /\ \A x \in Sockets : x # s => ops'[x] = ops[x]
    BY <1>1, <1>a, <1>i, CountedEffect DEF TypeOK
  <2>2. /\ out' \in OutType
        /\ Total(s)' = Total(s) + 1
        /\ \A x \in Sockets : x # s => out'[x] = out[x]
    BY <1>1, <1>a, <1>i, PostedEffect, OpsAre DEF TypeOK, OutType
  <2>3. tcl' \in TclType /\ tcl'.sock = s /\ tcl'.at = "opening"
    <3>1. tcl \in TclType
      BY <1>i DEF TypeOK, TclType
    <3>2. tcl.todo - 1 \in Nat
      BY <3>1, <1>a DEF TclType
    <3>3. tcl' = [at |-> tcl.at, sock |-> tcl.sock, todo |-> tcl.todo - 1, op |-> tcl.op]
      BY <3>1, <1>1 DEF TclType
    <3> QED BY <3>1, <3>2, <3>3, <1>a DEF TclType
  <2>t. TypeOK'
    BY <2>1, <2>2, <2>3, <1>1, <1>u, <1>i, Zenon DEF TypeOK, TclType, OutType
  <2>f. ASSUME NEW x \in Sockets, x # s PROVE Same(x) /\ Aside(x)
    BY <2>f, <2>1, <2>2, <2>3, <1>1, <1>u DEF Same, Aside
  <2>s. SocketInv(s)'
    <3>1. Held(s)' = Held(s) /\ TclRefs(s)' = 0 /\ TclRefs(s) = 0
      BY <1>a, <1>u, <2>3 DEF Held, TclRefs
    <3>2. DisconnectRef(s) = 0 /\ DisconnectRef(s)' = 0
      BY <1>a DEF DisconnectRef
    <3>3. Balanced(s)
      BY <1>b DEF SocketInv
    <3>4. Balanced(s)'
      BY <3>1, <3>2, <3>3, <2>1, <2>2, <1>1, <1>a, <1>i, Sizes DEF Balanced
    <3> QED BY <3>4, <1>a, <1>b, <1>1, <1>u DEF SocketInv
  <2>p. TclPlace'
    BY <1>a, <1>1, <1>u, <2>3 DEF TclPlace
  <2>c. CtPlace'
    BY <1>a, <1>b, <1>u, <1>1, <1>i, <2>1, CtFrame
  <2> QED BY <1>1, <1>a, <2>t, <2>f, <2>s, <2>p, <2>c, OneSocket
<1>2. CASE /\ FreeSocketInfo(s, "openFailed")
           /\ tcl' = TclIdle
           /\ UNCHANGED <<ops, out>>
  <2>1. CASE lists[s] /\ EmptyPopFaults
    <3>1. fault' = TRUE /\ UNCHANGED <<life, handle, readyAccepts>>
      BY <1>2, <2>1 DEF FreeSocketInfo
    <3> QED BY <3>1, <1>2, <1>a, <1>u, FaultOnly
  <2>2. CASE ~ (lists[s] /\ EmptyPopFaults)
    <3>q. \A k \in Sockets : \A i \in DOMAIN readyAccepts[k] : readyAccepts[k][i] # s
      BY <1>a, <1>i, Universe DEF TypeOK
    <3>w. "openFailed" \in Freed
      BY DEF Freed
    <3>1. /\ life'[s] = "openFailed"
          /\ \A x \in Queued(s) : x \in Sockets /\ x # s /\ life'[x] = "drained"
          /\ \A x \in Sockets : x # s /\ x \notin Queued(s) => life'[x] = life[x]
      BY <1>2, <2>2, <1>a, <1>i, <3>q, <3>w, FreedEffect
    <3>2. tcl' \in TclType /\ tcl'.at = "idle" /\ tcl'.sock = None
      BY <1>2 DEF TclType, TclIdle, TclAt
    <3>3. ct' \in CtType
      BY <1>u, <1>i DEF TypeOK, CtType
    <3>f. \A x \in Sockets : x # s => Aside(x)
      BY <1>u, <1>a, <3>2, Universe DEF Aside
    <3>s. SocketInv(s)'
      BY <3>1, <1>a, <1>b, <1>u DEF SocketInv, Balanced, Freed
    <3>p. TclPlace'
      BY <3>2 DEF TclPlace
    <3>c. CtPlace'
      <4>1. \A x \in Sockets : flags[x] # {} => x # s /\ x \notin Queued(s)
        BY <1>b, <1>a, <1>i DEF Queued, QueuedAreNew
      <4>2. \A x \in Sockets : life[x] \notin {"unused", "lastOp"} => life'[x] \notin {"unused", "lastOp"}
        BY <3>1
      <4>3. \A x \in Sockets : "CLOSABLE" \in flags[x] => life'[x] = life[x]
        BY <4>1, <3>1
      <4> QED BY <4>2, <4>3, <1>2, <1>u, <1>i, CtFrame
    <3> QED BY <1>a, <1>u, <1>2, <2>2, <3>q, <3>w, <3>2, <3>3, <3>f, <3>s, <3>p, <3>c,
        FreeFrame
  <2> QED BY <2>1, <2>2
<1> QED BY <1>1, <1>2 DEF OpenServerPost

\* When the total is zero each kind of operation is.
LEMMA NothingOut ==
  ASSUME NEW r \in [Ops -> Nat],
         r.ACCEPT + r.READ + r.WRITE + r.CONNECT + r.DISCONNECT = 0
  PROVE  /\ r.ACCEPT = 0 /\ r.READ = 0 /\ r.WRITE = 0
         /\ r.CONNECT = 0 /\ r.DISCONNECT = 0
<1> DEFINE a == r.ACCEPT
           b == r.READ
           c == r.WRITE
           d == r.CONNECT
           e == r.DISCONNECT
<1>1. a \in Nat /\ b \in Nat /\ c \in Nat /\ d \in Nat /\ e \in Nat
  BY DEF Ops
<1>2. a + b + c + d + e = 0
  OBVIOUS
<1> HIDE DEF a, b, c, d, e
<1>3. a = 0 /\ b = 0 /\ c = 0 /\ d = 0 /\ e = 0
  BY <1>1, <1>2
<1> QED BY <1>3 DEF a, b, c, d, e

\* HandleIo at OP_ACCEPT with a connection, good or a dud, preserves IInv.
LEMMA AcceptedStep ==
  ASSUME IInv, NEW l \in Listeners, NEW c \in Clients,
         ct.at = "idle", life[l] = "live", out[l].ACCEPT > 0,
         Accepted(l, c), ct' = [at |-> "replace", sock |-> l],
         UNCHANGED <<channel, tcl, accepting, fault>>
  PROVE  IInv'
<1>i. /\ TypeOK /\ (\A x \in Sockets : SocketInv(x)) /\ TclPlace /\ CtPlace
      /\ QueuedAreNew
  BY DEF IInv
<1>a. l \in Sockets /\ c \in Sockets /\ l # c /\ l \notin Clients /\ l # None /\ c # None
  BY Universe
<1>b. /\ life[c] = "unused" /\ channel[c] = "never" /\ flags[c] = {}
      /\ Total(c) = 0 /\ out[c].DISCONNECT = 0
      /\ SocketInv(c) /\ SocketInv(l)
  <2>1. life[c] = "unused" /\ SocketInv(c) /\ SocketInv(l)
    BY <1>a, <1>i DEF Accepted
  <2>2. channel[c] = "never" /\ flags[c] = {} /\ Total(c) = 0
    BY <2>1 DEF SocketInv, Quiet
  <2> QED BY <2>1, <2>2, <1>a, <1>i, Sizes
<1>1. /\ life' \in [Sockets -> {"unused", "live"} \cup Freed]
      /\ life'[c] = "live"
      /\ \A x \in Sockets : x # c => life'[x] = life[x]
      /\ handle' \in [Sockets -> BOOLEAN]
      /\ lists' \in [Sockets -> BOOLEAN]
  BY <1>a, <1>i DEF Accepted, TypeOK
<1>2. ct' \in CtType /\ ct'.at = "replace" /\ ct'.sock = l
  BY <1>a DEF CtType, CtAt
<1>3. \* the two ways a connection ends up
      PICK d \in {0, 1} :
        /\ ops' = [ops EXCEPT ![c] = 1]
        /\ \/ /\ d = 1
              /\ flags' = [flags EXCEPT ![c] = {"CLOSING"}]
              /\ out' = [out EXCEPT ![l].ACCEPT = @ - 1, ![c].READ = 0,
                                    ![c].DISCONNECT = 1]
              /\ readyAccepts' = readyAccepts
           \/ /\ d = 0
              /\ flags' = [flags EXCEPT ![c] = {}]
              /\ out' = [out EXCEPT ![l].ACCEPT = @ - 1, ![c].READ = 1]
              /\ readyAccepts' = [readyAccepts EXCEPT ![l] = Append(@, c)]
  <2>1. CASE /\ ops' = [ops EXCEPT ![c] = InitialRecvCount]
             /\ out' = [out EXCEPT ![l].ACCEPT = @ - 1, ![c].READ = InitialRecvCount]
             /\ readyAccepts' = [readyAccepts EXCEPT ![l] = Append(@, c)]
             /\ UNCHANGED flags
    <3>1. flags' = [flags EXCEPT ![c] = {}]
      BY <2>1, <1>a, <1>b, <1>i DEF TypeOK
    <3> QED BY <2>1, <3>1 DEF InitialRecvCount
  <2>2. ASSUME NEW i \in 0 .. InitialRecvCount - 1,
               ops' = [ops EXCEPT ![c] = i + 1],
               out' = [out EXCEPT ![l].ACCEPT = @ - 1, ![c].READ = i,
                                  ![c].DISCONNECT = 1],
               flags' = [flags EXCEPT ![c] = {"CLOSING"}],
               UNCHANGED readyAccepts
        PROVE  /\ ops' = [ops EXCEPT ![c] = 1]
               /\ out' = [out EXCEPT ![l].ACCEPT = @ - 1, ![c].READ = 0,
                                     ![c].DISCONNECT = 1]
    <3>1. i = 0
      BY DEF InitialRecvCount
    <3> QED BY <2>2, <3>1
  <2> QED BY <2>1, <2>2 DEF Accepted
<1>4. /\ out' \in OutType
      /\ Total(l)' = Total(l) - 1
      /\ Total(c)' = 1 /\ out'[c].DISCONNECT = d
      /\ \A x \in Sockets : x # l /\ x # c => out'[x] = out[x]
  <2>0. out \in OutType /\ out[l] \in [Ops -> Nat] /\ out[c] \in [Ops -> Nat]
    BY <1>a, <1>i DEF TypeOK, OutType
  <2>r. PICK r \in [Ops -> Nat] : r = [out[l] EXCEPT !.ACCEPT = @ - 1]
    <3>1. out[l].ACCEPT - 1 \in Nat
      BY <2>0, OpsAre
    <3>2. [out[l] EXCEPT !.ACCEPT = out[l].ACCEPT - 1] \in [Ops -> Nat]
      BY <2>0, <3>1
    <3> QED BY <3>2
  <2>q. PICK q \in [Ops -> Nat] :
          q = IF d = 1 THEN [[out[c] EXCEPT !.READ = 0] EXCEPT !.DISCONNECT = 1]
                       ELSE [out[c] EXCEPT !.READ = 1]
    <3>1. [out[c] EXCEPT !.READ = 0] \in [Ops -> Nat] /\ [out[c] EXCEPT !.READ = 1] \in [Ops -> Nat]
      BY <2>0
    <3>2. [[out[c] EXCEPT !.READ = 0] EXCEPT !.DISCONNECT = 1] \in [Ops -> Nat]
      BY <3>1
    <3> QED BY <3>1, <3>2
  <2>1. out' = [out EXCEPT ![l] = r, ![c] = q]
    <3>1. CASE d = 1
      <4>1. out' = [out EXCEPT ![l].ACCEPT = @ - 1, ![c].READ = 0,
                               ![c].DISCONNECT = 1]
        BY <3>1, <1>3
      <4>2. q = [[out[c] EXCEPT !.READ = 0] EXCEPT !.DISCONNECT = 1]
        BY <3>1, <2>q
      <4> QED BY <4>1, <4>2, <1>a, <2>0, <2>r DEF OutType, Ops
    <3>2. CASE d = 0
      <4>1. out' = [out EXCEPT ![l].ACCEPT = @ - 1, ![c].READ = 1]
        <5>1. d # 1
          BY <3>2
        <5> QED BY <5>1, <1>3, Zenon
      <4>2. q = [out[c] EXCEPT !.READ = 1]
        BY <3>2, <2>q
      <4> QED BY <4>1, <4>2, <1>a, <2>0, <2>r DEF OutType, Ops
    <3> QED BY <3>1, <3>2
  <2>2. /\ out' \in OutType /\ out'[l] = r /\ out'[c] = q
        /\ \A x \in Sockets : x # l /\ x # c => out'[x] = out[x]
    BY <2>0, <2>1, <1>a DEF OutType
  <2>3. /\ r.ACCEPT = out[l].ACCEPT - 1 /\ r.READ = out[l].READ /\ r.WRITE = out[l].WRITE
        /\ r.CONNECT = out[l].CONNECT /\ r.DISCONNECT = out[l].DISCONNECT
    BY <2>0, <2>r DEF Ops
  <2>4. /\ out[c].ACCEPT = 0 /\ out[c].READ = 0 /\ out[c].WRITE = 0
        /\ out[c].CONNECT = 0 /\ out[c].DISCONNECT = 0
    BY <2>0, <1>b, NothingOut DEF Total
  <2>5. /\ q.ACCEPT = 0 /\ q.WRITE = 0 /\ q.CONNECT = 0
        /\ q.READ = 1 - d /\ q.DISCONNECT = d
    BY <2>0, <2>4, <2>q DEF Ops
  <2>6. Total(l)' = Total(l) - 1
    BY <2>0, <2>2, <2>3 DEF Total, Ops
  <2>7. Total(c)' = 1
    BY <2>2, <2>5 DEF Total
  <2> QED BY <2>2, <2>5, <2>6, <2>7
<1>5. /\ ops' \in [Sockets -> Int] /\ ops'[c] = 1
      /\ flags' \in [Sockets -> SUBSET {"CLOSING", "CLOSABLE"}]
      /\ flags'[c] = IF d = 1 THEN {"CLOSING"} ELSE {}
      /\ \A x \in Sockets : x # c => ops'[x] = ops[x] /\ flags'[x] = flags[x]
  <2>1. ops \in [Sockets -> Int] /\ flags \in [Sockets -> SUBSET {"CLOSING", "CLOSABLE"}]
    BY <1>i DEF TypeOK
  <2>2. flags' = [flags EXCEPT ![c] = IF d = 1 THEN {"CLOSING"} ELSE {}]
    BY <1>3
  <2>3. ops' = [ops EXCEPT ![c] = 1]
    BY <1>3
  <2> QED BY <2>1, <2>2, <2>3, <1>a
<1>6. readyAccepts' \in [Sockets -> Seq(Clients)]
  <2>1. readyAccepts \in [Sockets -> Seq(Clients)] /\ readyAccepts[l] \in Seq(Clients)
    BY <1>i, <1>a DEF TypeOK
  <2>2. Append(readyAccepts[l], c) \in Seq(Clients)
    BY <2>1
  <2>3. \/ readyAccepts' = readyAccepts
        \/ readyAccepts' = [readyAccepts EXCEPT ![l] = Append(readyAccepts[l], c)]
    BY <1>3
  <2> QED BY <2>1, <2>2, <2>3
<1>t. TypeOK'
  BY <1>1, <1>2, <1>4, <1>5, <1>6, <1>i, Zenon DEF TypeOK, CtType, OutType
<1>7. ct.sock = None /\ tcl.sock # c
  <2>1. tcl.sock = c => tcl.at \in TclAt
    BY <1>i DEF TypeOK
  <2> QED BY <2>1, <1>a, <1>b, <1>i DEF CtPlace, TclPlace, TclAt
<1>8. SocketInv(c)'
  <2>1. Held(c)' = 0 /\ TclRefs(c)' = 0
    BY <1>2, <1>7, <1>a DEF Held, TclRefs
  <2>2. DisconnectRef(c)' = 0
    BY <1>4, <1>5, <1>b DEF DisconnectRef, Dud
  <2>3. Balanced(c)'
    BY <2>1, <2>2, <1>4, <1>5 DEF Balanced
  <2>4. /\ life'[c] = "live" /\ channel'[c] = "never" /\ c \notin Listeners
        /\ ct'.sock # c
    BY <1>1, <1>2, <1>a, <1>b, Universe
  <2>5. "CLOSABLE" \notin flags'[c] /\ ("CLOSING" \in flags'[c] <=> d = 1)
    BY <1>5
  <2> QED BY <2>3, <2>4, <2>5, <1>4 DEF SocketInv, Dud
<1>9. SocketInv(l)'
  <2>1. Held(l) = 0 /\ Held(l)' = 1 /\ TclRefs(l)' = TclRefs(l)
    BY <1>2, <1>7, <1>a DEF Held, TclRefs
  <2>2. DisconnectRef(l) = 0 /\ DisconnectRef(l)' = 0
    BY <1>a DEF DisconnectRef
  <2>3. Balanced(l)'
    BY <2>1, <2>2, <1>b, <1>1, <1>4, <1>5, <1>a, <1>i, Sizes DEF Balanced, SocketInv
  <2> QED BY <2>3, <1>1, <1>5, <1>a, <1>b DEF SocketInv
<1>10. ASSUME NEW x \in Sockets, x # l, x # c PROVE SocketInv(x)'
  <2>1. Same(x) /\ Aside(x)
    BY <1>10, <1>1, <1>2, <1>4, <1>5, <1>7, Universe DEF Same, Aside
  <2> QED BY <2>1, <1>i, Untouched
<1>11. TclPlace'
  BY <1>i, <1>1, <1>5, <1>b, <1>a, TclFrame
<1>12. CtPlace'
  BY <1>2, <1>1, <1>a DEF CtPlace
<1>13. QueuedAreNew'
  <2>0. readyAccepts \in [Sockets -> Seq(Clients)]
    BY <1>i DEF TypeOK
  <2>1. ASSUME NEW k \in Sockets, NEW i \in DOMAIN readyAccepts[k]
        PROVE  /\ readyAccepts[k][i] \in Sockets /\ readyAccepts[k][i] # c
               /\ life[readyAccepts[k][i]] = "live"
               /\ channel[readyAccepts[k][i]] = "never"
               /\ flags[readyAccepts[k][i]] = {}
    <3>1. readyAccepts[k][i] \in Sockets
      BY <2>0, Universe
    <3>2. /\ life[readyAccepts[k][i]] = "live"
          /\ channel[readyAccepts[k][i]] = "never"
          /\ flags[readyAccepts[k][i]] = {}
      BY <1>i DEF QueuedAreNew
    <3> QED BY <3>1, <3>2, <1>b
  <2>2. ASSUME NEW x \in Sockets, x # c, life[x] = "live", channel[x] = "never", flags[x] = {}
        PROVE  life'[x] = "live" /\ channel'[x] = "never" /\ flags'[x] = {}
    BY <2>2, <1>1, <1>5
  <2>3. CASE d = 1
    <3>1. readyAccepts' = readyAccepts
      BY <2>3, <1>3
    <3> QED BY <3>1, <2>1, <2>2, <1>i DEF QueuedAreNew
  <2>4. CASE d = 0
    <3>1. /\ \A k \in Sockets : k # l => readyAccepts'[k] = readyAccepts[k]
          /\ readyAccepts'[l] = Append(readyAccepts[l], c)
      BY <2>4, <2>0, <1>3, <1>a
    <3>q. readyAccepts[l] \in Seq(Clients)
      BY <2>0, <1>a
    <3>2. \A j \in DOMAIN readyAccepts'[l] :
             \/ j \in DOMAIN readyAccepts[l] /\ readyAccepts'[l][j] = readyAccepts[l][j]
             \/ j = Len(readyAccepts[l]) + 1 /\ readyAccepts'[l][j] = c
      BY <3>1, <3>q
    <3>3. \A k \in Sockets : \A j \in DOMAIN readyAccepts'[k] :
             \/ j \in DOMAIN readyAccepts[k] /\ readyAccepts'[k][j] = readyAccepts[k][j]
             \/ k = l /\ j = Len(readyAccepts[l]) + 1 /\ readyAccepts'[k][j] = c
      BY <3>1, <3>2
    <3>4. ASSUME NEW m \in Sockets, NEW i \in DOMAIN readyAccepts'[m],
                 NEW k \in Sockets, NEW j \in DOMAIN readyAccepts'[k],
                 readyAccepts'[k][j] = readyAccepts'[m][i]
          PROVE  k = m /\ j = i
      <4>1. CASE readyAccepts'[m][i] = c
        BY <4>1, <3>3, <3>4, <2>1
      <4>2. CASE readyAccepts'[m][i] # c
        <5>1. i \in DOMAIN readyAccepts[m] /\ readyAccepts'[m][i] = readyAccepts[m][i]
          BY <4>2, <3>3
        <5>2. j \in DOMAIN readyAccepts[k] /\ readyAccepts'[k][j] = readyAccepts[k][j]
          BY <4>2, <3>3, <3>4
        <5>3. readyAccepts[k][j] = readyAccepts[m][i]
          BY <5>1, <5>2, <3>4
        <5> QED BY <5>1, <5>2, <5>3, <1>i DEF QueuedAreNew
      <4> QED BY <4>1, <4>2
    <3>5. ASSUME NEW m \in Sockets, NEW i \in DOMAIN readyAccepts'[m]
          PROVE  /\ life'[readyAccepts'[m][i]] = "live"
                 /\ channel'[readyAccepts'[m][i]] = "never"
                 /\ flags'[readyAccepts'[m][i]] = {}
      <4>1. CASE readyAccepts'[m][i] = c
        BY <4>1, <2>4, <1>1, <1>5, <1>b
      <4>2. CASE readyAccepts'[m][i] # c
        <5>1. i \in DOMAIN readyAccepts[m] /\ readyAccepts'[m][i] = readyAccepts[m][i]
          BY <4>2, <3>3
        <5>2. PICK x \in Sockets : x = readyAccepts[m][i]
          BY <5>1, <2>1
        <5>3. x # c /\ life[x] = "live" /\ channel[x] = "never" /\ flags[x] = {}
          BY <5>1, <5>2, <2>1
        <5> QED BY <5>1, <5>2, <5>3, <2>2
      <4> QED BY <4>1, <4>2
    <3> QED BY <3>4, <3>5 DEF QueuedAreNew
  <2> QED BY <2>3, <2>4
<1> QED
  <2>1. \A x \in Sockets : SocketInv(x)'
    BY <1>8, <1>9, <1>10
  <2> QED BY <2>1, <1>t, <1>11, <1>12, <1>13 DEF IInv

\* HandleIo at OP_ACCEPT preserves IInv.
LEMMA HandleAcceptStep ==
  ASSUME IInv, NEW l \in Listeners, HandleAccept(l)
  PROVE  IInv'
<1>1. CASE \E c \in Clients : Accepted(l, c) /\ ct' = [at |-> "replace", sock |-> l]
  BY <1>1, AcceptedStep DEF HandleAccept
<1>2. CASE /\ out' = [out EXCEPT ![l].ACCEPT = @ - 1]
           /\ \E at \in {"replace", "done"} : ct' = [at |-> at, sock |-> l]
           /\ UNCHANGED <<life, handle, lists, ops, readyAccepts, flags>>
  <2>1. PICK at \in {"replace", "done"} : ct' = [at |-> at, sock |-> l]
    BY <1>2
  <2> QED BY <1>2, <2>1, RefusedAcceptStep DEF HandleAccept
<1> QED BY <1>1, <1>2 DEF HandleAccept

\* IInv holds before any socket is opened.
LEMMA InitInv == Init => IInv
<1> SUFFICES ASSUME Init PROVE IInv
  OBVIOUS
<1>t. TypeOK
  <2>1. out \in [Sockets -> [Ops -> Nat]]
    BY DEF Init
  <2>2. tcl \in TclType /\ ct \in CtType
    BY DEF Init, TclIdle, CtIdle, TclType, CtType, TclAt, CtAt
  <2>3. readyAccepts \in [Sockets -> Seq(Clients)]
    BY DEF Init
  <2>4. /\ life \in [Sockets -> {"unused", "live"} \cup Freed]
        /\ channel \in [Sockets -> {"never", "open", "closed"}]
        /\ flags \in [Sockets -> SUBSET {"CLOSING", "CLOSABLE"}]
        /\ ops \in [Sockets -> Int]
        /\ handle \in [Sockets -> BOOLEAN]
        /\ lists \in [Sockets -> BOOLEAN]
    BY DEF Init
  <2>5. accepting \in Listeners \cup {None} /\ fault \in BOOLEAN
    BY DEF Init
  <2> QED BY <2>1, <2>2, <2>3, <2>4, <2>5, Zenon DEF TypeOK, TclType, CtType
<1>1. ASSUME NEW s \in Sockets PROVE SocketInv(s)
  <2>1. life[s] = "unused" /\ channel[s] = "never" /\ flags[s] = {} /\ ops[s] = 0
    BY DEF Init
  <2>2. Total(s) = 0 /\ out[s].DISCONNECT = 0
    BY DEF Init, Total, Ops
  <2> QED BY <2>1, <2>2 DEF SocketInv, Balanced, Quiet, Dud
<1>2. TclPlace /\ CtPlace
  BY DEF Init, TclPlace, CtPlace, TclIdle, CtIdle
<1>3. QueuedAreNew
  BY DEF Init, QueuedAreNew
<1> QED BY <1>t, <1>1, <1>2, <1>3 DEF IInv

\* Every step of the two threads preserves IInv.
LEMMA NextInv == IInv /\ [Next]_vars => IInv'
<1> SUFFICES ASSUME IInv, [Next]_vars PROVE IInv'
  OBVIOUS
<1>1. CASE TclStep
  <2>1. PICK s : tcl.sock = s
    OBVIOUS
  <2> QED BY <1>1, <2>1, OpenServerPostStep, OpenServerDoneStep, PostEndStep,
             CloseFlagStep, CloseCountStep, ClosePostStep, CloseMarkStep,
             CloseDropStep, CloseSocketStep DEF TclStep
<1>2. CASE TclCall
  BY <1>2, OpenClientStep, OpenClientAsyncStep, OpenServerStep, AcceptOneStep,
     PostBeginStep, CloseBeginStep, AcceptReturnStep DEF TclCall
<1>3. CASE CtStep
  <2>1. PICK s : ct.sock = s
    OBVIOUS
  <2> QED BY <1>3, <2>1, ReplaceAcceptStep, RecvPostStep, DoneStep,
             FreeLastStep DEF CtStep
<1>4. ASSUME NEW s \in Sockets, CtTake(s) PROVE IInv'
  BY <1>4, HandleAcceptStep, HandleReadStep, HandleReadBurstStep,
     HandleWriteStep, HandleConnectStep, HandleDisconnectStep DEF CtTake
<1>5. CASE UNCHANGED vars
  <2>1. UNCHANGED <<life, channel, flags, ops, out, handle, lists, readyAccepts,
                    tcl, accepting, ct, fault>>
    BY <1>5 DEF vars, sockVars
  <2>i. /\ TypeOK /\ (\A x \in Sockets : SocketInv(x)) /\ TclPlace /\ CtPlace
        /\ QueuedAreNew
    BY DEF IInv
  <2>2. TypeOK'
    BY <2>1, <2>i, Zenon DEF TypeOK
  <2>3. ASSUME NEW x \in Sockets PROVE SocketInv(x)'
    BY <2>1, <2>i, Untouched DEF Same, Aside
  <2>4. TclPlace' /\ CtPlace'
    BY <2>1, <2>i, TclFrame, CtFrame
  <2>5. QueuedAreNew'
    BY <2>1, <2>i DEF QueuedAreNew
  <2> QED BY <2>2, <2>3, <2>4, <2>5 DEF IInv
<1> QED BY <1>1, <1>2, <1>3, <1>4, <1>5 DEF Next

\* IInv is an invariant for any number of listeners and clients, any caps and
\* both behaviours of IocpLLPopFront on an empty list.
THEOREM Invariance == Spec => []IInv
BY InitInv, NextInv, PTL DEF Spec

\* Every variable keeps its type; in particular no operation completes that
\* was not posted.
THEOREM TypeCorrect == Spec => []TypeOK
<1>1. IInv => TypeOK
  BY DEF IInv
<1> QED BY <1>1, Invariance, PTL

\* outstandingOps is exact: what Winsock has, what HandleIo is in the middle
\* of and the references the close path holds (OpsBalance).
THEOREM OpsAreBalanced == Spec => []OpsBalance
<1>1. IInv => OpsBalance
  BY DEF IInv, SocketInv, OpsBalance
<1> QED BY <1>1, Invariance, PTL

\* What HandleIo frees as "the last operation" has nothing outstanding
\* (LastOpIsLast).
THEOREM LastOpIsTheLast == Spec => []LastOpIsLast
<1>1. IInv => LastOpIsLast
  <2> SUFFICES ASSUME IInv PROVE LastOpIsLast
    OBVIOUS
  <2>1. \A s \in Sockets : life[s] = "lastOp" => Quiet(s)
    BY DEF IInv, SocketInv
  <2>2. PICK s : ct.sock = s
    OBVIOUS
  <2>3. ct.at = "free" => Quiet(ct.sock)
    BY <2>2, FreeIsQuiet DEF Quiet
  <2> QED BY <2>1, <2>3 DEF LastOpIsLast
<1> QED BY <1>1, Invariance, PTL

\* A client Tcl has a channel for, or is inside a procedure of, is not freed
\* (TclClientIsLive).
THEOREM TclClientStaysLive == Spec => []TclClientIsLive
<1>1. IInv => TclClientIsLive
  <2> SUFFICES ASSUME IInv, NEW c \in Clients, channel[c] = "open" \/ tcl.sock = c
               PROVE  life[c] = "live"
    BY DEF TclClientIsLive
  <2>i. TypeOK /\ SocketInv(c) /\ TclPlace /\ c \in Sockets /\ c # None /\ c \notin Listeners
    BY Universe DEF IInv
  <2>1. CASE channel[c] = "open"
    BY <2>1, <2>i DEF SocketInv
  <2>2. CASE tcl.sock = c
    BY <2>2, <2>i DEF TypeOK, TclAt, TclPlace, SocketInv
  <2> QED BY <2>1, <2>2
<1> QED BY <1>1, Invariance, PTL

\* FreeSocketInfo changes the life of no socket that is freed already.
LEMMA FreeKeepsFreed ==
  ASSUME IInv, NEW s \in Sockets, life[s] = "live", NEW why, FreeSocketInfo(s, why),
         NEW x \in Sockets, life[x] \in Freed
  PROVE  life'[x] = life[x]
<1>1. x # s /\ x \notin Queued(s)
  BY DEF IInv, QueuedAreNew, Queued, Freed
<1> QED BY <1>1, Zenon DEF FreeSocketInfo

\* Opening changes the life of no socket that is freed already.
LEMMA OpeningKeepsFreed ==
  ASSUME IInv, NEW s \in Sockets, life[s] = "unused", NEW v,
         life' = [life EXCEPT ![s] = v] \/ UNCHANGED life,
         NEW x \in Sockets, life[x] \in Freed
  PROVE  life'[x] = life[x]
<1>1. x # s /\ life \in [Sockets -> {"unused", "live"} \cup Freed]
  BY DEF IInv, TypeOK, Freed
<1> QED BY <1>1

\* FreeSocketInfo runs at most once for a SocketInfo (FreedOnce).
THEOREM FreedStaysFreed == Spec => FreedOnce
<1>1. ASSUME IInv, Next, NEW x \in Sockets, life[x] \in Freed
      PROVE  life'[x] = life[x]
  <2>i. TypeOK /\ TclPlace /\ CtPlace
    BY <1>1 DEF IInv
  <2>1. CASE TclStep
    <3>1. CASE OpenServerPost
      <4>1. CASE FreeSocketInfo(tcl.sock, "openFailed")
        <5>1. tcl.sock \in Sockets /\ life[tcl.sock] = "live"
          BY <3>1, <2>i, Universe DEF OpenServerPost, TclPlace
        <5> QED BY <1>1, <4>1, <5>1, FreeKeepsFreed
      <4>2. CASE UNCHANGED life
        BY <4>2
      <4> QED BY <3>1, <4>1, <4>2 DEF OpenServerPost
    <3>2. CASE ~ OpenServerPost
      BY <2>1, <3>2 DEF TclStep, OpenServerDone, PostEnd, CloseFlag, CloseCount,
                        ClosePost, CloseMark, CloseDrop, CloseSocket
    <3> QED BY <3>1, <3>2
  <2>2. CASE TclCall
    <3>1. ASSUME NEW s \in Clients, OpenClient(s) \/ OpenClientAsync(s)
          PROVE  life'[x] = life[x]
      <4>1. PICK v \in {"live", "openFailed"} :
              life' = [life EXCEPT ![s] = v] \/ UNCHANGED life
        BY <3>1 DEF OpenClient, OpenClientAsync
      <4>2. life[s] = "unused" /\ s \in Sockets
        BY <3>1, Universe DEF OpenClient, OpenClientAsync
      <4> QED BY <1>1, <4>1, <4>2, OpeningKeepsFreed
    <3>2. ASSUME NEW s \in Listeners, OpenServer(s)
          PROVE  life'[x] = life[x]
      <4>1. PICK v \in {"live", "openFailed"} : life' = [life EXCEPT ![s] = v]
        BY <3>2 DEF OpenServer
      <4>2. life[s] = "unused" /\ s \in Sockets
        BY <3>2, Universe DEF OpenServer
      <4> QED BY <1>1, <4>1, <4>2, OpeningKeepsFreed
    <3>3. ASSUME NEW s, NEW op, AcceptOne(s) \/ PostBegin(s, op) \/ CloseBegin(s) \/ AcceptReturn
          PROVE  UNCHANGED life
      BY <3>3 DEF AcceptOne, PostBegin, CloseBegin, AcceptReturn, sockVars
    <3> QED BY <2>2, <3>1, <3>2, <3>3 DEF TclCall
  <2>3. CASE CtStep
    <3>1. CASE FreeLast
      <4>1. ct.sock \in Sockets /\ life[ct.sock] = "live"
        BY <3>1, <2>i, Universe DEF FreeLast, CtPlace, TypeOK
      <4> QED BY <1>1, <3>1, <4>1, FreeKeepsFreed DEF FreeLast
    <3>2. CASE ReplaceAccept \/ RecvPost \/ Done
      BY <3>2 DEF ReplaceAccept, RecvPost, Done
    <3> QED BY <2>3, <3>1, <3>2 DEF CtStep
  <2>4. ASSUME NEW s \in Sockets, CtTake(s)
        PROVE  life'[x] = life[x]
    <3>1. ASSUME NEW c \in Clients, Accepted(s, c)
          PROVE  life'[x] = life[x]
      <4>1. life[c] = "unused" /\ life' = [life EXCEPT ![c] = "live"] /\ c \in Sockets
        BY <3>1, Universe DEF Accepted
      <4> QED BY <1>1, <4>1, OpeningKeepsFreed
    <3>2. CASE HandleAccept(s)
      BY <3>1, <3>2 DEF HandleAccept
    <3>3. CASE ~ HandleAccept(s)
      BY <2>4, <3>3 DEF CtTake, HandleRead, HandleReadBurst, HandleWrite,
                        HandleConnect, HandleDisconnect
    <3> QED BY <3>2, <3>3
  <2> QED BY <1>1, <2>1, <2>2, <2>3, <2>4 DEF Next
<1>2. IInv /\ [Next]_vars =>
        [\A s \in Sockets : life[s] \in Freed => life'[s] = life[s]]_vars
  BY <1>1
<1> QED BY <1>2, InitInv, NextInv, PTL DEF Spec, FreedOnce

-----------------------------------------------------------------------------
\* The refinement of SocketContract: what the contract sees of a client, and one
\* lemma for each of its actions, for a step that changes what is seen of c alone.

SeenAs(c, phase, pending, adopted) ==
  PhaseOf(c)' = phase /\ PendingOf(c)' = pending /\ AdoptedOf(c)' = adopted
Unseen(c) == SeenAs(c, PhaseOf(c), PendingOf(c), AdoptedOf(c))
Unmoved == \A x \in Clients : Unseen(x)
OnlySeen(c) == \A x \in Clients : x # c => Unseen(x)

\* Connections are queued on listeners only (Accepted is their one Append).
ClientsQueueNothing == \A c \in Clients : readyAccepts[c] = <<>>

\* The readyAccepts of a client stays empty.
THEOREM OnlyListenersQueue == Spec => []ClientsQueueNothing
<1>1. Init => ClientsQueueNothing
  BY Universe DEF Init, ClientsQueueNothing
<1>2. IInv /\ ClientsQueueNothing /\ [Next]_vars => ClientsQueueNothing'
  <2> SUFFICES ASSUME IInv, ClientsQueueNothing, [Next]_vars, NEW c \in Clients
               PROVE  readyAccepts'[c] = <<>>
    BY DEF ClientsQueueNothing
  <2>i. TypeOK /\ c \in Sockets /\ c \notin Listeners /\ readyAccepts[c] = <<>>
    BY Universe DEF IInv, ClientsQueueNothing
  <2>f. ASSUME NEW s, NEW why, FreeSocketInfo(s, why)
        PROVE  readyAccepts'[c] = <<>>
    BY <2>f, <2>i DEF FreeSocketInfo, TypeOK
  <2>1. CASE UNCHANGED vars
    BY <2>1, <2>i DEF vars, sockVars
  <2>2. CASE TclStep
    BY <2>2, <2>i, <2>f
       DEF TclStep, OpenServerPost, OpenServerDone, PostEnd, CloseFlag, CloseCount, ClosePost,
           CloseMark, CloseDrop, CloseSocket
  <2>3. CASE TclCall
    <3>1. ASSUME NEW l \in Listeners, AcceptOne(l)
          PROVE  readyAccepts'[c] = <<>>
      BY <3>1, <2>i DEF AcceptOne, TypeOK
    <3> QED
      BY <2>3, <2>i, <3>1
         DEF TclCall, OpenClient, OpenClientAsync, OpenServer, AcceptReturn, PostBegin,
             CloseBegin, sockVars
  <2>4. CASE CtStep
    BY <2>4, <2>i, <2>f DEF CtStep, ReplaceAccept, RecvPost, Done, FreeLast
  <2>5. ASSUME NEW s \in Sockets, CtTake(s)
        PROVE  readyAccepts'[c] = <<>>
    <3>1. ASSUME s \in Listeners, HandleAccept(s)
          PROVE  readyAccepts'[c] = <<>>
      BY <3>1, <2>i DEF HandleAccept, Accepted, TypeOK
    <3> QED
      BY <2>5, <2>i, <3>1
         DEF CtTake, HandleRead, HandleReadBurst, HandleWrite, HandleConnect, HandleDisconnect
  <2> QED BY <2>1, <2>2, <2>3, <2>4, <2>5 DEF Next
<1> QED BY <1>1, <1>2, Invariance, PTL DEF Spec

LEMMA Ranges ==
  ASSUME TypeOK, NEW c \in Clients
  PROVE  /\ PhaseOf(c) \in {"none", "open", "closing", "gone"}
         /\ PendingOf(c) \in Nat /\ AdoptedOf(c) \in BOOLEAN
         /\ PendingOf(c)' \in Nat \/ ~ TypeOK'
<1>1. c \in Sockets
  BY Universe
<1>2. PhaseOf(c) \in {"none", "open", "closing", "gone"} /\ AdoptedOf(c) \in BOOLEAN
  BY DEF PhaseOf, AdoptedOf
<1>3. PendingOf(c) \in Nat
  BY <1>1, Sizes DEF PendingOf
<1>4. TypeOK' => Total(c)' \in Nat /\ Held(c)' \in {0, 1}
  BY <1>1, TotalNatNext DEF TypeOK, OutType, Held
<1> QED BY <1>2, <1>3, <1>4 DEF PendingOf

LEMMA StutterMaps ==
  ASSUME Unmoved
  PROVE  UNCHANGED Contract!vars
BY DEF Unmoved, Unseen, SeenAs, Contract!vars

LEMMA OpenMaps ==
  ASSUME TypeOK, NEW c \in Clients, OnlySeen(c), PhaseOf(c) = "none",
         NEW p \in {"open", "closing"}, NEW n \in Nat \ {0}, NEW b \in BOOLEAN,
         SeenAs(c, p, n, b)
  PROVE  Contract!Open(c)
BY DEF OnlySeen, Unseen, SeenAs, Contract!Open

LEMMA FailMaps ==
  ASSUME NEW c \in Clients, OnlySeen(c), PhaseOf(c) = "none",
         SeenAs(c, "gone", PendingOf(c), AdoptedOf(c))
  PROVE  Contract!Fail(c)
BY DEF OnlySeen, Unseen, SeenAs, Contract!Fail

LEMMA AdoptMaps ==
  ASSUME NEW c \in Clients, OnlySeen(c), PhaseOf(c) = "open", ~ AdoptedOf(c),
         SeenAs(c, "open", PendingOf(c), TRUE)
  PROVE  Contract!Adopt(c)
BY DEF OnlySeen, Unseen, SeenAs, Contract!Adopt

LEMMA PostMaps ==
  ASSUME TypeOK, NEW c \in Clients, OnlySeen(c),
         PhaseOf(c) \in {"open", "closing"} \/ (PhaseOf(c) = "gone" /\ ~ AdoptedOf(c)),
         NEW n \in Nat \ {0}, SeenAs(c, PhaseOf(c), PendingOf(c) + n, AdoptedOf(c))
  PROVE  Contract!Post(c)
<1>1. PendingOf(c) \in Nat
  BY Ranges
<1>2. PendingOf(c) + n \in Nat /\ PendingOf(c) + n > PendingOf(c)
  BY <1>1
<1> QED BY <1>2 DEF OnlySeen, Unseen, SeenAs, Contract!Post

LEMMA CompleteMaps ==
  ASSUME TypeOK, NEW c \in Clients, OnlySeen(c), PhaseOf(c) # "none", PendingOf(c) > 0,
         SeenAs(c, PhaseOf(c), PendingOf(c) - 1, AdoptedOf(c))
  PROVE  Contract!Complete(c)
BY DEF OnlySeen, Unseen, SeenAs, Contract!Complete

LEMMA CloseMaps ==
  ASSUME NEW c \in Clients, OnlySeen(c), PhaseOf(c) = "open", AdoptedOf(c),
         SeenAs(c, "closing", PendingOf(c), AdoptedOf(c))
  PROVE  Contract!Close(c)
BY DEF OnlySeen, Unseen, SeenAs, Contract!Close

LEMMA ReleaseMaps ==
  ASSUME NEW c \in Clients, OnlySeen(c), PhaseOf(c) = "closing", PendingOf(c) = 0,
         SeenAs(c, "gone", PendingOf(c), AdoptedOf(c))
  PROVE  Contract!Release(c)
BY DEF OnlySeen, Unseen, SeenAs, Contract!Release

LEMMA DiscardMaps ==
  ASSUME TypeOK,
         \A c \in Clients :
           \/ Unseen(c)
           \/ /\ PhaseOf(c) = "open" /\ ~ AdoptedOf(c)
              /\ SeenAs(c, "gone", PendingOf(c), AdoptedOf(c))
  PROVE  Contract!Discard
BY Ranges DEF Unseen, SeenAs, Contract!Discard

-----------------------------------------------------------------------------
\* One lemma for each group of steps.

Maps == Contract!Next \/ UNCHANGED Contract!vars

\* Steps that touch no client the contract sees.
LEMMA UnseenSteps ==
  ASSUME IInv,
         \/ UNCHANGED <<life, channel, flags, out, ct>>
         \/ OpenServerDone \/ CloseMark
  PROVE  Maps
<1>1. Unmoved
  <2> USE DEF Unmoved, Unseen, SeenAs, PhaseOf, PendingOf, AdoptedOf, Total, Held
  <2>1. CASE UNCHANGED <<life, channel, flags, out, ct>>
    BY <2>1
  <2>2. CASE OpenServerDone
    BY <2>2, Universe DEF OpenServerDone, IInv, TclPlace, TypeOK
  <2>3. CASE CloseMark
    BY <2>3, Universe DEF CloseMark, IInv, TclPlace, TypeOK
  <2> QED BY <2>1, <2>2, <2>3
<1> QED BY <1>1, StutterMaps DEF Maps

LEMMA TclCallMaps ==
  ASSUME IInv, TclCall
  PROVE  Maps
<1>i. TypeOK /\ (\A x \in Sockets : SocketInv(x))
  BY DEF IInv
<1>1. ASSUME NEW c \in Clients, OpenClient(c) \/ OpenClientAsync(c)
      PROVE  Maps
  <2>1. c \in Sockets /\ life[c] = "unused" /\ PhaseOf(c) = "none"
    BY <1>1, Universe DEF OpenClient, OpenClientAsync, PhaseOf
  <2>2. Total(c) = 0 /\ channel[c] = "never" /\ flags[c] = {}
    BY <2>1, <1>i DEF SocketInv, Quiet
  <2>3. ct' = ct /\ flags' = flags
    BY <1>1 DEF OpenClient, OpenClientAsync
  <2>4. \A x \in Clients : x # c => life'[x] = life[x] /\ channel'[x] = channel[x] /\ out'[x] = out[x]
    BY <1>1, <1>i, Universe DEF OpenClient, OpenClientAsync, TypeOK, Posted
  <2>5. OnlySeen(c)
    BY <2>3, <2>4 DEF OnlySeen, Unseen, SeenAs, PhaseOf, PendingOf, AdoptedOf, Total, Held
  <2>6. CASE UNCHANGED <<life, channel, out>>
    BY <2>6, <2>3, UnseenSteps
  <2>7. CASE life' = [life EXCEPT ![c] = "openFailed"] /\ UNCHANGED <<channel, out>>
    <3>1. SeenAs(c, "gone", PendingOf(c), AdoptedOf(c))
      BY <2>7, <2>1, <2>3, <1>i
         DEF SeenAs, PhaseOf, PendingOf, AdoptedOf, Total, Held, Freed, TypeOK
    <3> QED BY <3>1, <2>1, <2>5, FailMaps DEF Maps, Contract!Next
  <2>8. CASE /\ life' = [life EXCEPT ![c] = "live"] /\ channel' = [channel EXCEPT ![c] = "open"]
             /\ \E op \in {"READ", "CONNECT"} : out' = [out EXCEPT ![c][op] = @ + 1]
    <3>1. Total(c)' = 1
      BY <2>8, <2>1, <2>2, <1>i DEF TypeOK, Total, Ops
    <3>2. Held(c)' = Held(c) /\ Held(c) \in {0, 1}
      BY <2>3 DEF Held
    <3>3. SeenAs(c, "open", 1 + Held(c), TRUE)
      BY <2>8, <2>1, <2>2, <2>3, <3>1, <3>2, <1>i
         DEF SeenAs, PhaseOf, PendingOf, AdoptedOf, Freed, TypeOK
    <3>4. 1 + Held(c) \in Nat \ {0}
      BY <3>2
    <3> QED BY <3>3, <3>4, <2>1, <2>5, <1>i, OpenMaps DEF Maps, Contract!Next
  <2> QED BY <1>1, <2>6, <2>7, <2>8
      DEF OpenClient, OpenClientAsync, Posted, InitialRecvCount
<1>2. ASSUME NEW l \in Listeners, OpenServer(l)
      PROVE  Maps
  <2>1. Unmoved
    BY <1>2, Universe, <1>i
       DEF OpenServer, TypeOK, Unmoved, Unseen, SeenAs, PhaseOf, PendingOf, AdoptedOf,
           Total, Held
  <2> QED BY <2>1, StutterMaps DEF Maps
<1>3. ASSUME NEW l \in Listeners, AcceptOne(l)
      PROVE  Maps
  <2>1. PICK c \in Clients : c = Head(readyAccepts[l]) /\ c \in Sockets
    BY <1>3, <1>i, Universe DEF AcceptOne, TypeOK
  <2>2. life[c] = "live" /\ channel[c] = "never" /\ flags[c] = {}
    BY <1>3, <1>i, <2>1, Universe DEF AcceptOne, IInv, QueuedAreNew, TypeOK
  <2>3. channel' = [channel EXCEPT ![c] = "open"] /\ UNCHANGED <<life, flags, out, ct>>
    BY <1>3, <2>1 DEF AcceptOne
  <2>4. OnlySeen(c)
    BY <2>3, <1>i, Universe
       DEF TypeOK, OnlySeen, Unseen, SeenAs, PhaseOf, PendingOf, AdoptedOf, Total, Held
  <2>5. PhaseOf(c) = "open" /\ ~ AdoptedOf(c)
    BY <2>2 DEF PhaseOf, AdoptedOf, Freed
  <2>6. SeenAs(c, "open", PendingOf(c), TRUE)
    BY <2>1, <2>3, <2>5, <1>i
       DEF TypeOK, SeenAs, PhaseOf, PendingOf, AdoptedOf, Total, Held
  <2> QED BY <2>4, <2>5, <2>6, AdoptMaps DEF Maps, Contract!Next
<1>4. ASSUME NEW s, NEW op, PostBegin(s, op) \/ CloseBegin(s) \/ AcceptReturn
      PROVE  Maps
  BY <1>4, UnseenSteps DEF PostBegin, CloseBegin, AcceptReturn, sockVars
<1> QED BY <1>1, <1>2, <1>3, <1>4 DEF TclCall

\* One more operation of a client whose life goes on.
LEMMA OnePostMaps ==
  ASSUME TypeOK, NEW c \in Clients, life[c] = "live", NEW op \in Ops, Posted(c, op),
         UNCHANGED <<life, channel, flags, ct>>
  PROVE  Maps
<1>1. c \in Sockets
  BY Universe
<1>2. Total(c)' = Total(c) + 1 /\ \A x \in Sockets : x # c => out'[x] = out[x]
  BY <1>1, PostedEffect DEF TypeOK, OutType
<1>3. OnlySeen(c)
  BY <1>2, Universe
     DEF OnlySeen, Unseen, SeenAs, PhaseOf, PendingOf, AdoptedOf, Total, Held
<1>4. PhaseOf(c) \in {"open", "closing"}
  BY DEF PhaseOf, Freed
<1>5. SeenAs(c, PhaseOf(c), PendingOf(c) + 1, AdoptedOf(c))
  <2>1. Total(c) \in Nat /\ Held(c) \in {0, 1} /\ Held(c)' = Held(c)
    BY <1>1, Sizes DEF Held
  <2> QED BY <1>2, <2>1 DEF SeenAs, PhaseOf, PendingOf, AdoptedOf
<1> QED BY <1>3, <1>4, <1>5, PostMaps DEF Maps, Contract!Next

\* A listener that goes takes the connections in its queue with it.
LEMMA FreeListenerMaps ==
  ASSUME TypeOK, QueuedAreNew, NEW s \in Listeners, NEW why \in Freed, FreeSocketInfo(s, why),
         UNCHANGED <<channel, flags, out>>, ct' = ct \/ (ct.at = "free" /\ ct'.at = "idle")
  PROVE  Maps
<1>1. s \in Sockets /\ s \notin Clients
  BY Universe
<1>2. \A x \in Clients : Total(x)' = Total(x) /\ Held(x)' = Held(x)
  BY DEF Total, Held
<1>3. CASE UNCHANGED life
  BY <1>2, <1>3, StutterMaps
     DEF Unmoved, Unseen, SeenAs, PhaseOf, PendingOf, AdoptedOf, Maps
<1>4. CASE ~ (lists[s] /\ EmptyPopFaults)
  <2>1. \A x \in Clients : life'[x] = IF x \in Queued(s) THEN "drained" ELSE life[x]
    BY <1>1, <1>4, Universe, Zenon DEF FreeSocketInfo
  <2>2. ASSUME NEW x \in Clients PROVE
           \/ Unseen(x)
           \/ /\ PhaseOf(x) = "open" /\ ~ AdoptedOf(x)
              /\ SeenAs(x, "gone", PendingOf(x), AdoptedOf(x))
    <3>1. CASE x \in Queued(s)
      <4>1. life[x] = "live" /\ channel[x] = "never" /\ flags[x] = {}
        BY <1>1, <3>1 DEF Queued, QueuedAreNew
      <4>2. life'[x] = "drained"
        BY <2>1, <3>1
      <4> QED BY <1>2, <4>1, <4>2 DEF SeenAs, PhaseOf, PendingOf, AdoptedOf, Freed
    <3>2. CASE x \notin Queued(s)
      BY <1>2, <2>1, <3>2 DEF Unseen, SeenAs, PhaseOf, PendingOf, AdoptedOf
    <3> QED BY <3>1, <3>2
  <2> QED BY <2>2, DiscardMaps DEF Maps, Contract!Next
<1> QED BY <1>3, <1>4 DEF FreeSocketInfo

\* A client that goes is closing and has nothing outstanding; its queue is empty.
LEMMA FreeClientMaps ==
  ASSUME IInv, ClientsQueueNothing, NEW s \in Clients, life[s] = "live", "CLOSING" \in flags[s], Total(s) = 0,
         ct.at = "free", ct.sock = s, ct' = ct \/ ct' = CtIdle,
         FreeSocketInfo(s, "lastOp"), UNCHANGED <<channel, flags, out>>
  PROVE  Maps
<1>i. TypeOK /\ QueuedAreNew /\ s \in Sockets
  BY Universe DEF IInv
<1>1. \A x \in Clients : Total(x)' = Total(x) /\ Held(x) = 0 /\ Held(x)' = 0
  BY DEF Total, Held, CtIdle
<1>4. Queued(s) = {}
  BY DEF ClientsQueueNothing, Queued
<1>2. CASE UNCHANGED life
  BY <1>1, <1>2, StutterMaps
     DEF Unmoved, Unseen, SeenAs, PhaseOf, PendingOf, AdoptedOf, Maps
<1>3. CASE ~ (lists[s] /\ EmptyPopFaults)
  <2>1. \A x \in Clients : life'[x] = IF x = s THEN "lastOp"
                                      ELSE IF x \in Queued(s) THEN "drained" ELSE life[x]
    BY <1>3, Universe, Zenon DEF FreeSocketInfo
  <2>2. \A x \in Clients : x # s => life'[x] = life[x]
    BY <2>1, <1>4 
  <2>3. OnlySeen(s)
    BY <1>1, <2>2 DEF OnlySeen, Unseen, SeenAs, PhaseOf, PendingOf, AdoptedOf
  <2>4. PhaseOf(s) = "closing" /\ PendingOf(s) = 0 /\ SeenAs(s, "gone", PendingOf(s), AdoptedOf(s))
    BY <1>1, <2>1 DEF SeenAs, PhaseOf, PendingOf, AdoptedOf, Freed
  <2> QED BY <2>3, <2>4, ReleaseMaps DEF Maps, Contract!Next
<1> QED BY <1>2, <1>3 DEF FreeSocketInfo

LEMMA TclStepMaps ==
  ASSUME IInv, TclStep
  PROVE  Maps
<1>i. TypeOK /\ (\A x \in Sockets : SocketInv(x)) /\ TclPlace /\ QueuedAreNew
  BY DEF IInv
<1>1. CASE OpenServerPost
  <2>1. PICK l \in Listeners : l = tcl.sock /\ l \in Sockets /\ life[l] = "live" /\ channel[l] = "never"
    BY <1>1, <1>i, Universe DEF OpenServerPost, TclPlace
  <2>2. CASE Posted(l, "ACCEPT") /\ UNCHANGED life
    <3>1. Unmoved
      BY <1>1, <2>1, <2>2, <1>i, Universe
         DEF OpenServerPost, Posted, TypeOK, Unmoved, Unseen, SeenAs, PhaseOf, PendingOf, AdoptedOf,
             Total, Held
    <3> QED BY <3>1, StutterMaps DEF Maps
  <2>3. CASE FreeSocketInfo(l, "openFailed") /\ UNCHANGED out
    BY <1>1, <2>1, <2>3, <1>i, FreeListenerMaps DEF OpenServerPost, Freed
  <2> QED BY <1>1, <2>1, <2>2, <2>3 DEF OpenServerPost
<1>2. CASE OpenServerDone \/ CloseCount \/ CloseMark \/ CloseDrop \/ CloseSocket
  BY <1>2, UnseenSteps DEF CloseCount, CloseDrop, CloseSocket
<1>3. CASE PostEnd
  <2>1. PICK s \in Sockets : s = tcl.sock /\ channel[s] = "open"
    BY <1>3, <1>i, Universe DEF PostEnd, TclPlace, TypeOK
  <2>2. CASE UNCHANGED out
    BY <1>3, <2>2, UnseenSteps DEF PostEnd
  <2>3. CASE Posted(s, tcl.op) /\ s \in Listeners
    <3>1. Unmoved
      BY <1>3, <2>1, <2>3, <1>i, Universe
         DEF PostEnd, Posted, TypeOK, Unmoved, Unseen, SeenAs, PhaseOf, PendingOf, AdoptedOf,
             Total, Held
    <3> QED BY <3>1, StutterMaps DEF Maps
  <2>4. CASE Posted(s, tcl.op) /\ s \in Clients
    <3>1. tcl.op \in Ops
      BY <1>3, <2>1, <2>4, <1>i, Universe, OpsAre DEF PostEnd, TclPlace
    <3>2. UNCHANGED <<life, channel, flags, ct>>
      BY <1>3 DEF PostEnd
    <3>3. life[s] = "live" /\ flags[s] = {}
      BY <2>1, <1>i DEF SocketInv
    <3> QED BY <2>4, <3>1, <3>2, <3>3, <1>i, OnePostMaps
  <2> QED BY <1>3, <2>1, <2>2, <2>3, <2>4 DEF PostEnd, Sockets
<1>4. CASE ClosePost
  <2>1. PICK s \in Clients : s = tcl.sock /\ life[s] = "live"
    BY <1>4, <1>i DEF ClosePost, TclPlace
  <2>2. Posted(s, "DISCONNECT") /\ UNCHANGED <<life, channel, flags, ct>>
    BY <1>4, <2>1 DEF ClosePost
  <2> QED BY <2>1, <2>2, <1>i, OnePostMaps, OpsAre
<1>5. CASE CloseFlag
  <2>1. PICK s \in Sockets : s = tcl.sock /\ channel[s] = "open"
    BY <1>5, <1>i, Universe DEF CloseFlag, TclPlace, TypeOK
  <2>2. life[s] = "live" /\ flags[s] = {}
    BY <2>1, <1>i DEF SocketInv
  <2>3. /\ \A x \in Sockets : x # s => flags'[x] = flags[x] /\ channel'[x] = channel[x]
        /\ flags'[s] = {"CLOSING"} /\ channel'[s] = "closed"
        /\ UNCHANGED <<life, out, ct>>
    BY <1>5, <2>1, <2>2, <1>i DEF CloseFlag, TypeOK
  <2>4. \A x \in Clients : x # s => Unseen(x)
    BY <2>3, Universe DEF Unseen, SeenAs, PhaseOf, PendingOf, AdoptedOf, Total, Held
  <2>5. CASE s \in Listeners
    BY <2>4, <2>5, Universe, StutterMaps DEF Unmoved, Maps
  <2>6. CASE s \in Clients
    <3>1. PhaseOf(s) = "open" /\ AdoptedOf(s) /\ SeenAs(s, "closing", PendingOf(s), AdoptedOf(s))
      BY <2>1, <2>2, <2>3 DEF SeenAs, PhaseOf, PendingOf, AdoptedOf, Total, Held, Freed
    <3> QED BY <2>4, <2>6, <3>1, CloseMaps DEF OnlySeen, Maps, Contract!Next
  <2> QED BY <2>5, <2>6 DEF Sockets
<1> QED BY <1>1, <1>2, <1>3, <1>4, <1>5 DEF TclStep

-----------------------------------------------------------------------------
\* The completion thread.

\* Taking a completion moves an operation from Winsock to HandleIo.
LEMMA TakeMaps ==
  ASSUME IInv, NEW c \in Clients, NEW op \in Ops, Dequeued(c, op),
         NEW at \in {"done", "burst", "first"}, ct' = [at |-> at, sock |-> c],
         UNCHANGED <<life, channel>>,
         \A x \in Sockets : ("CLOSING" \in flags'[x]) <=> ("CLOSING" \in flags[x])
  PROVE  Maps
<1>i. TypeOK /\ CtPlace /\ c \in Sockets
  BY Universe DEF IInv
<1>1. ct.at = "idle" /\ ct.sock = None
  BY <1>i DEF Dequeued, CtPlace
<1>2. /\ Total(c)' = Total(c) - 1 /\ Total(c) \in Nat
      /\ \A x \in Sockets : x # c => out'[x] = out[x]
  BY <1>i, DequeuedEffect, Sizes DEF TypeOK, OutType
<1>3. Held(c) = 0 /\ Held(c)' = 1
  BY <1>1, <1>i, Universe DEF Held
<1>4. \A x \in Clients : x # c => Total(x)' = Total(x) /\ Held(x) = 0 /\ Held(x)' = 0
  BY <1>1, <1>2, Universe DEF Held, Total
<1>5. Unmoved
  <2> SUFFICES ASSUME NEW x \in Clients PROVE Unseen(x)
    BY DEF Unmoved
  <2>1. PendingOf(x)' = PendingOf(x)
    BY <1>2, <1>3, <1>4 DEF PendingOf
  <2>2. PhaseOf(x)' = PhaseOf(x) /\ AdoptedOf(x)' = AdoptedOf(x)
    BY Universe DEF PhaseOf, AdoptedOf
  <2> QED BY <2>1, <2>2 DEF Unseen, SeenAs
<1> QED BY <1>5, StutterMaps DEF Maps

\* An AcceptEx that ends without a connection.
LEMMA NoConnectionMaps ==
  ASSUME IInv, NEW l \in Listeners, UNCHANGED <<life, channel, flags>>,
         \A x \in Clients : out'[x] = out[x],
         ct.at = "idle" \/ ct.sock = l, ct'.sock = l
  PROVE  Maps
<1>1. ct.sock = l \/ ct.sock = None
  BY DEF IInv, CtPlace
<1>2. Unmoved
  BY <1>1, Universe
     DEF Unmoved, Unseen, SeenAs, PhaseOf, PendingOf, AdoptedOf, Total, Held
<1> QED BY <1>2, StutterMaps DEF Maps

LEMMA NoneOfFive ==
  ASSUME NEW a \in Nat, NEW b \in Nat, NEW c \in Nat, NEW d \in Nat, NEW e \in Nat,
         a + b + c + d + e = 0
  PROVE  a = 0 /\ b = 0 /\ c = 0 /\ d = 0 /\ e = 0
OBVIOUS

\* A connection begins its life, queued or as a dud.
LEMMA AcceptedMaps ==
  ASSUME IInv, NEW l \in Listeners, NEW c \in Clients, Accepted(l, c), ct.at = "idle",
         ct' = [at |-> "replace", sock |-> l], UNCHANGED channel
  PROVE  Maps
<1>i. TypeOK /\ CtPlace /\ SocketInv(c) /\ c \in Sockets /\ l \in Sockets /\ l # c
  BY Universe DEF IInv
<1>1. life[c] = "unused" /\ life' = [life EXCEPT ![c] = "live"] /\ PhaseOf(c) = "none"
  BY DEF Accepted, PhaseOf
<1>2. Total(c) = 0 /\ channel[c] = "never" /\ flags[c] = {}
  BY <1>1, <1>i DEF SocketInv, Quiet
<1>3. ct.sock = None
  BY <1>i DEF CtPlace
<1>4. \A x \in Clients : Held(x) = 0 /\ Held(x)' = 0
  BY <1>3, Universe DEF Held
<1>z. /\ out \in [Sockets -> [Ops -> Nat]] /\ flags \in [Sockets -> SUBSET {"CLOSING", "CLOSABLE"}]
      /\ out[c].READ = 0 /\ out[c].DISCONNECT = 0 /\ \A op \in Ops : out[c][op] = 0
  <2>1. out \in [Sockets -> [Ops -> Nat]] /\ flags \in [Sockets -> SUBSET {"CLOSING", "CLOSABLE"}]
    BY <1>i DEF TypeOK
  <2>2. \A op \in Ops : out[c][op] \in Nat
    BY <2>1, <1>i
  <2>3. out[c].ACCEPT = 0 /\ out[c].READ = 0 /\ out[c].WRITE = 0 /\ out[c].CONNECT = 0
        /\ out[c].DISCONNECT = 0
    <3>1. /\ out[c].ACCEPT \in Nat /\ out[c].READ \in Nat /\ out[c].WRITE \in Nat
          /\ out[c].CONNECT \in Nat /\ out[c].DISCONNECT \in Nat
      BY <2>2, OpsAre
    <3>2. out[c].ACCEPT + out[c].READ + out[c].WRITE + out[c].CONNECT + out[c].DISCONNECT = 0
      BY <1>2 DEF Total
    <3> QED BY <3>1, <3>2, NoneOfFive
  <2> QED BY <2>1, <2>3 DEF Ops
<1>5. /\ \A x \in Clients : x # c => out'[x] = out[x] /\ flags'[x] = flags[x]
      /\ \/ out'[c].READ = 1 /\ out'[c].DISCONNECT = 0 /\ flags'[c] = {}
         \/ out'[c].READ = 0 /\ out'[c].DISCONNECT = 1 /\ flags'[c] = {"CLOSING"}
      /\ out'[c].ACCEPT = out[c].ACCEPT /\ out'[c].WRITE = out[c].WRITE
      /\ out'[c].CONNECT = out[c].CONNECT
  <2>1. CASE /\ out' = [out EXCEPT ![l].ACCEPT = @ - 1, ![c].READ = 1]
             /\ UNCHANGED flags
    <3>1. /\ out'[c] = [out[c] EXCEPT !.READ = 1]
          /\ \A x \in Clients : x # c => out'[x] = out[x]
      BY <2>1, <1>i, <1>z, Universe
    <3>2. out[c] \in [Ops -> Nat]
      BY <1>i, <1>z
    <3>3. /\ out'[c].READ = 1 /\ out'[c].DISCONNECT = out[c].DISCONNECT
          /\ out'[c].ACCEPT = out[c].ACCEPT /\ out'[c].WRITE = out[c].WRITE
          /\ out'[c].CONNECT = out[c].CONNECT
      BY <3>1, <3>2, OpsAre
    <3>4. flags' = flags
      BY <2>1
    <3>5. /\ \A x \in Clients : x # c => out'[x] = out[x] /\ flags'[x] = flags[x]
          /\ out'[c].READ = 1 /\ out'[c].DISCONNECT = 0 /\ flags'[c] = {}
      BY <3>1, <3>3, <3>4, <1>2, <1>z, Zenon
    <3> QED BY <3>3, <3>5, Zenon
  <2>2. CASE /\ out' = [out EXCEPT ![l].ACCEPT = @ - 1, ![c].READ = 0, ![c].DISCONNECT = 1]
             /\ flags' = [flags EXCEPT ![c] = {"CLOSING"}]
    <3>1. /\ out'[c] = [[out[c] EXCEPT !.READ = 0] EXCEPT !.DISCONNECT = 1]
          /\ \A x \in Clients : x # c => out'[x] = out[x]
      BY <2>2, <1>i, <1>z, Universe
    <3>2. out[c] \in [Ops -> Nat]
      BY <1>i, <1>z
    <3>3. flags'[c] = {"CLOSING"} /\ \A x \in Clients : x # c => flags'[x] = flags[x]
      BY <2>2, <1>i, <1>z
    <3> QED BY <3>1, <3>2, <3>3, <1>z, OpsAre
  <2> QED BY <2>1, <2>2 DEF Accepted, InitialRecvCount
<1>6. OnlySeen(c)
  BY <1>1, <1>4, <1>5, <1>i, Universe
     DEF TypeOK, OnlySeen, Unseen, SeenAs, PhaseOf, PendingOf, AdoptedOf, Total
<1>7. Total(c)' = 1
  BY <1>5, <1>z, OpsAre DEF Total
<1>8. PICK p \in {"open", "closing"} : SeenAs(c, p, 1, FALSE)
  <2>1. life'[c] = "live" /\ channel'[c] = "never"
    BY <1>1, <1>2, <1>i DEF TypeOK
  <2>2. PendingOf(c)' = 1 /\ AdoptedOf(c)' = FALSE
    BY <2>1, <1>4, <1>7 DEF PendingOf, AdoptedOf
  <2>3. PhaseOf(c)' \in {"open", "closing"}
    BY <2>1 DEF PhaseOf, Freed
  <2> QED BY <2>2, <2>3 DEF SeenAs
<1>9. 1 \in Nat \ {0} /\ FALSE \in BOOLEAN
  OBVIOUS
<1>10. Contract!Open(c)
  BY <1>1, <1>6, <1>8, <1>9, <1>i, OpenMaps
<1> QED BY <1>10 DEF Maps, Contract!Next

LEMMA CtTakeMaps ==
  ASSUME IInv, NEW s \in Sockets, CtTake(s)
  PROVE  Maps
<1>i. TypeOK
  BY DEF IInv
<1>1. CASE s \in Listeners /\ HandleAccept(s)
  <2>1. CASE \E c \in Clients : Accepted(s, c) /\ ct' = [at |-> "replace", sock |-> s]
    BY <1>1, <2>1, AcceptedMaps DEF HandleAccept
  <2>2. CASE /\ out' = [out EXCEPT ![s].ACCEPT = @ - 1] /\ ct'.sock = s
             /\ UNCHANGED <<life, flags>>
    BY <1>1, <2>2, <1>i, NoConnectionMaps, Universe DEF HandleAccept, TypeOK
  <2> QED BY <1>1, <2>1, <2>2 DEF HandleAccept
<1>2. CASE s \in Clients /\ (HandleRead(s) \/ HandleDisconnect(s))
  <2>1. \A x \in Sockets : ("CLOSING" \in flags'[x]) <=> ("CLOSING" \in flags[x])
    <3>1. UNCHANGED flags \/ flags' = [flags EXCEPT ![s] = @ \cup {"CLOSABLE"}]
      BY <1>2 DEF HandleRead, HandleDisconnect
    <3>2. \A x \in Sockets : flags'[x] = flags[x] \/ flags'[x] = flags[x] \cup {"CLOSABLE"}
      BY <3>1, <1>i DEF TypeOK
    <3> QED BY <3>2
  <2> QED BY <1>2, <2>1, TakeMaps, OpsAre DEF HandleRead, HandleDisconnect, Handled
<1>3. CASE s \in Clients /\ (HandleReadBurst(s) \/ HandleWrite(s) \/ HandleConnect(s))
  BY <1>3, TakeMaps, OpsAre DEF HandleReadBurst, HandleWrite, HandleConnect, Handled
<1> QED BY <1>1, <1>2, <1>3 DEF CtTake

LEMMA CtStepMaps ==
  ASSUME IInv, ClientsQueueNothing, CtStep
  PROVE  Maps
<1>i. TypeOK /\ (\A x \in Sockets : SocketInv(x)) /\ CtPlace /\ QueuedAreNew
  BY DEF IInv
<1>1. CASE ReplaceAccept
  <2>1. ct.sock \in Listeners
    BY <1>1, <1>i DEF ReplaceAccept, CtPlace
  <2>2. \A x \in Clients : out'[x] = out[x]
    BY <1>1, <2>1, <1>i, Universe DEF ReplaceAccept, Posted, TypeOK
  <2> QED BY <1>1, <2>1, <2>2, NoConnectionMaps DEF ReplaceAccept, Handled
<1>2. CASE RecvPost
  <2>1. PICK c \in Clients : c = ct.sock /\ c \in Sockets /\ life[c] \notin {"unused", "lastOp"}
    BY <1>2, <1>i, Universe DEF RecvPost, CtPlace
  <2>2. PICK n \in Nat : out' = [out EXCEPT ![c].READ = @ + n]
    <3>1. 0 .. 1 \subseteq Nat /\ 0 .. RecvCap \subseteq Nat
      BY CapsAssumption
    <3> QED BY <1>2, <2>1, <3>1 DEF RecvPost, InitialRecvCount
  <2>3. Total(c)' = Total(c) + n /\ \A x \in Sockets : x # c => out'[x] = out[x]
    BY <2>1, <2>2, <1>i, OpsAre DEF TypeOK, Total, Ops
  <2>4. Held(c) = 1 /\ Held(c)' = 1 /\ \A x \in Clients : x # c => Held(x) = 0 /\ Held(x)' = 0
    BY <1>2, <2>1 DEF RecvPost, Held, Handled
  <2>5. UNCHANGED <<life, channel, flags>>
    BY <1>2 DEF RecvPost
  <2>6. OnlySeen(c)
    BY <2>3, <2>4, <2>5, Universe
       DEF OnlySeen, Unseen, SeenAs, PhaseOf, PendingOf, AdoptedOf, Total
  <2>7. SeenAs(c, PhaseOf(c), PendingOf(c) + n, AdoptedOf(c))
    BY <2>1, <2>3, <2>4, <2>5, <1>i, Sizes DEF SeenAs, PhaseOf, PendingOf, AdoptedOf
  <2>8. PhaseOf(c) \in {"open", "closing"} \/ (PhaseOf(c) = "gone" /\ ~ AdoptedOf(c))
    BY <2>1, <1>i DEF PhaseOf, AdoptedOf, SocketInv, TypeOK, Freed
  <2>9. CASE n = 0
    <3>1. PendingOf(c) + n = PendingOf(c)
      BY <2>9, <1>i, Ranges
    <3> QED BY <2>6, <2>7, <3>1, StutterMaps DEF Maps, OnlySeen, Unmoved, Unseen
  <2>10. CASE n # 0
    BY <2>6, <2>7, <2>8, <2>10, <1>i, PostMaps DEF Maps, Contract!Next
  <2> QED BY <2>9, <2>10
<1>3. CASE Done
  <2>1. PICK s \in Sockets : s = ct.sock /\ life[s] # "unused"
    BY <1>3, <1>i, Universe DEF Done, CtPlace, TypeOK
  <2>2. Held(s) = 1 /\ Held(s)' = 0 /\ \A x \in Clients : x # s => Held(x) = 0 /\ Held(x)' = 0
    BY <1>3, <2>1, Universe DEF Done, Held, CtIdle
  <2>3. UNCHANGED <<life, channel, flags, out>>
    BY <1>3 DEF Done
  <2>4. \A x \in Clients : x # s => Unseen(x)
    BY <2>2, <2>3 DEF Unseen, SeenAs, PhaseOf, PendingOf, AdoptedOf, Total
  <2>5. CASE s \in Listeners
    BY <2>4, <2>5, Universe, StutterMaps DEF Unmoved, Maps
  <2>6. CASE s \in Clients
    <3>1. PhaseOf(s) # "none"
      BY <2>1 DEF PhaseOf
    <3>2. PendingOf(s) > 0 /\ SeenAs(s, PhaseOf(s), PendingOf(s) - 1, AdoptedOf(s))
      <4>1. Total(s) \in Nat /\ Total(s)' = Total(s)
        BY <2>1, <2>3, <1>i, Sizes DEF Total
      <4> QED BY <4>1, <2>2, <2>3 DEF SeenAs, PhaseOf, PendingOf, AdoptedOf
    <3> QED BY <2>4, <2>6, <3>1, <3>2, <1>i, CompleteMaps
        DEF OnlySeen, Maps, Contract!Next
  <2> QED BY <2>5, <2>6 DEF Sockets
<1>4. CASE FreeLast
  <2>1. PICK s \in Sockets : s = ct.sock /\ life[s] = "live" /\ "CLOSABLE" \in flags[s] /\ Total(s) = 0
    BY <1>4, FreeIsQuiet DEF FreeLast
  <2>2. "CLOSING" \in flags[s] /\ ct.at = "free"
    BY <1>4, <2>1, <1>i DEF SocketInv, FreeLast
  <2>3. FreeSocketInfo(s, "lastOp") /\ UNCHANGED <<channel, flags, out>>
        /\ (ct' = ct \/ ct' = CtIdle)
    BY <1>4, <2>1 DEF FreeLast
  <2>4. CASE s \in Listeners
    BY <2>1, <2>2, <2>3, <2>4, <1>i, FreeListenerMaps DEF CtIdle, Freed
  <2>5. CASE s \in Clients
    BY <2>1, <2>2, <2>3, <2>5, <1>i, FreeClientMaps
  <2> QED BY <2>4, <2>5 DEF Sockets
<1> QED BY <1>1, <1>2, <1>3, <1>4 DEF CtStep

\* A client socket is released once, after it was closed and with nothing outstanding,
\* whatever the two threads do (SocketContract); a connection Tcl has not seen may be
\* thrown away with its listener.
THEOREM KeepsContract == Spec => ImplementsContract
<1>1. Init => Contract!Init
  <2> SUFFICES ASSUME Init PROVE Contract!Init
    OBVIOUS
  <2>1. ASSUME NEW c \in Clients
        PROVE  PhaseOf(c) = "none" /\ PendingOf(c) = 0 /\ AdoptedOf(c) = FALSE
    <3>1. c \in Sockets /\ Total(c) = 0
      BY Universe DEF Init, Total, Ops
    <3> QED BY <3>1 DEF Init, PhaseOf, PendingOf, AdoptedOf, Held, CtIdle
  <2> QED BY <2>1 DEF Contract!Init
<1>2. IInv /\ ClientsQueueNothing /\ [Next]_vars => [Contract!Next]_Contract!vars
  <2> SUFFICES ASSUME IInv, ClientsQueueNothing, [Next]_vars PROVE Maps
    BY DEF Maps
  <2>1. CASE UNCHANGED vars
    BY <2>1, UnseenSteps DEF vars, sockVars
  <2> QED BY <2>1, TclStepMaps, TclCallMaps, CtStepMaps, CtTakeMaps DEF Next
<1> QED BY <1>1, <1>2, Invariance, OnlyListenersQueue, PTL
    DEF Spec, ImplementsContract, Contract!Spec

=============================================================================
