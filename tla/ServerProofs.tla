---------------------------- MODULE ServerProofs ----------------------------
(***************************************************************************)
(* Proofs about Server, for any number of listeners, connections, interpreters and *)
(* errors.  The pool first: outstandingAccepts accounts for every AcceptEx call of  *)
(* an open listener, and there are as many as the cap asks for, whatever the values  *)
(* of -backlog.  Then the script level: no record, script, interpreter or          *)
(* connection is used after it is gone, what TcpAcceptCallbackProc goes back to is  *)
(* held, the tables and the sockets agree, and no connection is left without an    *)
(* owner, at any nesting of callbacks.                                         *)
(*                                                                          *)
(* SlotsAccounted speaks of open listeners only and is not inductive: a step may  *)
(* find a listener closing under it, whose cancelled calls are never given back, *)
(* and it needs that nothing is cancelled while the socket is open.  PoolInv adds *)
(* both.  PoolIsFull speaks of moments when nobody posts; FullInv adds, for every   *)
(* other moment, what the threads are still going to post.                       *)
(***************************************************************************)
EXTENDS Server, SequenceTheorems, TLAPS

Owed(l) == posted[l] + Waiting(l) + leaked[l] + Held("tcl", l) + Held("ct", l)

\* Where the threads are: the part of PoolTypeOK each of their steps changes.
ControlOK ==
  /\ at \in [Posters -> {"idle", "loop", "post", "undo", "issue", "shrink", "failed"}]
  /\ on \in [Posters -> Listeners \cup {NULL}]

\* A thread at work is at work on a listener.
Placed == \A p \in Posters : at[p] # "idle" => on[p] \in Listeners

\* No slot in use is uncounted; while the socket is open none is counted that is
\* not in use, and nothing has been cancelled.
Counted(l) ==
  /\ accepts[l] >= Owed(l)
  /\ life[l] \in {"none", "opening", "open"} =>
       accepts[l] = Owed(l) /\ done[l]["aborted"] = 0

PoolInv == PoolTypeOK /\ Placed /\ \A l \in Listeners : Counted(l)

\* AcceptEx calls that are still to come.  A thread in PostOverlappedAccept brings one
\* or the failure is counted in lost or leaked; the loop of the Tcl thread brings what
\* its variable is short of the cap.  One that is about to give a slot back brings
\* none, but two that do so over each other are counted in crossed.
Works(p, places, l) == at[p] \in places /\ on[p] = l
TclAhead(l) ==
  IF Works("tcl", {"loop", "post"}, l) THEN (IF cap[l] > i THEN cap[l] - i ELSE 0)
  ELSE IF Works("tcl", {"issue"}, l) THEN Missed("tcl") ELSE 0
CtAhead(l) ==
  IF Works("ct", {"post", "issue"}, l) \/ (Works("ct", {"shrink"}, l) /\ on["tcl"] # l)
  THEN 1 ELSE 0
Cross(l) == IF \A p \in Posters : Works(p, {"undo"}, l) THEN 1 ELSE 0

\* With what is to come the pool is full.  CreateTcpSocket posts IOCP_ACCEPT_CAP calls
\* whatever the cap has become, and it has become no greater.
Followed(l) == life[l] \in {"opening", "open"} /\ ~ Works("tcl", {"failed"}, l)
Filled(l) ==
  /\ life[l] \in {"none", "opening"} => cap[l] <= AcceptCap
  /\ Followed(l) =>
       Replaced(l) + crossed[l] + TclAhead(l) + CtAhead(l) + Cross(l) >= cap[l]

FullInv == PoolInv /\ \A l \in Listeners : Filled(l)

-----------------------------------------------------------------------------
(* The effect of one completion                                              *)

LEMMA TallyEffect ==
  ASSUME done \in [Listeners -> [Statuses -> Nat]], NEW k \in Listeners, NEW x \in Statuses,
         NEW d \in Int, done[k][x] + d \in Nat, done' = Tally(k, x, d)
  PROVE  /\ done' \in [Listeners -> [Statuses -> Nat]]
         /\ done'[k][x] = done[k][x] + d
         /\ \A y \in Statuses \ {x} : done'[k][y] = done[k][y]
         /\ \A l \in Listeners \ {k} : done'[l] = done[l]
         /\ \A l \in Listeners : \A y \in Statuses \ {x} : done'[l][y] = done[l][y]
<1>1. PICK g \in [Statuses -> Nat] : g = [done[k] EXCEPT ![x] = @ + d]
  OBVIOUS
<1>2. done' = [done EXCEPT ![k] = g]
  BY <1>1 DEF Tally
<1>3. done' \in [Listeners -> [Statuses -> Nat]] /\ done'[k] = g
      /\ \A l \in Listeners \ {k} : done'[l] = done[l]
  BY <1>1, <1>2
<1>4. g[x] = done[k][x] + d /\ \A y \in Statuses \ {x} : g[y] = done[k][y]
  BY <1>1
<1>5. QED BY <1>3, <1>4

\* The same for the number of completions that wait.
LEMMA TallyWaiting ==
  ASSUME done \in [Listeners -> [Statuses -> Nat]], NEW k \in Listeners, NEW x \in Statuses,
         NEW d \in Int, done[k][x] + d \in Nat, done' = Tally(k, x, d)
  PROVE  /\ Waiting(k)' = Waiting(k) + d
         /\ \A l \in Listeners \ {k} : Waiting(l)' = Waiting(l)
         /\ \A l \in Listeners : Waiting(l) \in Nat /\ Waiting(l)' \in Nat
BY TallyEffect DEF Waiting, Statuses

-----------------------------------------------------------------------------
(* One lemma for each step of the pool                                       *)

\* A slot is taken.
LEMMA PostCountKeeps ==
  ASSUME PoolInv, NEW p \in Posters, PostCount(p)
  PROVE  PoolInv'
<1> USE CapAssumption, PoolBoundsAssumption
    DEF PoolInv, Placed, PoolTypeOK, ControlOK, Posters, Statuses,
        Move, Rest, Begin, NotPosted, Posted
<1>1. PoolTypeOK'
  <2>1. accepts' \in [Listeners -> Nat]
    BY DEF PostCount, Bump, Counted, Owed, Waiting, Held
  <2>2. ControlOK' /\ i' \in Nat
    BY DEF PostCount
  <2>3. QED BY <2>1, <2>2 DEF PostCount
<1>2. Placed'
  BY DEF PostCount
<1>3. ASSUME NEW l \in Listeners
      PROVE  Counted(l)'
  BY DEF PostCount, Counted, Owed, Waiting, Held, Bump
<1>4. QED BY <1>1, <1>2, <1>3

\* A slot too many is given back.
LEMMA PostUndoKeeps ==
  ASSUME PoolInv, NEW p \in Posters, PostUndo(p)
  PROVE  PoolInv'
<1> USE CapAssumption, PoolBoundsAssumption
    DEF PoolInv, Placed, PoolTypeOK, ControlOK, Posters, Statuses,
        Move, Rest, Begin, NotPosted, Posted
<1>1. PoolTypeOK'
  <2>1. accepts' \in [Listeners -> Nat]
    BY DEF PostUndo, Bump, Counted, Owed, Waiting, Held
  <2>2. crossed' \in [Listeners -> Nat]
    BY DEF PostUndo, Bump
  <2>3. ControlOK' /\ i' \in Nat
    BY DEF PostUndo
  <2>4. QED BY <2>1, <2>2, <2>3 DEF PostUndo
<1>2. Placed'
  BY DEF PostUndo
<1>3. ASSUME NEW l \in Listeners
      PROVE  Counted(l)'
  BY DEF PostUndo, Counted, Owed, Waiting, Held, Bump
<1>4. QED BY <1>1, <1>2, <1>3

\* A slot is leaked.
LEMMA SocketFailsKeeps ==
  ASSUME PoolInv, NEW p \in Posters, SocketFails(p)
  PROVE  PoolInv'
<1> USE CapAssumption, PoolBoundsAssumption
    DEF PoolInv, Placed, PoolTypeOK, ControlOK, Posters, Statuses,
        Move, Rest, Begin, NotPosted, Posted
<1>1. PoolTypeOK'
  <2>1. leaked' \in [Listeners -> Nat]
    BY DEF SocketFails, Error, counts, Missed, Bump
  <2>2. lost' \in [Listeners -> Nat]
    BY DEF SocketFails, Error, counts, Missed, Bump
  <2>3. ControlOK' /\ i' \in Nat
    BY DEF SocketFails, Error, counts, Missed
  <2>4. errors' \in 0 .. MaxErrors
    BY DEF SocketFails, Error, counts, Missed
  <2>5. QED BY <2>1, <2>2, <2>3, <2>4 DEF SocketFails, Error, counts, Missed
<1>2. Placed'
  BY DEF SocketFails, Error, counts, Missed
<1>3. ASSUME NEW l \in Listeners
      PROVE  Counted(l)'
  <2>1. on[p] \in Listeners /\ at[p] = "issue" /\ UNCHANGED <<life, accepts, posted, done>>
    BY DEF SocketFails, counts
  <2>2. /\ leaked'[on[p]] = leaked[on[p]] + 1
        /\ \A m \in Listeners \ {on[p]} : leaked'[m] = leaked[m]
    BY <2>1 DEF SocketFails, Bump
  <2>3. \A q \in Posters : Held(q, l)' = IF q = p THEN 0 ELSE Held(q, l)
    BY DEF SocketFails, Held
  <2>4. Held(p, l) = IF l = on[p] THEN 1 ELSE 0
    BY <2>1 DEF Held
  <2>5. Waiting(l)' = Waiting(l)
    BY <2>1 DEF Waiting
  <2>6. Waiting(l) \in Nat /\ Held("tcl", l) \in Nat /\ Held("ct", l) \in Nat
    BY DEF Waiting, Held
  <2>7. Held("tcl", l)' + Held("ct", l)' = Held("tcl", l) + Held("ct", l) - Held(p, l)
    BY <2>3, <2>6
  <2>8. leaked[l] \in Nat /\ leaked'[l] = leaked[l] + Held(p, l)
    BY <2>1, <2>2, <2>4
  <2>9. /\ posted[l] \in Nat
        /\ Held("tcl", l)' \in Nat
        /\ Held("ct", l)' \in Nat
        /\ Held(p, l) \in Nat
    BY <2>4 DEF Held
  <2>10. Owed(l)' = Owed(l)
    BY <2>1, <2>5, <2>6, <2>7, <2>8, <2>9 DEF Owed
  <2>11. QED BY <2>1, <2>10 DEF Counted
<1>4. QED BY <1>1, <1>2, <1>3

\* A slot is given back.
LEMMA AcceptExFailureKeeps ==
  ASSUME PoolInv, NEW p \in Posters, AcceptExFails(p)
  PROVE  PoolInv'
<1> USE CapAssumption, PoolBoundsAssumption
    DEF PoolInv, Placed, PoolTypeOK, ControlOK, Posters, Statuses,
        Move, Rest, Begin, NotPosted, Posted
<1>1. PoolTypeOK'
  <2>1. accepts' \in [Listeners -> Nat]
    BY DEF AcceptExFails, Error, Missed, Bump, Counted, Owed, Waiting, Held
  <2>2. lost' \in [Listeners -> Nat]
    BY DEF AcceptExFails, Error, Missed, Bump
  <2>3. ControlOK' /\ i' \in Nat
    BY DEF AcceptExFails, Error, Missed
  <2>4. errors' \in 0 .. MaxErrors
    BY DEF AcceptExFails, Error, Missed
  <2>5. QED BY <2>1, <2>2, <2>3, <2>4 DEF AcceptExFails, Error, Missed
<1>2. Placed'
  BY DEF AcceptExFails, Error, Missed
<1>3. ASSUME NEW l \in Listeners
      PROVE  Counted(l)'
  BY DEF AcceptExFails, Error, Missed, Counted, Owed, Waiting, Held, Bump
<1>4. QED BY <1>1, <1>2, <1>3

\* A slot goes to the kernel.
LEMMA PostIssueKeeps ==
  ASSUME PoolInv, NEW p \in Posters, PostIssue(p)
  PROVE  PoolInv'
<1> USE CapAssumption, PoolBoundsAssumption
    DEF PoolInv, Placed, PoolTypeOK, ControlOK, Posters, Statuses,
        Move, Rest, Begin, NotPosted, Posted
<1>1. PoolTypeOK'
  <2>1. posted' \in [Listeners -> Nat]
    BY DEF PostIssue, Bump
  <2>2. ControlOK' /\ i' \in Nat
    BY DEF PostIssue
  <2>3. QED BY <2>1, <2>2 DEF PostIssue
<1>2. Placed'
  BY DEF PostIssue
<1>3. ASSUME NEW l \in Listeners
      PROVE  Counted(l)'
  BY DEF PostIssue, Counted, Owed, Waiting, Held, Bump
<1>4. QED BY <1>1, <1>2, <1>3

\* The loops decide whether to post.
LEMMA LoopKeeps ==
  ASSUME PoolInv, Loop
  PROVE  PoolInv'
<1> USE CapAssumption, PoolBoundsAssumption
    DEF PoolInv, Placed, PoolTypeOK, ControlOK, Posters, Statuses,
        Move, Rest, Begin, NotPosted, Posted
<1>1. PoolTypeOK'
  <2>1. ControlOK' /\ i' \in Nat
    BY DEF Loop, counts
  <2>2. QED BY <2>1 DEF Loop, counts
<1>2. Placed'
  BY DEF Loop, counts
<1>3. ASSUME NEW l \in Listeners
      PROVE  Counted(l)'
  BY DEF Loop, counts, Counted, Owed, Waiting, Held, Bump
<1>4. QED BY <1>1, <1>2, <1>3

\* A listener is opened.
LEMMA OpenBeginKeeps ==
  ASSUME PoolInv, NEW k \in Listeners, OpenBegin(k)
  PROVE  PoolInv'
<1> USE CapAssumption, PoolBoundsAssumption
    DEF PoolInv, Placed, PoolTypeOK, ControlOK, Posters, Statuses,
        Move, Rest, Begin, NotPosted, Posted
<1>1. PoolTypeOK'
  <2>1. life' \in [Listeners -> {"none", "opening", "open", "failed", "closing"}]
    BY DEF OpenBegin, TclFree, counts
  <2>2. ControlOK' /\ i' \in Nat
    BY DEF OpenBegin, TclFree, counts
  <2>3. QED BY <2>1, <2>2 DEF OpenBegin, TclFree, counts
<1>2. Placed'
  BY DEF OpenBegin, TclFree, counts
<1>3. ASSUME NEW l \in Listeners
      PROVE  Counted(l)'
  BY DEF OpenBegin, TclFree, counts, Counted, Owed, Waiting, Held, Bump
<1>4. QED BY <1>1, <1>2, <1>3

\* It has its first AcceptEx calls.
LEMMA OpenDoneKeeps ==
  ASSUME PoolInv, NEW k \in Listeners, OpenDone(k)
  PROVE  PoolInv'
<1> USE CapAssumption, PoolBoundsAssumption
    DEF PoolInv, Placed, PoolTypeOK, ControlOK, Posters, Statuses,
        Move, Rest, Begin, NotPosted, Posted
<1>1. PoolTypeOK'
  <2>1. life' \in [Listeners -> {"none", "opening", "open", "failed", "closing"}]
    BY DEF OpenDone, counts
  <2>2. ControlOK' /\ i' \in Nat
    BY DEF OpenDone, counts
  <2>3. QED BY <2>1, <2>2 DEF OpenDone, counts
<1>2. Placed'
  BY DEF OpenDone, counts
<1>3. ASSUME NEW l \in Listeners
      PROVE  Counted(l)'
  BY DEF OpenDone, counts, Counted, Owed, Waiting, Held, Bump
<1>4. QED BY <1>1, <1>2, <1>3

\* It could not be opened.
LEMMA OpenFailsKeeps ==
  ASSUME PoolInv, NEW k \in Listeners, OpenFails(k)
  PROVE  PoolInv'
<1> USE CapAssumption, PoolBoundsAssumption
    DEF PoolInv, Placed, PoolTypeOK, ControlOK, Posters, Statuses,
        Move, Rest, Begin, NotPosted, Posted
<1>1. PoolTypeOK'
  <2>1. life' \in [Listeners -> {"none", "opening", "open", "failed", "closing"}]
    BY DEF OpenFails, Forget
  <2>2. {posted', ready', leaked', lost', crossed'} \subseteq [Listeners -> Nat]
    BY DEF OpenFails, Forget, Bump
  <2>3. ControlOK' /\ i' \in Nat
    BY DEF OpenFails, Forget
  <2>4. QED BY <2>1, <2>2, <2>3 DEF OpenFails, Forget
<1>2. Placed'
  BY DEF OpenFails, Forget
<1>3. ASSUME NEW l \in Listeners
      PROVE  Counted(l)'
  BY DEF OpenFails, Forget, Counted, Owed, Waiting, Held, Bump
<1>4. QED BY <1>1, <1>2, <1>3

\* The cap is set.
LEMMA BacklogKeeps ==
  ASSUME PoolInv, NEW k \in Listeners, NEW n \in Backlogs, Backlog(k, n)
  PROVE  PoolInv'
<1> USE CapAssumption, PoolBoundsAssumption
    DEF PoolInv, Placed, PoolTypeOK, ControlOK, Posters, Statuses,
        Move, Rest, Begin, NotPosted, Posted
<1>1. PoolTypeOK'
  <2>1. cap' \in [Listeners -> Int]
    BY DEF Backlog, TclFree, Bump
  <2>2. ControlOK' /\ i' \in Nat
    BY DEF Backlog, TclFree
  <2>3. lost' \in [Listeners -> Nat] /\ crossed' \in [Listeners -> Nat]
    BY DEF Backlog, TclFree, Bump
  <2>4. QED BY <2>1, <2>2, <2>3 DEF Backlog, TclFree
<1>2. Placed'
  BY DEF Backlog, TclFree
<1>3. ASSUME NEW l \in Listeners
      PROVE  Counted(l)'
  BY DEF Backlog, TclFree, Counted, Owed, Waiting, Held, Bump
<1>4. QED BY <1>1, <1>2, <1>3

\* A connection is taken.
LEMMA TakeKeeps ==
  ASSUME PoolInv, NEW k \in Listeners, Take(k)
  PROVE  PoolInv'
<1> USE CapAssumption, PoolBoundsAssumption
    DEF PoolInv, Placed, PoolTypeOK, ControlOK, Posters, Statuses,
        Move, Rest, Begin, NotPosted, Posted
<1>1. PoolTypeOK'
  <2>1. ready' \in [Listeners -> Nat]
    BY DEF Take, TclFree, counts, Bump
  <2>2. QED BY <2>1 DEF Take, TclFree, counts
<1>2. Placed'
  BY DEF Take, TclFree, counts
<1>3. ASSUME NEW l \in Listeners
      PROVE  Counted(l)'
  BY DEF Take, TclFree, counts, Counted, Owed, Waiting, Held, Bump
<1>4. QED BY <1>1, <1>2, <1>3

\* Listeners are closed.
LEMMA PoolCloseKeeps ==
  ASSUME PoolInv, NEW L \in SUBSET Listeners, PoolClose(L)
  PROVE  PoolInv'
<1> USE CapAssumption, PoolBoundsAssumption
    DEF PoolInv, Placed, PoolTypeOK, ControlOK, Posters, Statuses,
        Move, Rest, Begin, NotPosted, Posted
<1>1. PoolTypeOK'
  <2>1. life' \in [Listeners -> {"none", "opening", "open", "failed", "closing"}]
    BY DEF PoolClose, TclFree, Forget
  <2>2. {posted', ready', leaked', lost', crossed'} \subseteq [Listeners -> Nat]
    BY DEF PoolClose, TclFree, Forget, Bump
  <2>3. done' \in [Listeners -> [Statuses -> Nat]]
    BY DEF PoolClose, TclFree, Forget
  <2>4. QED BY <2>1, <2>2, <2>3 DEF PoolClose, TclFree, Forget
<1>2. Placed'
  BY DEF PoolClose, TclFree, Forget
<1>3. ASSUME NEW l \in Listeners
      PROVE  Counted(l)'
  BY DEF PoolClose, TclFree, Forget, Counted, Owed, Waiting, Held, Bump
<1>4. QED BY <1>1, <1>2, <1>3

\* The kernel returns a call.
LEMMA CompleteKeeps ==
  ASSUME PoolInv, NEW k \in Listeners, Complete(k)
  PROVE  PoolInv'
<1> USE CapAssumption, PoolBoundsAssumption
    DEF PoolInv, Placed, PoolTypeOK, ControlOK, Posters, Statuses,
        Move, Rest, Begin, NotPosted, Posted
<1>0. PICK x \in {"conn", "error", "nobufs"} : done' = Tally(k, x, 1)
  BY DEF Complete
<1>a. done[k][x] + 1 \in Nat /\ x \in Statuses
  OBVIOUS
<1>b. /\ done' \in [Listeners -> [Statuses -> Nat]]
      /\ \A l \in Listeners : done'[l]["aborted"] = done[l]["aborted"]
  BY <1>0, <1>a, TallyEffect
<1>c. /\ Waiting(k)' = Waiting(k) + 1
      /\ \A l \in Listeners \ {k} : Waiting(l)' = Waiting(l)
      /\ \A l \in Listeners : Waiting(l) \in Nat /\ Waiting(l)' \in Nat
  BY <1>0, <1>a, TallyWaiting
<1>1. PoolTypeOK'
  <2>1. posted' \in [Listeners -> Nat]
    BY DEF Complete, Error, Bump
  <2>2. done' \in [Listeners -> [Statuses -> Nat]]
    BY <1>b
  <2>3. conns' \in 0 .. MaxConns /\ errors' \in 0 .. MaxErrors
    BY DEF Complete, Error
  <2>4. QED BY <2>1, <2>2, <2>3 DEF Complete, Error
<1>2. Placed'
  BY DEF Complete, Error
<1>3. ASSUME NEW l \in Listeners
      PROVE  Counted(l)'
  <2>1. posted'[k] = posted[k] - 1 /\ \A m \in Listeners \ {k} : posted'[m] = posted[m]
    BY DEF Complete, Bump
  <2>2. UNCHANGED <<life, accepts, at, on, leaked>>
    BY DEF Complete
  <2>3. Held("tcl", l)' = Held("tcl", l) /\ Held("ct", l)' = Held("ct", l)
    BY <2>2 DEF Held
  <2>4. QED BY <1>b, <1>c, <2>1, <2>2, <2>3 DEF Counted, Owed, Held
<1>4. QED BY <1>1, <1>2, <1>3

\* A connection is handled.
LEMMA HandleAcceptKeeps ==
  ASSUME PoolInv, NEW k \in Listeners, HandleAccept(k)
  PROVE  PoolInv'
<1> USE CapAssumption, PoolBoundsAssumption
    DEF PoolInv, Placed, PoolTypeOK, ControlOK, Posters, Statuses,
        Move, Rest, Begin, NotPosted, Posted
<1>a. done[k]["conn"] + (-1) \in Nat /\ done' = Tally(k, "conn", -1)
  BY DEF HandleAccept, Handles
<1>b. /\ done' \in [Listeners -> [Statuses -> Nat]]
      /\ \A l \in Listeners : done'[l]["aborted"] = done[l]["aborted"]
  BY <1>a, TallyEffect
<1>c. /\ Waiting(k)' = Waiting(k) - 1
      /\ \A l \in Listeners \ {k} : Waiting(l)' = Waiting(l)
      /\ \A l \in Listeners : Waiting(l) \in Nat /\ Waiting(l)' \in Nat
  BY <1>a, TallyWaiting
<1>1. PoolTypeOK'
  <2>1. accepts' \in [Listeners -> Nat]
    BY DEF HandleAccept, Handles, Bump, Counted, Owed, Waiting, Held
  <2>2. done' \in [Listeners -> [Statuses -> Nat]]
    BY <1>b
  <2>3. ready' \in [Listeners -> Nat]
    BY DEF HandleAccept, Handles, Bump
  <2>4. ControlOK'
    BY DEF HandleAccept, Handles
  <2>5. QED BY <2>1, <2>2, <2>3, <2>4 DEF HandleAccept, Handles
<1>2. Placed'
  BY DEF HandleAccept, Handles
<1>3. ASSUME NEW l \in Listeners
      PROVE  Counted(l)'
  <2>1. /\ accepts'[k] = accepts[k] - 1
        /\ \A m \in Listeners \ {k} : accepts'[m] = accepts[m]
        /\ UNCHANGED <<life, posted, leaked>>
    BY DEF HandleAccept, Handles, Bump
  <2>2. Held("tcl", l)' = Held("tcl", l) /\ Held("ct", l) = 0 /\ Held("ct", l)' = 0
    BY DEF HandleAccept, Handles, Held
  <2>3. /\ Held("tcl", l) \in Nat
        /\ posted[l] \in Nat
        /\ leaked[l] \in Nat
        /\ accepts[l] \in Nat
    BY DEF Held
  <2>4. Counted(l)
    OBVIOUS
  <2> HIDE DEF PoolInv, Placed, PoolTypeOK, ControlOK, Posters, Statuses
  <2>5. CASE l = k
    BY <1>b, <1>c, <2>1, <2>2, <2>3, <2>4, <2>5 DEF Counted, Owed
  <2>6. CASE l # k
    BY <1>b, <1>c, <2>1, <2>2, <2>3, <2>4, <2>6 DEF Counted, Owed
  <2>7. QED BY <2>5, <2>6
<1>4. QED BY <1>1, <1>2, <1>3

\* An error is handled.
LEMMA HandleErrorKeeps ==
  ASSUME PoolInv, NEW k \in Listeners, HandleError(k)
  PROVE  PoolInv'
<1> USE CapAssumption, PoolBoundsAssumption
    DEF PoolInv, Placed, PoolTypeOK, ControlOK, Posters, Statuses,
        Move, Rest, Begin, NotPosted, Posted
<1>a. done[k]["error"] + (-1) \in Nat /\ done' = Tally(k, "error", -1)
  BY DEF HandleError, Handles
<1>b. /\ done' \in [Listeners -> [Statuses -> Nat]]
      /\ \A l \in Listeners : done'[l]["aborted"] = done[l]["aborted"]
  BY <1>a, TallyEffect
<1>c. /\ Waiting(k)' = Waiting(k) - 1
      /\ \A l \in Listeners \ {k} : Waiting(l)' = Waiting(l)
      /\ \A l \in Listeners : Waiting(l) \in Nat /\ Waiting(l)' \in Nat
  BY <1>a, TallyWaiting
<1>1. PoolTypeOK'
  <2>1. accepts' \in [Listeners -> Nat]
    BY DEF HandleError, Handles, Bump, Counted, Owed, Waiting, Held
  <2>2. done' \in [Listeners -> [Statuses -> Nat]]
    BY <1>b
  <2>3. ControlOK'
    BY DEF HandleError, Handles
  <2>4. QED BY <2>1, <2>2, <2>3 DEF HandleError, Handles
<1>2. Placed'
  BY DEF HandleError, Handles
<1>3. ASSUME NEW l \in Listeners
      PROVE  Counted(l)'
  <2>1. /\ accepts'[k] = accepts[k] - 1
        /\ \A m \in Listeners \ {k} : accepts'[m] = accepts[m]
        /\ UNCHANGED <<life, posted, leaked>>
    BY DEF HandleError, Handles, Bump
  <2>2. Held("tcl", l)' = Held("tcl", l) /\ Held("ct", l) = 0 /\ Held("ct", l)' = 0
    BY DEF HandleError, Handles, Held
  <2>3. /\ Held("tcl", l) \in Nat
        /\ posted[l] \in Nat
        /\ leaked[l] \in Nat
        /\ accepts[l] \in Nat
    BY DEF Held
  <2>4. Counted(l)
    OBVIOUS
  <2> HIDE DEF PoolInv, Placed, PoolTypeOK, ControlOK, Posters, Statuses
  <2>5. CASE l = k
    BY <1>b, <1>c, <2>1, <2>2, <2>3, <2>4, <2>5 DEF Counted, Owed
  <2>6. CASE l # k
    BY <1>b, <1>c, <2>1, <2>2, <2>3, <2>4, <2>6 DEF Counted, Owed
  <2>7. QED BY <2>5, <2>6
<1>4. QED BY <1>1, <1>2, <1>3

\* WSAENOBUFS is handled.
LEMMA HandleNoBufsKeeps ==
  ASSUME PoolInv, NEW k \in Listeners, HandleNoBufs(k)
  PROVE  PoolInv'
<1> USE CapAssumption, PoolBoundsAssumption
    DEF PoolInv, Placed, PoolTypeOK, ControlOK, Posters, Statuses,
        Move, Rest, Begin, NotPosted, Posted
<1>a. done[k]["nobufs"] + (-1) \in Nat /\ done' = Tally(k, "nobufs", -1)
  BY DEF HandleNoBufs, Handles
<1>b. /\ done' \in [Listeners -> [Statuses -> Nat]]
      /\ \A l \in Listeners : done'[l]["aborted"] = done[l]["aborted"]
  BY <1>a, TallyEffect
<1>c. /\ Waiting(k)' = Waiting(k) - 1
      /\ \A l \in Listeners \ {k} : Waiting(l)' = Waiting(l)
      /\ \A l \in Listeners : Waiting(l) \in Nat /\ Waiting(l)' \in Nat
  BY <1>a, TallyWaiting
<1>1. PoolTypeOK'
  <2>1. accepts' \in [Listeners -> Nat]
    BY DEF HandleNoBufs, Handles, Bump, Counted, Owed, Waiting, Held
  <2>2. done' \in [Listeners -> [Statuses -> Nat]]
    BY <1>b
  <2>3. lost' \in [Listeners -> Nat]
    BY DEF HandleNoBufs, Handles, Bump
  <2>4. ControlOK'
    BY DEF HandleNoBufs, Handles
  <2>5. QED BY <2>1, <2>2, <2>3, <2>4 DEF HandleNoBufs, Handles
<1>2. Placed'
  BY DEF HandleNoBufs, Handles
<1>3. ASSUME NEW l \in Listeners
      PROVE  Counted(l)'
  <2>1. /\ accepts'[k] = accepts[k] - 1
        /\ \A m \in Listeners \ {k} : accepts'[m] = accepts[m]
        /\ UNCHANGED <<life, posted, leaked>>
    BY DEF HandleNoBufs, Handles, Bump
  <2>2. Held("tcl", l)' = Held("tcl", l) /\ Held("ct", l) = 0 /\ Held("ct", l)' = 0
    BY DEF HandleNoBufs, Handles, Held
  <2>3. /\ Held("tcl", l) \in Nat
        /\ posted[l] \in Nat
        /\ leaked[l] \in Nat
        /\ accepts[l] \in Nat
    BY DEF Held
  <2>4. Counted(l)
    OBVIOUS
  <2> HIDE DEF PoolInv, Placed, PoolTypeOK, ControlOK, Posters, Statuses
  <2>5. CASE l = k
    BY <1>b, <1>c, <2>1, <2>2, <2>3, <2>4, <2>5 DEF Counted, Owed
  <2>6. CASE l # k
    BY <1>b, <1>c, <2>1, <2>2, <2>3, <2>4, <2>6 DEF Counted, Owed
  <2>7. QED BY <2>5, <2>6
<1>4. QED BY <1>1, <1>2, <1>3

\* The cap is lowered.
LEMMA ShrinkKeeps ==
  ASSUME PoolInv, Shrink
  PROVE  PoolInv'
<1> USE CapAssumption, PoolBoundsAssumption
    DEF PoolInv, Placed, PoolTypeOK, ControlOK, Posters, Statuses,
        Move, Rest, Begin, NotPosted, Posted
<1>1. PoolTypeOK'
  <2>1. cap' \in [Listeners -> Int]
    BY DEF Shrink, Bump
  <2>2. ControlOK'
    BY DEF Shrink
  <2>3. QED BY <2>1, <2>2 DEF Shrink
<1>2. Placed'
  BY DEF Shrink
<1>3. ASSUME NEW l \in Listeners
      PROVE  Counted(l)'
  BY DEF Shrink, Counted, Owed, Waiting, Held, Bump
<1>4. QED BY <1>1, <1>2, <1>3

\* A cancelled call is handled.
LEMMA HandleAbortedKeeps ==
  ASSUME PoolInv, NEW k \in Listeners, HandleAborted(k)
  PROVE  PoolInv'
<1> USE CapAssumption, PoolBoundsAssumption
    DEF PoolInv, Placed, PoolTypeOK, ControlOK, Posters, Statuses,
        Move, Rest, Begin, NotPosted, Posted
<1>1. PoolTypeOK'
  <2>1. accepts' \in [Listeners -> Nat]
    BY DEF HandleAborted, Handles, Tally, Bump, Counted, Owed, Waiting, Held
  <2>2. done' \in [Listeners -> [Statuses -> Nat]]
    BY DEF HandleAborted, Handles, Tally
  <2>3. QED BY <2>1, <2>2 DEF HandleAborted, Handles, Tally
<1>2. Placed'
  BY DEF HandleAborted, Handles, Tally
<1>3. ASSUME NEW l \in Listeners
      PROVE  Counted(l)'
  BY DEF HandleAborted, Handles, Tally, Counted, Owed, Waiting, Held, Bump
<1>4. QED BY <1>1, <1>2, <1>3

-----------------------------------------------------------------------------
(* The theorem                                                               *)

LEMMA PoolInitial == Init => PoolInv
BY CapAssumption, PoolBoundsAssumption
   DEF Init, PoolInit, PoolInv, PoolTypeOK, Placed, Counted, Owed, Waiting, Held,
       Posters, Statuses

LEMMA PostKeeps ==
  ASSUME PoolInv, NEW p \in Posters, PostOverlappedAccept(p)
  PROVE  PoolInv'
BY PostCountKeeps, PostUndoKeeps, SocketFailsKeeps, AcceptExFailureKeeps, PostIssueKeeps
   DEF PostOverlappedAccept

LEMMA PoolStutters ==
  ASSUME PoolInv, UNCHANGED poolVars
  PROVE  PoolInv'
BY DEF PoolInv, poolVars, PoolTypeOK, Placed, Counted, Owed, Waiting, Held

\* Any step of the server keeps PoolInv.
LEMMA PoolStep == PoolInv /\ [Next]_vars => PoolInv'
<1> SUFFICES ASSUME PoolInv, [Next]_vars PROVE PoolInv'
  OBVIOUS
<1>1. CASE \E p \in Interps, l \in Listeners : Socket2(p, l)
  BY <1>1, OpenBeginKeeps DEF Socket2
<1>2. CASE \E l \in Listeners : Socket2Done(l) \/ Socket2Fails(l)
  BY <1>2, OpenDoneKeeps, OpenFailsKeeps DEF Socket2Done, Socket2Fails
<1>3. CASE \E l \in Listeners, n \in Backlogs : SetBacklog(l, n)
  BY <1>3, BacklogKeeps DEF SetBacklog
<1>4. CASE \E l \in Listeners, c \in Conns : AcceptOne(l, c)
  BY <1>4, TakeKeeps DEF AcceptOne
<1>5. CASE Scripts
  BY <1>5, PoolCloseKeeps DEF Scripts
<1>6. CASE TclPosts \/ CompletionThread
  <2>1. CASE TclPosts
    BY <2>1, PostKeeps, LoopKeeps DEF TclPosts, Posters
  <2>2. CASE CompletionThread
    BY <2>2, PostKeeps, ShrinkKeeps, CompleteKeeps, HandleAcceptKeeps, HandleErrorKeeps,
       HandleNoBufsKeeps, HandleAbortedKeeps DEF CompletionThread, Posters
  <2>3. QED BY <1>6, <2>1, <2>2
<1>7. CASE UNCHANGED vars
  BY <1>7, PoolStutters DEF vars
<1>8. QED BY <1>1, <1>2, <1>3, <1>4, <1>5, <1>6, <1>7 DEF Next

LEMMA PoolInvImplies == PoolInv => SlotsAccounted /\ PoolTypeOK
BY DEF PoolInv, Counted, SlotsAccounted, Owed

\* outstandingAccepts accounts for every AcceptEx of every open listener, whichever
\* thread posts, completes or gives up when.
THEOREM SlotsAlwaysAccounted == Spec => []SlotsAccounted
<1>1. Init => PoolInv
  BY PoolInitial
<1>2. PoolInv /\ [Next]_vars => PoolInv'
  BY PoolStep
<1>3. PoolInv => SlotsAccounted
  BY PoolInvImplies
<1>4. QED BY <1>1, <1>2, <1>3, PTL DEF Spec

-----------------------------------------------------------------------------
(* The pool is full                                                          *)

\* What the numbers of a listener are.
LEMMA PoolNumbers ==
  ASSUME PoolInv, NEW l \in Listeners
  PROVE  /\ posted[l] \in Nat /\ Waiting(l) \in Nat /\ leaked[l] \in Nat /\ lost[l] \in Nat
         /\ crossed[l] \in Nat /\ accepts[l] \in Nat /\ cap[l] \in Int /\ i \in Nat
         /\ life[l] \in {"opening", "open"} =>
              accepts[l] = posted[l] + Waiting(l) + leaked[l] + Held("tcl", l) + Held("ct", l)
BY DEF PoolInv, PoolTypeOK, Counted, Owed, Waiting, Statuses

\* What a thread does for one listener is nothing to another.
LEMMA FilledElsewhere ==
  ASSUME NEW l \in Listeners, Filled(l), NEW p \in Posters,
         on[p] # l, on'[p] # l,
         \A q \in Posters \ {p} : at'[q] = at[q] /\ on'[q] = on[q],
         p = "ct" => i' = i,
         life'[l] = life[l], cap'[l] = cap[l], posted'[l] = posted[l],
         Waiting(l)' = Waiting(l), leaked'[l] = leaked[l], lost'[l] = lost[l],
         crossed'[l] = crossed[l]
  PROVE  Filled(l)'
<1>1. Replaced(l)' = Replaced(l)
  BY DEF Replaced
<1>2. Posters = {"tcl", "ct"} /\ "tcl" \in Posters /\ "ct" \in Posters
  BY DEF Posters
<1>3. CASE p = "tcl"
  <2>1. at'["ct"] = at["ct"] /\ on'["ct"] = on["ct"] /\ on["tcl"] # l /\ on'["tcl"] # l
    BY <1>2, <1>3
  <2>2. TclAhead(l)' = TclAhead(l) /\ CtAhead(l)' = CtAhead(l) /\ Cross(l)' = Cross(l)
    BY <1>2, <2>1 DEF TclAhead, CtAhead, Cross, Works
  <2>3. Followed(l)' <=> Followed(l)
    BY <2>1 DEF Followed, Works
  <2> QED BY <1>1, <2>2, <2>3 DEF Filled
<1>4. CASE p = "ct"
  <2>1. /\ at'["tcl"] = at["tcl"] /\ on'["tcl"] = on["tcl"] /\ on["ct"] # l /\ on'["ct"] # l
        /\ i' = i
    BY <1>2, <1>4
  <2>2. TclAhead(l)' = TclAhead(l) /\ CtAhead(l)' = CtAhead(l) /\ Cross(l)' = Cross(l)
    <3>1. TclAhead(l)' = TclAhead(l)
      BY <2>1 DEF TclAhead, Works, Missed
    <3>2. CtAhead(l)' = CtAhead(l) /\ Cross(l)' = Cross(l)
      BY <1>2, <2>1 DEF CtAhead, Cross, Works
    <3> QED BY <3>1, <3>2
  <2>3. Followed(l)' <=> Followed(l)
    BY <2>1 DEF Followed, Works
  <2> QED BY <1>1, <2>2, <2>3 DEF Filled
<1> QED BY <1>2, <1>3, <1>4

\* A slot is counted, or there are enough.
LEMMA PostCountFills ==
  ASSUME PoolInv, NEW l \in Listeners, Filled(l), NEW p \in Posters, PostCount(p)
  PROVE  Filled(l)'
<1> USE DEF Posters, Move, Rest, Begin, NotPosted, Posted, Bump
<1>1. /\ PoolTypeOK /\ on[p] \in Listeners /\ on' \in [Posters -> Listeners \cup {NULL}]
      /\ Waiting(l)' = Waiting(l)
  BY DEF PoolInv, Placed, PoolTypeOK, PostCount, Waiting
<1>2. CASE on[p] # l
  <2>1. on'[p] # l
    BY <1>1, <1>2, NullAssumption DEF PoolTypeOK, PostCount
  <2>2. /\ \A q \in Posters \ {p} : at'[q] = at[q] /\ on'[q] = on[q]
        /\ p = "ct" => i' = i
        /\ life'[l] = life[l] /\ cap'[l] = cap[l] /\ posted'[l] = posted[l]
        /\ leaked'[l] = leaked[l] /\ lost'[l] = lost[l] /\ crossed'[l] = crossed[l]
    BY <1>1, <1>2 DEF PoolTypeOK, PostCount
  <2> QED BY <1>1, <1>2, <2>1, <2>2, FilledElsewhere
<1>3. CASE on[p] = l /\ p = "tcl"
  BY <1>1, <1>3, PoolNumbers, NullAssumption
     DEF PoolTypeOK, Filled, Followed, Works, TclAhead, CtAhead, Cross, Missed, Replaced,
         Held, PostCount
<1>4. CASE on[p] = l /\ p = "ct"
  BY <1>1, <1>4, PoolNumbers, NullAssumption
     DEF PoolTypeOK, Filled, Followed, Works, TclAhead, CtAhead, Cross, Missed, Replaced,
         Held, PostCount
<1> QED BY <1>2, <1>3, <1>4

\* A slot too many is given back: the pool is full, or the other thread's is one too.
LEMMA PostUndoFills ==
  ASSUME PoolInv, NEW l \in Listeners, Filled(l), NEW p \in Posters, PostUndo(p)
  PROVE  Filled(l)'
<1> USE DEF Posters, Move, Rest, Begin, NotPosted, Posted, Bump
<1>1. /\ PoolTypeOK /\ on[p] \in Listeners /\ on' \in [Posters -> Listeners \cup {NULL}]
      /\ Waiting(l)' = Waiting(l)
  BY DEF PoolInv, Placed, PoolTypeOK, PostUndo, Waiting
<1>2. CASE on[p] # l
  <2>1. on'[p] # l
    BY <1>1, <1>2, NullAssumption DEF PoolTypeOK, PostUndo
  <2>2. /\ \A q \in Posters \ {p} : at'[q] = at[q] /\ on'[q] = on[q]
        /\ p = "ct" => i' = i
        /\ life'[l] = life[l] /\ cap'[l] = cap[l] /\ posted'[l] = posted[l]
        /\ leaked'[l] = leaked[l] /\ lost'[l] = lost[l] /\ crossed'[l] = crossed[l]
    BY <1>1, <1>2 DEF PoolTypeOK, PostUndo
  <2> QED BY <1>1, <1>2, <2>1, <2>2, FilledElsewhere
<1>3. CASE on[p] = l /\ p = "tcl"
  BY <1>1, <1>3, PoolNumbers, NullAssumption
     DEF PoolTypeOK, Filled, Followed, Works, TclAhead, CtAhead, Cross, Missed, Replaced,
         Held, PostUndo
<1>4. CASE on[p] = l /\ p = "ct"
  BY <1>1, <1>4, PoolNumbers, NullAssumption
     DEF PoolTypeOK, Filled, Followed, Works, TclAhead, CtAhead, Cross, Missed, Replaced,
         Held, PostUndo
<1> QED BY <1>2, <1>3, <1>4

\* A slot is leaked.
LEMMA SocketFailsFills ==
  ASSUME PoolInv, NEW l \in Listeners, Filled(l), NEW p \in Posters, SocketFails(p)
  PROVE  Filled(l)'
<1> USE DEF Posters, Move, Rest, Begin, NotPosted, Posted, Bump
<1>1. /\ PoolTypeOK /\ on[p] \in Listeners /\ on' \in [Posters -> Listeners \cup {NULL}]
      /\ Waiting(l)' = Waiting(l)
  BY DEF PoolInv, Placed, PoolTypeOK, SocketFails, counts, Waiting
<1>2. CASE on[p] # l
  <2>1. on'[p] # l
    BY <1>1, <1>2, NullAssumption DEF PoolTypeOK, SocketFails, counts
  <2>2. /\ \A q \in Posters \ {p} : at'[q] = at[q] /\ on'[q] = on[q]
        /\ p = "ct" => i' = i
        /\ life'[l] = life[l] /\ cap'[l] = cap[l] /\ posted'[l] = posted[l]
        /\ leaked'[l] = leaked[l] /\ lost'[l] = lost[l] /\ crossed'[l] = crossed[l]
    BY <1>1, <1>2 DEF PoolTypeOK, SocketFails, counts
  <2> QED BY <1>1, <1>2, <2>1, <2>2, FilledElsewhere
<1>3. CASE on[p] = l /\ p = "tcl"
  BY <1>1, <1>3, PoolNumbers, NullAssumption
     DEF PoolTypeOK, Filled, Followed, Works, TclAhead, CtAhead, Cross, Missed, Replaced,
         Held, SocketFails, counts
<1>4. CASE on[p] = l /\ p = "ct"
  BY <1>1, <1>4, PoolNumbers, NullAssumption
     DEF PoolTypeOK, Filled, Followed, Works, TclAhead, CtAhead, Cross, Missed, Replaced,
         Held, SocketFails, counts
<1> QED BY <1>2, <1>3, <1>4

\* A slot is given back, with the ones the Tcl thread does not come to.
LEMMA AcceptExFailureFills ==
  ASSUME PoolInv, NEW l \in Listeners, Filled(l), NEW p \in Posters, AcceptExFails(p)
  PROVE  Filled(l)'
<1> USE DEF Posters, Move, Rest, Begin, NotPosted, Posted, Bump
<1>1. /\ PoolTypeOK /\ on[p] \in Listeners /\ on' \in [Posters -> Listeners \cup {NULL}]
      /\ Waiting(l)' = Waiting(l)
  BY DEF PoolInv, Placed, PoolTypeOK, AcceptExFails, Waiting
<1>2. CASE on[p] # l
  <2>1. on'[p] # l
    BY <1>1, <1>2, NullAssumption DEF PoolTypeOK, AcceptExFails
  <2>2. /\ \A q \in Posters \ {p} : at'[q] = at[q] /\ on'[q] = on[q]
        /\ p = "ct" => i' = i
        /\ life'[l] = life[l] /\ cap'[l] = cap[l] /\ posted'[l] = posted[l]
        /\ leaked'[l] = leaked[l] /\ lost'[l] = lost[l] /\ crossed'[l] = crossed[l]
    BY <1>1, <1>2 DEF PoolTypeOK, AcceptExFails
  <2> QED BY <1>1, <1>2, <2>1, <2>2, FilledElsewhere
<1>3. CASE on[p] = l /\ p = "tcl"
  BY <1>1, <1>3, PoolNumbers, NullAssumption
     DEF PoolTypeOK, Filled, Followed, Works, TclAhead, CtAhead, Cross, Missed, Replaced,
         Held, AcceptExFails
<1>4. CASE on[p] = l /\ p = "ct"
  BY <1>1, <1>4, PoolNumbers, NullAssumption
     DEF PoolTypeOK, Filled, Followed, Works, TclAhead, CtAhead, Cross, Missed, Replaced,
         Held, AcceptExFails
<1> QED BY <1>2, <1>3, <1>4

\* A slot goes to the kernel.
LEMMA PostIssueFills ==
  ASSUME PoolInv, NEW l \in Listeners, Filled(l), NEW p \in Posters, PostIssue(p)
  PROVE  Filled(l)'
<1> USE DEF Posters, Move, Rest, Begin, NotPosted, Posted, Bump
<1>1. /\ PoolTypeOK /\ on[p] \in Listeners /\ on' \in [Posters -> Listeners \cup {NULL}]
      /\ Waiting(l)' = Waiting(l)
  BY DEF PoolInv, Placed, PoolTypeOK, PostIssue, Waiting
<1>2. CASE on[p] # l
  <2>1. on'[p] # l
    BY <1>1, <1>2, NullAssumption DEF PoolTypeOK, PostIssue
  <2>2. /\ \A q \in Posters \ {p} : at'[q] = at[q] /\ on'[q] = on[q]
        /\ p = "ct" => i' = i
        /\ life'[l] = life[l] /\ cap'[l] = cap[l] /\ posted'[l] = posted[l]
        /\ leaked'[l] = leaked[l] /\ lost'[l] = lost[l] /\ crossed'[l] = crossed[l]
    BY <1>1, <1>2 DEF PoolTypeOK, PostIssue
  <2> QED BY <1>1, <1>2, <2>1, <2>2, FilledElsewhere
<1>3. CASE on[p] = l /\ p = "tcl"
  BY <1>1, <1>3, PoolNumbers, NullAssumption
     DEF PoolTypeOK, Filled, Followed, Works, TclAhead, CtAhead, Cross, Missed, Replaced,
         Held, PostIssue
<1>4. CASE on[p] = l /\ p = "ct"
  BY <1>1, <1>4, PoolNumbers, NullAssumption
     DEF PoolTypeOK, Filled, Followed, Works, TclAhead, CtAhead, Cross, Missed, Replaced,
         Held, PostIssue
<1> QED BY <1>2, <1>3, <1>4

\* A loop ends when nothing is ahead of it.
LEMMA LoopFills ==
  ASSUME PoolInv, NEW l \in Listeners, Filled(l), Loop
  PROVE  Filled(l)'
<1> USE DEF Posters, Move, Rest, Begin, Bump
<1>1. PoolTypeOK /\ Waiting(l)' = Waiting(l)
  BY DEF PoolInv, Placed, PoolTypeOK, Loop, Limit, counts, Waiting
<1>2. CASE l = on["tcl"]
  BY <1>1, <1>2, PoolNumbers, CapAssumption, NullAssumption
     DEF PoolTypeOK, Filled, Followed, Works, TclAhead, CtAhead, Cross, Missed, Replaced,
         Held, Loop, Limit, counts
<1>3. CASE l # on["tcl"]
  BY <1>1, <1>3, PoolNumbers, CapAssumption, NullAssumption
     DEF PoolTypeOK, Filled, Followed, Works, TclAhead, CtAhead, Cross, Missed, Replaced,
         Held, Loop, Limit, counts
<1> QED BY <1>2, <1>3

\* A listener is opened.
LEMMA OpenBeginFills ==
  ASSUME PoolInv, NEW l \in Listeners, Filled(l), NEW k \in Listeners, OpenBegin(k)
  PROVE  Filled(l)'
<1> USE DEF Posters, Move, Rest, Begin, Bump
<1>1. PoolTypeOK /\ Waiting(l)' = Waiting(l)
  BY DEF PoolInv, Placed, PoolTypeOK, OpenBegin, TclFree, counts, Waiting
<1>2. CASE l = k
  BY <1>1, <1>2, PoolNumbers, CapAssumption, NullAssumption
     DEF PoolTypeOK, Filled, Followed, Works, TclAhead, CtAhead, Cross, Missed, Replaced,
         Held, OpenBegin, TclFree, counts
<1>3. CASE l # k
  BY <1>1, <1>3, PoolNumbers, CapAssumption, NullAssumption
     DEF PoolTypeOK, Filled, Followed, Works, TclAhead, CtAhead, Cross, Missed, Replaced,
         Held, OpenBegin, TclFree, counts
<1> QED BY <1>2, <1>3

\* It has its first AcceptEx calls.
LEMMA OpenDoneFills ==
  ASSUME PoolInv, NEW l \in Listeners, Filled(l), NEW k \in Listeners, OpenDone(k)
  PROVE  Filled(l)'
<1> USE DEF Posters, Move, Rest, Begin, Bump
<1>1. PoolTypeOK /\ Waiting(l)' = Waiting(l)
  BY DEF PoolInv, Placed, PoolTypeOK, OpenDone, Limit, counts, Waiting
<1>2. CASE l = k
  BY <1>1, <1>2, PoolNumbers, CapAssumption, NullAssumption
     DEF PoolTypeOK, Filled, Followed, Works, TclAhead, CtAhead, Cross, Missed, Replaced,
         Held, OpenDone, Limit, counts
<1>3. CASE l # k
  BY <1>1, <1>3, PoolNumbers, CapAssumption, NullAssumption
     DEF PoolTypeOK, Filled, Followed, Works, TclAhead, CtAhead, Cross, Missed, Replaced,
         Held, OpenDone, Limit, counts
<1> QED BY <1>2, <1>3

\* It could not be opened.
LEMMA OpenFailsFills ==
  ASSUME PoolInv, NEW l \in Listeners, Filled(l), NEW k \in Listeners, OpenFails(k)
  PROVE  Filled(l)'
<1> USE DEF Posters, Move, Rest, Begin, Bump
<1>1. PoolTypeOK /\ Waiting(l)' = Waiting(l)
  BY DEF PoolInv, Placed, PoolTypeOK, OpenFails, Forget, Waiting
<1>2. CASE l = k
  BY <1>1, <1>2, PoolNumbers, CapAssumption, NullAssumption
     DEF PoolTypeOK, Filled, Followed, Works, TclAhead, CtAhead, Cross, Missed, Replaced,
         Held, OpenFails, Forget
<1>3. CASE l # k
  BY <1>1, <1>3, PoolNumbers, CapAssumption, NullAssumption
     DEF PoolTypeOK, Filled, Followed, Works, TclAhead, CtAhead, Cross, Missed, Replaced,
         Held, OpenFails, Forget
<1> QED BY <1>2, <1>3

\* The loop of -backlog makes up what the cap is more than outstandingAccepts.
LEMMA BacklogFills ==
  ASSUME PoolInv, NEW l \in Listeners, Filled(l),
         NEW k \in Listeners, NEW n \in Backlogs, Backlog(k, n)
  PROVE  Filled(l)'
<1> USE DEF Posters, Move, Rest, Begin, Bump
<1>1. PoolTypeOK /\ Waiting(l)' = Waiting(l)
  BY DEF PoolInv, Placed, PoolTypeOK, Backlog, TclFree, Waiting
<1>2. CASE l = k
  BY <1>1, <1>2, PoolNumbers, CapAssumption, NullAssumption
     DEF PoolTypeOK, Filled, Followed, Works, TclAhead, CtAhead, Cross, Missed, Replaced,
         Held, Backlog, TclFree
<1>3. CASE l # k
  BY <1>1, <1>3, PoolNumbers, CapAssumption, NullAssumption
     DEF PoolTypeOK, Filled, Followed, Works, TclAhead, CtAhead, Cross, Missed, Replaced,
         Held, Backlog, TclFree
<1> QED BY <1>2, <1>3

\* A connection is taken.
LEMMA TakeFills ==
  ASSUME PoolInv, NEW l \in Listeners, Filled(l), NEW k \in Listeners, Take(k)
  PROVE  Filled(l)'
<1> USE DEF Posters, Move, Rest, Begin, Bump
<1>1. PoolTypeOK /\ Waiting(l)' = Waiting(l)
  BY DEF PoolInv, Placed, PoolTypeOK, Take, TclFree, counts, Waiting
<1>2. CASE l = k
  BY <1>1, <1>2, PoolNumbers, CapAssumption, NullAssumption
     DEF PoolTypeOK, Filled, Followed, Works, TclAhead, CtAhead, Cross, Missed, Replaced,
         Held, Take, TclFree, counts
<1>3. CASE l # k
  BY <1>1, <1>3, PoolNumbers, CapAssumption, NullAssumption
     DEF PoolTypeOK, Filled, Followed, Works, TclAhead, CtAhead, Cross, Missed, Replaced,
         Held, Take, TclFree, counts
<1> QED BY <1>2, <1>3

\* The cap is lowered.
LEMMA ShrinkFills ==
  ASSUME PoolInv, NEW l \in Listeners, Filled(l), Shrink
  PROVE  Filled(l)'
<1> USE DEF Posters, Move, Rest, Begin, Bump
<1>1. PoolTypeOK /\ Waiting(l)' = Waiting(l)
  BY DEF PoolInv, Placed, PoolTypeOK, Shrink, Waiting
<1>2. CASE l = on["ct"]
  BY <1>1, <1>2, PoolNumbers, CapAssumption, NullAssumption
     DEF PoolTypeOK, Filled, Followed, Works, TclAhead, CtAhead, Cross, Missed, Replaced,
         Held, Shrink
<1>3. CASE l # on["ct"]
  BY <1>1, <1>3, PoolNumbers, CapAssumption, NullAssumption
     DEF PoolTypeOK, Filled, Followed, Works, TclAhead, CtAhead, Cross, Missed, Replaced,
         Held, Shrink
<1> QED BY <1>2, <1>3

\* The kernel returns a call.
LEMMA CompleteFills ==
  ASSUME PoolInv, NEW l \in Listeners, Filled(l), NEW k \in Listeners, Complete(k)
  PROVE  Filled(l)'
<1> USE DEF Posters, Begin, Bump
<1>0. PICK x \in {"conn", "error", "nobufs"} : done' = Tally(k, x, 1)
  BY DEF Complete
<1>1. PoolTypeOK /\ done \in [Listeners -> [Statuses -> Nat]]
  BY DEF PoolInv, PoolTypeOK
<1>2. Waiting(l)' = IF l = k THEN Waiting(l) + (1) ELSE Waiting(l)
  <2>1. x \in Statuses /\ done[k][x] + (1) \in Nat /\ done' = Tally(k, x, 1)
    BY <1>0, <1>1 DEF Complete, Statuses
  <2> QED BY <1>1, <2>1, TallyWaiting
<1>3. CASE l = k
  BY <1>1, <1>2, <1>3, PoolNumbers, NullAssumption
     DEF PoolTypeOK, Filled, Followed, Works, TclAhead, CtAhead, Cross, Missed, Replaced,
         Held, Complete
<1>4. CASE l # k
  BY <1>1, <1>2, <1>4, PoolNumbers, NullAssumption
     DEF PoolTypeOK, Filled, Followed, Works, TclAhead, CtAhead, Cross, Missed, Replaced,
         Held, Complete
<1> QED BY <1>3, <1>4

\* A connection is handled.
LEMMA HandleAcceptFills ==
  ASSUME PoolInv, NEW l \in Listeners, Filled(l), NEW k \in Listeners, HandleAccept(k)
  PROVE  Filled(l)'
<1> USE DEF Posters, Begin, Bump
<1>1. PoolTypeOK /\ done \in [Listeners -> [Statuses -> Nat]]
  BY DEF PoolInv, PoolTypeOK
<1>2. Waiting(l)' = IF l = k THEN Waiting(l) + (-1) ELSE Waiting(l)
  <2>1. "conn" \in Statuses /\ done[k]["conn"] + (-1) \in Nat /\ done' = Tally(k, "conn", -1)
    BY <1>1 DEF HandleAccept, Handles, Statuses
  <2> QED BY <1>1, <2>1, TallyWaiting
<1>3. CASE l = k
  BY <1>1, <1>2, <1>3, PoolNumbers, NullAssumption
     DEF PoolTypeOK, Filled, Followed, Works, TclAhead, CtAhead, Cross, Missed, Replaced,
         Held, HandleAccept, Handles
<1>4. CASE l # k
  BY <1>1, <1>2, <1>4, PoolNumbers, NullAssumption
     DEF PoolTypeOK, Filled, Followed, Works, TclAhead, CtAhead, Cross, Missed, Replaced,
         Held, HandleAccept, Handles
<1> QED BY <1>3, <1>4

\* An error is handled.
LEMMA HandleErrorFills ==
  ASSUME PoolInv, NEW l \in Listeners, Filled(l), NEW k \in Listeners, HandleError(k)
  PROVE  Filled(l)'
<1> USE DEF Posters, Begin, Bump
<1>1. PoolTypeOK /\ done \in [Listeners -> [Statuses -> Nat]]
  BY DEF PoolInv, PoolTypeOK
<1>2. Waiting(l)' = IF l = k THEN Waiting(l) + (-1) ELSE Waiting(l)
  <2>1. "error" \in Statuses /\ done[k]["error"] + (-1) \in Nat /\ done' = Tally(k, "error", -1)
    BY <1>1 DEF HandleError, Handles, Statuses
  <2> QED BY <1>1, <2>1, TallyWaiting
<1>3. CASE l = k
  BY <1>1, <1>2, <1>3, PoolNumbers, NullAssumption
     DEF PoolTypeOK, Filled, Followed, Works, TclAhead, CtAhead, Cross, Missed, Replaced,
         Held, HandleError, Handles
<1>4. CASE l # k
  BY <1>1, <1>2, <1>4, PoolNumbers, NullAssumption
     DEF PoolTypeOK, Filled, Followed, Works, TclAhead, CtAhead, Cross, Missed, Replaced,
         Held, HandleError, Handles
<1> QED BY <1>3, <1>4

\* WSAENOBUFS is handled.
LEMMA HandleNoBufsFills ==
  ASSUME PoolInv, NEW l \in Listeners, Filled(l), NEW k \in Listeners, HandleNoBufs(k)
  PROVE  Filled(l)'
<1> USE DEF Posters, Begin, Bump
<1>1. PoolTypeOK /\ done \in [Listeners -> [Statuses -> Nat]]
  BY DEF PoolInv, PoolTypeOK
<1>2. Waiting(l)' = IF l = k THEN Waiting(l) + (-1) ELSE Waiting(l)
  <2>1. "nobufs" \in Statuses /\ done[k]["nobufs"] + (-1) \in Nat /\ done' = Tally(k, "nobufs", -1)
    BY <1>1 DEF HandleNoBufs, Handles, Statuses
  <2> QED BY <1>1, <2>1, TallyWaiting
<1>3. CASE l = k
  BY <1>1, <1>2, <1>3, PoolNumbers, NullAssumption
     DEF PoolTypeOK, Filled, Followed, Works, TclAhead, CtAhead, Cross, Missed, Replaced,
         Held, HandleNoBufs, Handles
<1>4. CASE l # k
  BY <1>1, <1>2, <1>4, PoolNumbers, NullAssumption
     DEF PoolTypeOK, Filled, Followed, Works, TclAhead, CtAhead, Cross, Missed, Replaced,
         Held, HandleNoBufs, Handles
<1> QED BY <1>3, <1>4

\* Listeners are closed.
LEMMA PoolCloseFills ==
  ASSUME PoolInv, NEW l \in Listeners, Filled(l), NEW L \in SUBSET Listeners, PoolClose(L)
  PROVE  Filled(l)'
<1>1. CASE l \in L
  BY <1>1 DEF Filled, Followed, PoolClose
<1>2. CASE l \notin L
  <2>1. PoolTypeOK
    BY DEF PoolInv
  <2>2. /\ life'[l] = life[l] /\ done'[l] = done[l] /\ posted'[l] = posted[l]
        /\ leaked'[l] = leaked[l] /\ lost'[l] = lost[l] /\ crossed'[l] = crossed[l]
        /\ UNCHANGED <<cap, at, on, i>>
    BY <1>2, <2>1 DEF PoolClose, Forget, PoolTypeOK
  <2>3. Waiting(l)' = Waiting(l) /\ Replaced(l)' = Replaced(l)
    BY <2>2 DEF Waiting, Replaced
  <2>4. /\ TclAhead(l)' = TclAhead(l) /\ CtAhead(l)' = CtAhead(l) /\ Cross(l)' = Cross(l)
        /\ Followed(l)' <=> Followed(l)
    BY <2>2 DEF TclAhead, CtAhead, Cross, Followed, Works, Missed
  <2> QED BY <2>2, <2>3, <2>4 DEF Filled
<1> QED BY <1>1, <1>2

\* A cancelled call comes back of a closed socket only.
LEMMA HandleAbortedFills ==
  ASSUME PoolInv, NEW l \in Listeners, Filled(l), NEW k \in Listeners, HandleAborted(k)
  PROVE  Filled(l)'
<1>1. PoolTypeOK /\ life[k] \notin {"none", "opening", "open"}
  BY DEF PoolInv, Counted, HandleAborted, Handles
<1>2. UNCHANGED <<life, cap, posted, at, on, i, leaked, lost, crossed>>
  BY DEF HandleAborted
<1>3. CASE l = k
  BY <1>1, <1>2, <1>3 DEF Filled, Followed
<1>4. CASE l # k
  <2>1. done'[l] = done[l]
    BY <1>1, <1>4 DEF PoolTypeOK, HandleAborted, Handles, Tally
  <2>2. Waiting(l)' = Waiting(l) /\ Replaced(l)' = Replaced(l)
    BY <1>2, <2>1 DEF Waiting, Replaced
  <2>3. /\ TclAhead(l)' = TclAhead(l) /\ CtAhead(l)' = CtAhead(l) /\ Cross(l)' = Cross(l)
        /\ Followed(l)' <=> Followed(l)
    BY <1>2 DEF TclAhead, CtAhead, Cross, Followed, Works, Missed
  <2> QED BY <1>2, <2>2, <2>3 DEF Filled
<1> QED BY <1>3, <1>4

LEMMA FullStep == FullInv /\ [Next]_vars => FullInv'
<1> SUFFICES ASSUME FullInv, [Next]_vars, NEW l \in Listeners PROVE Filled(l)'
  BY PoolStep DEF FullInv
<1>0. PoolInv /\ Filled(l)
  BY DEF FullInv
<1>1. CASE \E p \in Interps, k \in Listeners : Socket2(p, k)
  BY <1>0, <1>1, OpenBeginFills DEF Socket2
<1>2. CASE \E k \in Listeners : Socket2Done(k) \/ Socket2Fails(k)
  BY <1>0, <1>2, OpenDoneFills, OpenFailsFills DEF Socket2Done, Socket2Fails
<1>3. CASE \E k \in Listeners, n \in Backlogs : SetBacklog(k, n)
  BY <1>0, <1>3, BacklogFills DEF SetBacklog
<1>4. CASE \E k \in Listeners, c \in Conns : AcceptOne(k, c)
  BY <1>0, <1>4, TakeFills DEF AcceptOne
<1>5. CASE Scripts
  BY <1>0, <1>5, PoolCloseFills DEF Scripts
<1>6. CASE \E p \in Posters : PostOverlappedAccept(p)
  BY <1>0, <1>6, PostCountFills, PostUndoFills, SocketFailsFills, AcceptExFailureFills,
     PostIssueFills DEF PostOverlappedAccept
<1>7. CASE Loop \/ Shrink
  BY <1>0, <1>7, LoopFills, ShrinkFills
<1>8. CASE \E k \in Listeners : \/ Complete(k) \/ HandleAccept(k) \/ HandleError(k)
                                \/ HandleNoBufs(k) \/ HandleAborted(k)
  BY <1>0, <1>8, CompleteFills, HandleAcceptFills, HandleErrorFills, HandleNoBufsFills,
     HandleAbortedFills
<1>9. CASE UNCHANGED vars
  BY <1>0, <1>9 DEF vars, poolVars, Filled, Followed, Replaced, Waiting, TclAhead, CtAhead,
     Cross, Works, Missed
<1> QED BY <1>1, <1>2, <1>3, <1>4, <1>5, <1>6, <1>7, <1>8, <1>9
        DEF Next, TclPosts, CompletionThread, Posters

\* An open listener nobody is at work on has as many AcceptEx calls out as its cap asks
\* for, but for those that failed and those two threads gave up over each other.
THEOREM PoolStaysFull == Spec => []PoolIsFull
<1>1. Init => FullInv
  <2> SUFFICES ASSUME Init, NEW l \in Listeners PROVE Filled(l)
    BY PoolInitial DEF FullInv
  <2> QED BY CapAssumption DEF Init, PoolInit, Filled, Followed
<1>2. FullInv /\ [Next]_vars => FullInv'
  BY FullStep
<1>3. FullInv => PoolIsFull
  <2> SUFFICES ASSUME FullInv, NEW l \in Listeners, IsIdle(l)
               PROVE  Replaced(l) + crossed[l] >= cap[l]
    BY DEF PoolIsFull
  <2>1. \A p \in Posters : on[p] # l
    BY DEF IsIdle
  <2>2. TclAhead(l) = 0 /\ CtAhead(l) = 0 /\ Cross(l) = 0 /\ Followed(l)
    BY <2>1 DEF TclAhead, CtAhead, Cross, Followed, Works, Posters, IsIdle
  <2>3. PoolInv /\ Filled(l)
    BY DEF FullInv
  <2> QED BY <2>2, <2>3, PoolNumbers DEF Filled, Replaced
<1> QED BY <1>1, <1>2, <1>3, PTL DEF Spec
-----------------------------------------------------------------------------
(* The script level                                                          *)

(***************************************************************************)
(* The properties speak of the moments when a script may run.  CallbackInv says    *)
(* what holds inside socket2 and between the delete procs of an interpreter too,    *)
(* and ties every running callback to what it holds.                              *)
(***************************************************************************)

\* A frame of a callback that runs: its script and its interpreter are held, and it
\* alone has the artificial reference of its connection.
FramesHeld ==
  /\ \A k \in DOMAIN running :
       /\ script[running[k].l] \in {"live", "doomed"}
       /\ interp[running[k].i] \in {"live", "doomed"}
       /\ NULL \in crefs[running[k].c]
  /\ \A j, k \in DOMAIN running : running[j].c = running[k].c => j = k

\* A socket2 command that is under way.
OpeningOK ==
  opening # NULL =>
    /\ rec[opening] = "live" /\ refs[opening] = {}
    /\ target[opening] \in Interps /\ interp[target[opening]] = "live"
    /\ \A p \in Interps : interp[p] # "torn" /\ opening \notin table[p]
    /\ ~ RunningFor(running, opening)

\* The record, its script and its channel.
RecordsOK ==
  \A l \in Listeners :
    /\ rec[l] = "none" => /\ refs[l] = {} /\ ~ RunningFor(running, l)
                          /\ \A p \in Interps : l \notin table[p]
    /\ l # opening => (rec[l] = "live" <=> refs[l] # {})
    /\ script[l] = "live" <=> rec[l] = "live"
    /\ script[l] = "none" <=> rec[l] = "none"
    /\ script[l] = "doomed" => RunningFor(running, l)

\* The tables.
TablesOK ==
  \A p \in Interps :
    /\ \A l \in Listeners :
         /\ rec[l] = "live" /\ target[l] = p /\ l # opening => l \in table[p]
         /\ AssocDataStays /\ l \in table[p] => rec[l] = "live" /\ target[l] = p
    /\ interp[p] = "gone" \/ (interp[p] = "torn" /\ "table" \notin chores) => table[p] = {}

\* The interpreters: who is registered in one, and how far its deletion is.
Registers(p) == interp[p] \in {"live", "doomed"} \/ (interp[p] = "torn" /\ "channels" \in chores)
InterpsOK ==
  /\ \A l \in Listeners : \A p \in refs[l] : Registers(p)
  /\ \A c \in Conns : \A p \in crefs[c] \ {NULL} : Registers(p)
  /\ \A p \in Interps : interp[p] = "doomed" => RunningIn(running, p)
  /\ \A p, q \in Interps : interp[p] = "torn" /\ interp[q] = "torn" => p = q

\* The connections.
ConnsOK ==
  \A c \in Conns :
    /\ conn[c] = "open" <=> crefs[c] # {}
    /\ NULL \in crefs[c] => \E k \in DOMAIN running : running[k].c = c

\* The socket and the script level agree on what a listener is.
LivesOK ==
  \A l \in Listeners :
    /\ life[l] = "none" <=> rec[l] = "none"
    /\ life[l] = "opening" <=> opening = l
    /\ life[l] = "open" <=> refs[l] # {}

Stages == {"none", "opening", "open", "failed", "closing"}
CallbackInv ==
  /\ CallbackTypeOK /\ life \in [Listeners -> Stages]
  /\ FramesHeld /\ OpeningOK /\ RecordsOK /\ TablesOK /\ InterpsOK /\ ConnsOK /\ LivesOK
  /\ AssocDataStays => ~ fault

-----------------------------------------------------------------------------
(* The callbacks that run                                                    *)

LEMMA Pushed ==
  ASSUME NEW q \in Seq(Frames), NEW f \in Frames
  PROVE  /\ Append(q, f) \in Seq(Frames) /\ Len(Append(q, f)) = Len(q) + 1 /\ Len(q) \in Nat
         /\ DOMAIN q = 1 .. Len(q) /\ DOMAIN Append(q, f) = 1 .. (Len(q) + 1)
         /\ \A k \in DOMAIN q : k \in DOMAIN Append(q, f) /\ Append(q, f)[k] = q[k]
         /\ Append(q, f)[Len(q) + 1] = f
         /\ \A k \in DOMAIN Append(q, f) : k \in DOMAIN q \/ k = Len(q) + 1
OBVIOUS

LEMMA PoppedIs ==
  ASSUME running \in Seq(Frames), running # <<>>
  PROVE  /\ Len(running) \in DOMAIN running /\ running[Len(running)] \in Frames
         /\ Popped \in Seq(Frames) /\ Len(Popped) < Len(running)
         /\ \A k : k \in DOMAIN Popped <=> k \in DOMAIN running /\ k # Len(running)
         /\ \A k \in DOMAIN Popped : Popped[k] = running[k]
<1>1. Len(running) \in Nat \ {0} /\ DOMAIN running = 1 .. Len(running)
  OBVIOUS
<1>2. /\ Popped \in Seq(Frames) /\ Len(Popped) = Len(running) - 1
      /\ DOMAIN Popped = 1 .. (Len(running) - 1)
      /\ \A k \in 1 .. (Len(running) - 1) : Popped[k] = running[k]
  BY <1>1 DEF Popped
<1> HIDE DEF Popped
<1> QED BY <1>1, <1>2

LEMMA FrameIs ==
  ASSUME running \in Seq(Frames), NEW k \in DOMAIN running
  PROVE  running[k].l \in Listeners /\ running[k].c \in Conns /\ running[k].i \in Interps
<1>1. running[k] \in Frames
  OBVIOUS
<1> QED BY <1>1 DEF Frames

LEMMA Stuttered ==
  ASSUME CallbackInv, UNCHANGED cbVars, UNCHANGED life
  PROVE  CallbackInv'
<1> USE DEF cbVars, scriptVars
<1>0. CallbackTypeOK' /\ life' \in [Listeners -> Stages]
  BY DEF CallbackInv, CallbackTypeOK
<1>1. FramesHeld' /\ OpeningOK'
  BY DEF CallbackInv, FramesHeld, OpeningOK, RunningFor
<1>2. RecordsOK' /\ TablesOK'
  BY DEF CallbackInv, RecordsOK, TablesOK, RunningFor
<1>3. InterpsOK' /\ ConnsOK' /\ LivesOK'
  BY DEF CallbackInv, InterpsOK, Registers, ConnsOK, LivesOK, RunningIn
<1> QED BY <1>0, <1>1, <1>2, <1>3 DEF CallbackInv

-----------------------------------------------------------------------------
(* socket2 -server                                                           *)

LEMMA CreateKeeps ==
  ASSUME CallbackInv, NEW p \in Interps, NEW l \in Listeners, Socket2(p, l)
  PROVE  CallbackInv'
<1>1. /\ opening = NULL /\ \A q \in Interps : interp[q] # "torn"
      /\ interp[p] = "live" /\ rec[l] = "none"
      /\ opening' = l /\ rec' = [rec EXCEPT ![l] = "live"]
      /\ script' = [script EXCEPT ![l] = "live"] /\ target' = [target EXCEPT ![l] = p]
      /\ life' = [life EXCEPT ![l] = "opening"]
      /\ UNCHANGED <<interp, chores, table, refs, crefs, conn, running, fault>>
  BY DEF Socket2, CreateRecord, OpenBegin, Quiet
<1>2. /\ CallbackTypeOK /\ life \in [Listeners -> Stages]
      /\ refs[l] = {} /\ ~ RunningFor(running, l) /\ \A q \in Interps : l \notin table[q]
  BY <1>1 DEF CallbackInv, RecordsOK
<1>3. CallbackTypeOK' /\ life' \in [Listeners -> Stages]
  BY <1>1, <1>2 DEF CallbackTypeOK, Lives, Stages
<1>4. FramesHeld'
  <2>1. \A k \in DOMAIN running : running[k].l \in Listeners
    BY <1>2, FrameIs DEF CallbackTypeOK
  <2> QED BY <1>1, <1>2, <2>1 DEF CallbackInv, FramesHeld, CallbackTypeOK
<1>5. OpeningOK'
  BY <1>1, <1>2 DEF OpeningOK, RunningFor, CallbackTypeOK
<1>6. RecordsOK' /\ LivesOK'
  BY <1>1, <1>2, NullAssumption
     DEF CallbackInv, CallbackTypeOK, RecordsOK, LivesOK, RunningFor
<1>7. TablesOK'
  BY <1>1, <1>2, NullAssumption DEF CallbackInv, CallbackTypeOK, TablesOK
<1>8. InterpsOK' /\ ConnsOK'
  BY <1>1 DEF CallbackInv, InterpsOK, Registers, ConnsOK, RunningIn
<1> QED BY <1>1, <1>3, <1>4, <1>5, <1>6, <1>7, <1>8 DEF CallbackInv

LEMMA RegisterKeeps ==
  ASSUME CallbackInv, NEW l \in Listeners, Socket2Done(l)
  PROVE  CallbackInv'
<1>1. /\ opening = l /\ opening' = NULL
      /\ table' = [table EXCEPT ![target[l]] = @ \cup {l}]
      /\ refs' = [refs EXCEPT ![l] = {target[l]}]
      /\ life' = [life EXCEPT ![l] = "open"]
      /\ UNCHANGED <<interp, chores, rec, target, script, crefs, conn, running, fault>>
  BY DEF Socket2Done, Register, OpenDone
<1>2. /\ CallbackTypeOK /\ life \in [Listeners -> Stages] /\ l # NULL
      /\ rec[l] = "live" /\ target[l] \in Interps /\ interp[target[l]] = "live"
      /\ \A q \in Interps : interp[q] # "torn"
  BY <1>1, NullAssumption DEF CallbackInv, OpeningOK
<1>3. CallbackTypeOK' /\ life' \in [Listeners -> Stages]
  BY <1>1, <1>2 DEF CallbackTypeOK, Stages
<1>4. FramesHeld' /\ OpeningOK'
  BY <1>1 DEF CallbackInv, FramesHeld, OpeningOK
<1>5. RecordsOK' /\ LivesOK'
  <2>i. /\ refs'[l] # {} /\ \A m \in Listeners \ {l} : refs'[m] = refs[m]
        /\ \A q \in Interps : table'[q] \subseteq table[q] \cup {l}
    BY <1>1, <1>2 DEF CallbackTypeOK
  <2>1. RecordsOK'
    BY <1>1, <1>2, <2>i DEF CallbackInv, RecordsOK, RunningFor
  <2>2. LivesOK'
    BY <1>1, <1>2, <2>i, NullAssumption DEF CallbackInv, LivesOK
  <2> QED BY <2>1, <2>2
<1>6. TablesOK'
  BY <1>1, <1>2 DEF CallbackInv, CallbackTypeOK, TablesOK
<1>7. InterpsOK' /\ ConnsOK'
  BY <1>1, <1>2 DEF CallbackInv, CallbackTypeOK, InterpsOK, Registers, ConnsOK, RunningIn
<1> QED BY <1>1, <1>3, <1>4, <1>5, <1>6, <1>7 DEF CallbackInv

LEMMA FreeRecordKeeps ==
  ASSUME CallbackInv, NEW l \in Listeners, Socket2Fails(l)
  PROVE  CallbackInv'
<1>1. /\ opening = l /\ opening' = NULL
      /\ rec' = [rec EXCEPT ![l] = "freed"] /\ script' = [script EXCEPT ![l] = "freed"]
      /\ life' = [life EXCEPT ![l] = "failed"]
      /\ UNCHANGED <<interp, chores, table, target, refs, crefs, conn, running, fault>>
  BY DEF Socket2Fails, FreeRecord, OpenFails
<1>2. /\ CallbackTypeOK /\ life \in [Listeners -> Stages] /\ l # NULL
      /\ rec[l] = "live" /\ refs[l] = {} /\ ~ RunningFor(running, l)
      /\ \A q \in Interps : l \notin table[q]
  BY <1>1, NullAssumption DEF CallbackInv, OpeningOK
<1>3. CallbackTypeOK' /\ life' \in [Listeners -> Stages]
  BY <1>1, <1>2 DEF CallbackTypeOK, Lives, Stages
<1>4. FramesHeld' /\ OpeningOK'
  <2>1. \A k \in DOMAIN running : running[k].l # l
    BY <1>2 DEF RunningFor
  <2> QED BY <1>1, <1>2, <2>1 DEF CallbackInv, CallbackTypeOK, FramesHeld, OpeningOK
<1>5. RecordsOK' /\ LivesOK'
  <2>1. RecordsOK'
    BY <1>1, <1>2 DEF CallbackInv, CallbackTypeOK, RecordsOK, RunningFor
  <2>2. LivesOK'
    BY <1>1, <1>2, NullAssumption DEF CallbackInv, LivesOK
  <2> QED BY <2>1, <2>2
<1>6. TablesOK'
  BY <1>1, <1>2 DEF CallbackInv, CallbackTypeOK, TablesOK
<1>7. InterpsOK' /\ ConnsOK'
  BY <1>1 DEF CallbackInv, InterpsOK, Registers, ConnsOK, RunningIn
<1> QED BY <1>1, <1>3, <1>4, <1>5, <1>6, <1>7 DEF CallbackInv

-----------------------------------------------------------------------------
(* TcpAcceptCallbackProc                                                     *)

LEMMA StartKeeps ==
  ASSUME CallbackInv, NEW l \in Listeners, NEW c \in Conns, AcceptOne(l, c)
  PROVE  CallbackInv'
<1>1. /\ opening = NULL /\ \A q \in Interps : interp[q] # "torn"
      /\ Len(running) < MaxNest /\ refs[l] # {} /\ conn[c] = "none"
      /\ fault' = (fault \/ rec[l] # "live" \/ (target[l] # NULL /\ interp[target[l]] = "gone"))
      /\ UNCHANGED <<interp, chores, opening, table, rec, target, script, refs, life>>
  BY DEF AcceptOne, Take, CallbackStart, Quiet, IsOpen, scriptVars
<1>2. /\ CallbackTypeOK /\ life \in [Listeners -> Stages] /\ l # NULL
      /\ rec[l] = "live" /\ script[l] = "live" /\ crefs[c] = {}
  BY <1>1, NullAssumption DEF CallbackInv, RecordsOK, ConnsOK
<1>3. target[l] # NULL => target[l] \in Interps /\ interp[target[l]] \in {"live", "doomed"}
  <2> SUFFICES ASSUME target[l] # NULL
               PROVE  target[l] \in Interps /\ interp[target[l]] \in {"live", "doomed"}
    OBVIOUS
  <2>1. target[l] \in Interps /\ interp[target[l]] \in {"live", "doomed", "torn", "gone"}
    BY <1>2 DEF CallbackTypeOK
  <2>2. l \in table[target[l]]
    BY <1>1, <1>2, <2>1 DEF CallbackInv, TablesOK
  <2>3. interp[target[l]] # "gone"
    BY <2>1, <2>2 DEF CallbackInv, TablesOK
  <2> QED BY <1>1, <2>1, <2>3
<1>4. AssocDataStays => ~ fault'
  BY <1>1, <1>2, <1>3 DEF CallbackInv
<1>5. OpeningOK' /\ LivesOK' /\ TablesOK'
  BY <1>1 DEF CallbackInv, OpeningOK, LivesOK, TablesOK
<1>6. CASE target[l] = NULL
  <2>1. conn' = [conn EXCEPT ![c] = "closed"] /\ UNCHANGED <<crefs, running>>
    BY <1>6 DEF AcceptOne, CallbackStart
  <2>2. CallbackTypeOK' /\ FramesHeld' /\ RecordsOK'
    BY <1>1, <1>2, <2>1
       DEF CallbackInv, CallbackTypeOK, FramesHeld, RecordsOK, RunningFor
  <2>3. InterpsOK' /\ ConnsOK'
    BY <1>1, <1>2, <2>1
       DEF CallbackInv, CallbackTypeOK, InterpsOK, Registers, ConnsOK, RunningIn
  <2> QED BY <1>1, <1>4, <1>5, <2>2, <2>3 DEF CallbackInv
<1>7. CASE target[l] # NULL
  <2> DEFINE f == [l |-> l, c |-> c, i |-> target[l]]
  <2>1. /\ conn' = [conn EXCEPT ![c] = "open"]
        /\ crefs' = [crefs EXCEPT ![c] = {target[l], NULL}]
        /\ running' = Append(running, f)
    BY <1>7 DEF AcceptOne, CallbackStart
  <2>2. f \in Frames /\ f.l = l /\ f.c = c /\ f.i = target[l] /\ running \in Seq(Frames)
    BY <1>2, <1>3, <1>7 DEF Frames, CallbackTypeOK
  <2> HIDE DEF f
  <2>3. PICK n : /\ running' \in Seq(Frames) /\ Len(running') = Len(running) + 1
                 /\ \A k \in DOMAIN running : k \in DOMAIN running' /\ running'[k] = running[k]
                 /\ n \in DOMAIN running' /\ n \notin DOMAIN running /\ running'[n] = f
                 /\ \A k \in DOMAIN running' : k \in DOMAIN running \/ k = n
    <3>1. Len(running) \in Nat /\ DOMAIN running = 1 .. Len(running)
      BY <2>2
    <3>2. Len(running) + 1 \in 1 .. (Len(running) + 1) /\ Len(running) + 1 \notin 1 .. Len(running)
      BY <3>1
    <3> QED BY <2>1, <2>2, <3>1, <3>2, Pushed
  <2>4. CallbackTypeOK'
    <3>1. Len(running') <= MaxNest
      BY <1>1, <1>2, <2>2, <2>3, NestAssumption
    <3> QED BY <1>1, <1>2, <1>3, <1>7, <2>1, <2>3, <3>1 DEF CallbackTypeOK
  <2>5. FramesHeld'
    <3>1. \A k \in DOMAIN running : running[k].c # c /\ running[k].c \in Conns
      BY <1>2, <2>2, FrameIs DEF CallbackInv, FramesHeld
    <3>2. /\ script'[f.l] \in {"live", "doomed"} /\ interp'[f.i] \in {"live", "doomed"}
          /\ NULL \in crefs'[f.c]
      BY <1>1, <1>2, <1>3, <1>7, <2>1, <2>2 DEF CallbackTypeOK
    <3>3. \A k \in DOMAIN running : /\ script'[running[k].l] \in {"live", "doomed"}
                                    /\ interp'[running[k].i] \in {"live", "doomed"}
                                    /\ NULL \in crefs'[running[k].c]
      BY <1>1, <1>2, <2>1, <3>1 DEF CallbackInv, FramesHeld, CallbackTypeOK
    <3>4. \A j, k \in DOMAIN running : running[j].c = running[k].c => j = k
      BY DEF CallbackInv, FramesHeld
    <3> QED BY <2>2, <2>3, <3>1, <3>2, <3>3, <3>4 DEF FramesHeld
  <2>6. \A m : (RunningFor(running, m) => RunningFor(running', m))
               /\ (RunningFor(running', m) => RunningFor(running, m) \/ m = l)
    BY <2>2, <2>3 DEF RunningFor
  <2>7. RecordsOK'
    BY <1>1, <1>2, <2>6 DEF CallbackInv, RecordsOK
  <2>8. InterpsOK'
    <3>1. \A q : RunningIn(running, q) => RunningIn(running', q)
      BY <2>3 DEF RunningIn
    <3>2. \A d \in Conns : \A q \in crefs'[d] \ {NULL} :
             q \in crefs[d] \ {NULL} \/ q = target[l]
      BY <1>2, <2>1 DEF CallbackTypeOK
    <3> QED BY <1>1, <1>3, <1>7, <3>1, <3>2 DEF CallbackInv, InterpsOK, Registers
  <2>9. ConnsOK'
    BY <1>2, <2>1, <2>2, <2>3 DEF CallbackInv, ConnsOK, CallbackTypeOK
  <2> QED BY <1>1, <1>4, <1>5, <2>4, <2>5, <2>7, <2>8, <2>9 DEF CallbackInv
<1> QED BY <1>6, <1>7

\* The frame on top, as a constant.
LEMMA TopIs ==
  ASSUME CallbackInv, running # <<>>
  PROVE  \E f \in Frames :
           /\ f = running[Len(running)] /\ f.l \in Listeners /\ f.c \in Conns /\ f.i \in Interps
           /\ script[f.l] \in {"live", "doomed"} /\ interp[f.i] \in {"live", "doomed"}
           /\ NULL \in crefs[f.c] /\ conn[f.c] = "open"
           /\ \A m : RunningFor(running, m) <=> RunningFor(Popped, m) \/ m = f.l
           /\ \A q : RunningIn(running, q) <=> RunningIn(Popped, q) \/ q = f.i
           /\ \A k \in DOMAIN Popped : running[k].c # f.c
           /\ \A d : (\E k \in DOMAIN running : running[k].c = d)
                       => d = f.c \/ \E k \in DOMAIN Popped : Popped[k].c = d
<1>1. PICK n : n = Len(running)
  OBVIOUS
<1>2. PICK f : f = running[n]
  OBVIOUS
<1>3. /\ running \in Seq(Frames) /\ n \in DOMAIN running /\ f \in Frames
      /\ \A k : k \in DOMAIN Popped <=> k \in DOMAIN running /\ k # n
      /\ \A k \in DOMAIN Popped : Popped[k] = running[k]
  BY <1>1, <1>2, PoppedIs DEF CallbackInv, CallbackTypeOK
<1>4. f.l \in Listeners /\ f.c \in Conns /\ f.i \in Interps
  BY <1>2, <1>3, FrameIs
<1>5. /\ script[f.l] \in {"live", "doomed"} /\ interp[f.i] \in {"live", "doomed"}
      /\ NULL \in crefs[f.c]
      /\ \A k \in DOMAIN running : running[k].c = f.c => k = n
  BY <1>2, <1>3 DEF CallbackInv, FramesHeld
<1>6. conn[f.c] = "open"
  BY <1>4, <1>5 DEF CallbackInv, ConnsOK
<1>7. /\ \A m : RunningFor(running, m) <=> RunningFor(Popped, m) \/ m = f.l
      /\ \A q : RunningIn(running, q) <=> RunningIn(Popped, q) \/ q = f.i
  BY <1>2, <1>3 DEF RunningFor, RunningIn
<1>8. /\ \A k \in DOMAIN Popped : running[k].c # f.c
      /\ \A d : (\E k \in DOMAIN running : running[k].c = d)
                  => d = f.c \/ \E k \in DOMAIN Popped : Popped[k].c = d
  BY <1>2, <1>3, <1>5
<1> QED BY <1>1, <1>2, <1>3, <1>4, <1>5, <1>6, <1>7, <1>8

\* What Scripts does to the socket of a listener.
LEMMA LifeFollows ==
  ASSUME life \in [Listeners -> Stages], NEW L \in SUBSET Listeners, PoolClose(L)
  PROVE  /\ life' \in [Listeners -> Stages]
         /\ \A m \in L : life'[m] = "closing"
         /\ \A m \in Listeners \ L : life'[m] = life[m]
BY DEF PoolClose, Stages

LEMMA EndKeeps ==
  ASSUME CallbackInv, NEW failed \in BOOLEAN, CallbackEnd(failed), UNCHANGED life
  PROVE  CallbackInv'
<1>1. /\ opening = NULL /\ \A q \in Interps : interp[q] # "torn"
      /\ running # <<>> /\ running' = Popped
      /\ UNCHANGED <<opening, table, rec, target, refs>>
  BY DEF CallbackEnd, Quiet
<1>2. PICK f \in Frames :
           /\ f = running[Len(running)] /\ f.l \in Listeners /\ f.c \in Conns /\ f.i \in Interps
           /\ script[f.l] \in {"live", "doomed"} /\ interp[f.i] \in {"live", "doomed"}
           /\ NULL \in crefs[f.c] /\ conn[f.c] = "open"
           /\ \A m : RunningFor(running, m) <=> RunningFor(running', m) \/ m = f.l
           /\ \A q : RunningIn(running, q) <=> RunningIn(running', q) \/ q = f.i
           /\ \A k \in DOMAIN running' : running[k].c # f.c
           /\ \A d : (\E k \in DOMAIN running : running[k].c = d)
                       => d = f.c \/ \E k \in DOMAIN running' : running'[k].c = d
  BY <1>1, TopIs
<1>3. /\ CallbackTypeOK /\ life \in [Listeners -> Stages]
      /\ \A k \in DOMAIN running' : k \in DOMAIN running /\ running'[k] = running[k]
      /\ running' \in Seq(Frames) /\ Len(running') <= MaxNest
  <2>1. CallbackTypeOK /\ life \in [Listeners -> Stages]
    BY DEF CallbackInv
  <2>2. /\ Popped \in Seq(Frames) /\ Len(Popped) < Len(running)
        /\ \A k \in DOMAIN Popped : k \in DOMAIN running /\ Popped[k] = running[k]
    BY <1>1, <2>1, PoppedIs DEF CallbackTypeOK
  <2>3. Len(Popped) <= MaxNest
    BY <2>1, <2>2, NestAssumption DEF CallbackTypeOK
  <2> QED BY <1>1, <2>1, <2>2, <2>3
<1>4. PICK left \in SUBSET (crefs[f.c] \ {NULL}) :
        /\ crefs' = [crefs EXCEPT ![f.c] = left]
        /\ conn' = IF left = {} THEN [conn EXCEPT ![f.c] = "closed"] ELSE conn
  BY <1>2 DEF CallbackEnd
<1>5. \/ UNCHANGED <<interp, chores>> /\ (interp[f.i] = "live" \/ RunningIn(running', f.i))
      \/ /\ interp[f.i] = "doomed" /\ ~ RunningIn(running', f.i)
         /\ interp' = [interp EXCEPT ![f.i] = "torn"] /\ chores' = Chores
  BY <1>1, <1>2 DEF CallbackEnd
<1>6. \/ UNCHANGED script /\ (script[f.l] = "live" \/ RunningFor(running', f.l))
      \/ /\ script[f.l] = "doomed" /\ ~ RunningFor(running', f.l)
         /\ script' = [script EXCEPT ![f.l] = "freed"]
  BY <1>1, <1>2 DEF CallbackEnd
<1>7. AssocDataStays => ~ fault'
  BY <1>2 DEF CallbackEnd, CallbackInv
<1>8. CallbackTypeOK'
  <2>1. fault' \in BOOLEAN
    BY DEF CallbackEnd
  <2>2. interp' \in [Interps -> {"live", "doomed", "torn", "gone"}] /\ chores' \subseteq Chores
    BY <1>3, <1>5 DEF CallbackTypeOK, Chores
  <2>3. script' \in [Listeners -> Lives]
    BY <1>3, <1>6 DEF CallbackTypeOK, Lives
  <2>4. /\ crefs' \in [Conns -> SUBSET (Interps \cup {NULL})]
        /\ conn' \in [Conns -> {"none", "open", "closed"}]
    BY <1>2, <1>3, <1>4 DEF CallbackTypeOK
  <2> QED BY <1>1, <1>3, <2>1, <2>2, <2>3, <2>4 DEF CallbackTypeOK
<1>9. FramesHeld'
  <2>1. ASSUME NEW k \in DOMAIN running'
        PROVE  /\ script'[running[k].l] \in {"live", "doomed"}
               /\ interp'[running[k].i] \in {"live", "doomed"}
               /\ NULL \in crefs'[running[k].c]
    <3>1. /\ script[running[k].l] \in {"live", "doomed"}
          /\ interp[running[k].i] \in {"live", "doomed"}
          /\ NULL \in crefs[running[k].c] /\ running[k].c # f.c
          /\ running[k].l \in Listeners /\ running[k].i \in Interps /\ running[k].c \in Conns
      BY <2>1, <1>2, <1>3, FrameIs DEF CallbackInv, CallbackTypeOK, FramesHeld
    <3>2. RunningFor(running', running[k].l) /\ RunningIn(running', running[k].i)
      BY <2>1, <1>3 DEF RunningFor, RunningIn
    <3> QED BY <1>3, <1>4, <1>5, <1>6, <3>1, <3>2 DEF CallbackTypeOK
  <2>2. \A j, k \in DOMAIN running : running[j].c = running[k].c => j = k
    BY DEF CallbackInv, FramesHeld
  <2> QED BY <1>3, <2>1, <2>2 DEF FramesHeld
<1>10. OpeningOK' /\ LivesOK'
  BY <1>1 DEF CallbackInv, OpeningOK, LivesOK
<1>11. RecordsOK'
  BY <1>1, <1>2, <1>3, <1>6 DEF CallbackInv, CallbackTypeOK, RecordsOK
<1>12. TablesOK'
  <2>1. \A q \in Interps : interp'[q] = "gone" => interp[q] = "gone"
    BY <1>3, <1>5 DEF CallbackTypeOK, Chores
  <2>2. \A q \in Interps : interp'[q] = "torn" => "table" \in chores'
    BY <1>1, <1>5 DEF Chores
  <2> QED BY <1>1, <2>1, <2>2 DEF CallbackInv, TablesOK
<1>13. InterpsOK'
  <2>1. \A q \in Interps : Registers(q) => Registers(q)'
    BY <1>1, <1>3, <1>5 DEF Registers, Chores, CallbackTypeOK
  <2>2. \A d \in Conns : crefs'[d] \subseteq crefs[d] /\ crefs[d] \ {NULL} \subseteq Interps
    BY <1>3, <1>4 DEF CallbackTypeOK
  <2>3. \A l \in Listeners : refs'[l] = refs[l] /\ refs[l] \subseteq Interps
    BY <1>1, <1>3 DEF CallbackTypeOK
  <2>4. \A q \in Interps : interp'[q] = "doomed" => RunningIn(running', q)
    BY <1>2, <1>3, <1>5 DEF CallbackInv, InterpsOK, CallbackTypeOK
  <2>5. \A p, q \in Interps : interp'[p] = "torn" /\ interp'[q] = "torn" => p = q
    BY <1>1, <1>3, <1>5 DEF CallbackTypeOK
  <2> QED BY <2>1, <2>2, <2>3, <2>4, <2>5 DEF CallbackInv, InterpsOK
<1>14. ConnsOK'
  <2>1. crefs'[f.c] = left /\ \A d \in Conns \ {f.c} : crefs'[d] = crefs[d]
    BY <1>2, <1>3, <1>4 DEF CallbackTypeOK
  <2>2. /\ conn'[f.c] = "open" <=> left # {}
        /\ \A d \in Conns \ {f.c} : conn'[d] = conn[d]
    BY <1>2, <1>3, <1>4 DEF CallbackTypeOK
  <2> QED BY <1>2, <2>1, <2>2 DEF CallbackInv, ConnsOK
<1> QED BY <1>3, <1>7, <1>8, <1>9, <1>10, <1>11, <1>12, <1>13, <1>14 DEF CallbackInv

-----------------------------------------------------------------------------
(* What scripts do                                                           *)

LEMMA ShareKeeps ==
  ASSUME CallbackInv, NEW l \in Listeners, NEW p \in Interps, Share(l, p), UNCHANGED life
  PROVE  CallbackInv'
<1>1. /\ refs[l] # {} /\ interp[p] = "live" /\ refs' = [refs EXCEPT ![l] = @ \cup {p}]
      /\ UNCHANGED <<interp, chores, opening, table, rec, target, script, crefs, conn,
                     running, fault>>
  BY DEF Share, IsOpen, scriptVars
<1>2. CallbackTypeOK /\ life \in [Listeners -> Stages]
  BY DEF CallbackInv
<1>3. refs'[l] = refs[l] \cup {p} /\ \A m \in Listeners \ {l} : refs'[m] = refs[m]
  BY <1>1, <1>2 DEF CallbackTypeOK
<1>4. CallbackTypeOK'
  BY <1>1, <1>2 DEF CallbackTypeOK
<1>5. FramesHeld' /\ TablesOK' /\ ConnsOK'
  BY <1>1 DEF CallbackInv, FramesHeld, TablesOK, ConnsOK
<1>6. OpeningOK'
  BY <1>1, <1>2, <1>3 DEF CallbackInv, CallbackTypeOK, OpeningOK, RunningFor
<1>7. RecordsOK' /\ LivesOK'
  BY <1>1, <1>3 DEF CallbackInv, RecordsOK, LivesOK, RunningFor
<1>8. InterpsOK'
  BY <1>1, <1>3 DEF CallbackInv, InterpsOK, Registers, RunningIn
<1> QED BY <1>1, <1>2, <1>4, <1>5, <1>6, <1>7, <1>8 DEF CallbackInv

LEMMA CloseConnKeeps ==
  ASSUME CallbackInv, NEW c \in Conns, NEW p \in Interps, CloseConn(c, p), UNCHANGED life
  PROVE  CallbackInv'
<1>1. /\ p \in crefs[c] /\ p # NULL /\ crefs' = [crefs EXCEPT ![c] = @ \ {p}]
      /\ conn' = IF crefs[c] = {p} THEN [conn EXCEPT ![c] = "closed"] ELSE conn
      /\ UNCHANGED <<interp, chores, opening, table, rec, target, script, refs, running,
                     fault>>
  BY DEF CloseConn, scriptVars
<1>2. CallbackTypeOK /\ life \in [Listeners -> Stages]
  BY DEF CallbackInv
<1>3. crefs'[c] = crefs[c] \ {p} /\ \A d \in Conns \ {c} : crefs'[d] = crefs[d]
  BY <1>1, <1>2 DEF CallbackTypeOK
<1>4. CallbackTypeOK'
  BY <1>1, <1>2 DEF CallbackTypeOK
<1>5. FramesHeld'
  BY <1>1, <1>2, <1>3, FrameIs DEF CallbackInv, CallbackTypeOK, FramesHeld
<1>6. OpeningOK' /\ TablesOK' /\ RecordsOK' /\ LivesOK'
  BY <1>1 DEF CallbackInv, OpeningOK, TablesOK, RecordsOK, LivesOK, RunningFor
<1>7. InterpsOK'
  BY <1>1, <1>3 DEF CallbackInv, InterpsOK, Registers, RunningIn
<1>8. ConnsOK'
  <2>1. /\ conn'[c] = "open" <=> crefs'[c] # {}
        /\ \A d \in Conns \ {c} : conn'[d] = conn[d]
    BY <1>1, <1>2, <1>3 DEF CallbackInv, CallbackTypeOK, ConnsOK
  <2> QED BY <1>1, <1>3, <2>1 DEF CallbackInv, ConnsOK
<1> QED BY <1>1, <1>2, <1>4, <1>5, <1>6, <1>7, <1>8 DEF CallbackInv

LEMMA DeletesKeeps ==
  ASSUME CallbackInv, NEW p \in Interps, Deletes(p), UNCHANGED life
  PROVE  CallbackInv'
<1>1. /\ opening = NULL /\ interp[p] = "live" /\ \A q \in Interps : interp[q] # "torn"
      /\ \/ interp' = [interp EXCEPT ![p] = "doomed"] /\ RunningIn(running, p)
            /\ UNCHANGED chores
         \/ interp' = [interp EXCEPT ![p] = "torn"] /\ ~ RunningIn(running, p)
            /\ chores' = Chores
      /\ UNCHANGED <<opening, table, rec, target, script, refs, crefs, conn, running, fault>>
  BY DEF Deletes, Quiet, scriptVars
<1>2. CallbackTypeOK /\ life \in [Listeners -> Stages]
  BY DEF CallbackInv
<1>3. /\ interp' \in [Interps -> {"live", "doomed", "torn", "gone"}]
      /\ chores' \subseteq Chores
      /\ \A q \in Interps \ {p} : interp'[q] = interp[q]
      /\ \/ interp'[p] = "doomed" /\ RunningIn(running, p)
         \/ interp'[p] = "torn" /\ ~ RunningIn(running, p) /\ chores' = Chores
  BY <1>1, <1>2 DEF CallbackTypeOK
<1>4. CallbackTypeOK'
  BY <1>1, <1>2, <1>3 DEF CallbackTypeOK
<1>5. FramesHeld'
  BY <1>1, <1>2, <1>3, FrameIs DEF CallbackInv, CallbackTypeOK, FramesHeld, RunningIn
<1>6. OpeningOK' /\ RecordsOK' /\ LivesOK' /\ ConnsOK'
  BY <1>1 DEF CallbackInv, OpeningOK, RecordsOK, LivesOK, ConnsOK, RunningFor
<1>7. TablesOK'
  BY <1>1, <1>3 DEF CallbackInv, TablesOK, Chores
<1>8. InterpsOK'
  <2>1. \A q \in Interps : Registers(q) => Registers(q)'
    BY <1>1, <1>3 DEF Registers, Chores
  <2>2. /\ \A m \in Listeners : refs[m] \subseteq Interps
        /\ \A d \in Conns : crefs[d] \ {NULL} \subseteq Interps
    BY <1>2 DEF CallbackTypeOK
  <2> QED BY <1>1, <1>3, <2>1, <2>2 DEF CallbackInv, InterpsOK, RunningIn
<1> QED BY <1>1, <1>2, <1>4, <1>5, <1>6, <1>7, <1>8 DEF CallbackInv

\* The channels of L have lost their last reference: IocpServerCloseProc, and
\* IocpClose2Proc.
LEMMA ServerCloseKeeps ==
  ASSUME CallbackInv, opening = NULL, opening' = NULL, NEW L \in SUBSET Listeners,
         refs' \in [Listeners -> SUBSET Interps], \A m \in Listeners : refs'[m] \subseteq refs[m],
         L = {m \in Listeners : refs[m] # {} /\ refs'[m] = {}},
         ServerClose(L), PoolClose(L), UNCHANGED <<interp, running>>,
         "table" \in chores' <=> "table" \in chores
  PROVE  /\ RecordsOK' /\ TablesOK' /\ OpeningOK' /\ LivesOK'
         /\ life' \in [Listeners -> Stages] /\ UNCHANGED target
         /\ rec' \in [Listeners -> Lives \ {"doomed"}] /\ script' \in [Listeners -> Lives]
         /\ table' \in [Interps -> SUBSET Listeners]
         /\ fault' \in BOOLEAN /\ (AssocDataStays => ~ fault')
         /\ \A k \in DOMAIN running : script'[running[k].l] \in {"live", "doomed"}
<1>1. /\ CallbackTypeOK /\ life \in [Listeners -> Stages] /\ NULL \notin Listeners
      /\ \A m \in L : rec[m] = "live" /\ script[m] = "live" /\ refs[m] # {} /\ refs'[m] = {}
      /\ \A m \in Listeners \ L : refs[m] = {} <=> refs'[m] = {}
  BY NullAssumption DEF CallbackInv, RecordsOK
<1>2. /\ UNCHANGED target /\ fault' = fault
      /\ rec' \in [Listeners -> Lives \ {"doomed"}]
      /\ \A m \in L : rec'[m] = "freed"
      /\ \A m \in Listeners \ L : rec'[m] = rec[m]
  BY <1>1 DEF ServerClose, CallbackTypeOK, Lives
<1>3. /\ script' \in [Listeners -> Lives]
      /\ \A m \in L : script'[m] = IF RunningFor(running, m) THEN "doomed" ELSE "freed"
      /\ \A m \in Listeners \ L : script'[m] = script[m]
  BY <1>1 DEF ServerClose, FreeScript, CallbackTypeOK, Lives
<1>4. /\ table' \in [Interps -> SUBSET Listeners]
      /\ \A q \in Interps : table'[q] \subseteq table[q]
      /\ \A q \in Interps : \A m \in table[q] : m \notin L \/ target[m] # q => m \in table'[q]
      /\ \A q \in Interps : \A m \in table'[q] \cap L : target[m] = q => ~ TableSeen(q)
  BY <1>1 DEF ServerClose, Unregister, CallbackTypeOK
<1>5. /\ life' \in [Listeners -> Stages]
      /\ \A m \in L : life'[m] = "closing"
      /\ \A m \in Listeners \ L : life'[m] = life[m]
  BY <1>1, LifeFollows
<1>6. RecordsOK'
  <2>1. \A m : RunningFor(running', m) <=> RunningFor(running, m)
    BY DEF RunningFor
  <2>2. ASSUME NEW m \in Listeners
        PROVE  /\ rec'[m] = "none" => /\ refs'[m] = {} /\ ~ RunningFor(running, m)
                                      /\ \A q \in Interps : m \notin table'[q]
               /\ m # NULL => (rec'[m] = "live" <=> refs'[m] # {})
               /\ script'[m] = "live" <=> rec'[m] = "live"
               /\ script'[m] = "none" <=> rec'[m] = "none"
               /\ script'[m] = "doomed" => RunningFor(running, m)
    <3>1. CASE m \in L
      BY <1>1, <1>2, <1>3, <3>1
    <3>2. CASE m \notin L
      BY <1>1, <1>2, <1>3, <1>4, <3>2 DEF CallbackInv, RecordsOK
    <3> QED BY <3>1, <3>2
  <2> QED BY <2>1, <2>2 DEF RecordsOK
<1>7. TablesOK'
  <2>1. ASSUME NEW q \in Interps, NEW m \in Listeners, rec'[m] = "live", target'[m] = q
        PROVE  m \in table'[q]
    BY <1>1, <1>2, <1>4, <2>1 DEF CallbackInv, TablesOK
  <2>2. ASSUME NEW q \in Interps, NEW m \in Listeners, AssocDataStays, m \in table'[q]
        PROVE  rec'[m] = "live" /\ target'[m] = q
    <3>1. rec[m] = "live" /\ target[m] = q /\ m \in table[q]
      BY <1>4, <2>2 DEF CallbackInv, TablesOK
    <3>2. interp[q] # "gone"
      BY <3>1 DEF CallbackInv, TablesOK
    <3>3. m \notin L
      BY <1>4, <2>2, <3>1, <3>2 DEF TableSeen
    <3> QED BY <1>2, <3>1, <3>3
  <2>3. ASSUME NEW q \in Interps, interp[q] = "gone" \/ (interp[q] = "torn" /\ "table" \notin chores)
        PROVE  table'[q] = {}
    BY <1>4, <2>3 DEF CallbackInv, TablesOK
  <2> QED BY <2>1, <2>2, <2>3 DEF TablesOK
<1>8. LivesOK'
  <2>1. ASSUME NEW m \in Listeners
        PROVE  /\ life'[m] = "none" <=> rec'[m] = "none"
               /\ life'[m] = "opening" <=> opening' = m
               /\ life'[m] = "open" <=> refs'[m] # {}
    <3>1. CASE m \in L
      BY <1>1, <1>2, <1>5, <3>1
    <3>2. CASE m \notin L
      BY <1>1, <1>2, <1>5, <3>2 DEF CallbackInv, LivesOK
    <3> QED BY <3>1, <3>2
  <2> QED BY <2>1 DEF LivesOK
<1>9. ASSUME NEW k \in DOMAIN running
      PROVE  script'[running[k].l] \in {"live", "doomed"}
  <2>1. script[running[k].l] \in {"live", "doomed"} /\ running[k].l \in Listeners
    BY <1>1, FrameIs DEF CallbackInv, FramesHeld, CallbackTypeOK
  <2>2. RunningFor(running, running[k].l)
    BY DEF RunningFor
  <2> QED BY <1>3, <2>1, <2>2
<1> QED BY <1>1, <1>2, <1>3, <1>4, <1>5, <1>6, <1>7, <1>8, <1>9
        DEF OpeningOK, CallbackInv, CallbackTypeOK

LEMMA CloseKeeps ==
  ASSUME CallbackInv, NEW l \in Listeners, NEW p \in Interps, Close(l, p),
         PoolClose({m \in Listeners : IsOpen(m) /\ refs'[m] = {}})
  PROVE  CallbackInv'
<1> DEFINE L == {m \in Listeners : IsOpen(m) /\ refs'[m] = {}}
<1>1. /\ opening = NULL /\ p \in refs[l] /\ refs' = [refs EXCEPT ![l] = @ \ {p}]
      /\ UNCHANGED <<interp, chores, opening, crefs, conn, running>>
      /\ ServerClose(IF refs[l] = {p} THEN {l} ELSE {})
  BY DEF Close, Quiet
<1>2. CallbackTypeOK
  BY DEF CallbackInv
<1>3. /\ refs' \in [Listeners -> SUBSET Interps] /\ \A m \in Listeners : refs'[m] \subseteq refs[m]
      /\ refs'[l] = refs[l] \ {p} /\ \A m \in Listeners \ {l} : refs'[m] = refs[m]
  BY <1>1, <1>2 DEF CallbackTypeOK
<1>4. L = IF refs[l] = {p} THEN {l} ELSE {}
  BY <1>1, <1>3 DEF IsOpen
<1>5. L = {m \in Listeners : refs[m] # {} /\ refs'[m] = {}} /\ L \in SUBSET Listeners
  BY DEF IsOpen
<1>6. ServerClose(L) /\ PoolClose(L)
  BY <1>1, <1>4
<1> HIDE DEF L
<1>7. /\ RecordsOK' /\ TablesOK' /\ OpeningOK' /\ LivesOK'
      /\ life' \in [Listeners -> Stages] /\ UNCHANGED target
      /\ rec' \in [Listeners -> Lives \ {"doomed"}] /\ script' \in [Listeners -> Lives]
      /\ table' \in [Interps -> SUBSET Listeners]
      /\ fault' \in BOOLEAN /\ (AssocDataStays => ~ fault')
      /\ \A k \in DOMAIN running : script'[running[k].l] \in {"live", "doomed"}
  BY <1>1, <1>3, <1>5, <1>6, ServerCloseKeeps
<1>8. CallbackTypeOK'
  BY <1>1, <1>2, <1>3, <1>7 DEF CallbackTypeOK
<1>9. FramesHeld'
  BY <1>1, <1>7 DEF CallbackInv, FramesHeld
<1>10. InterpsOK' /\ ConnsOK'
  BY <1>1, <1>3 DEF CallbackInv, InterpsOK, Registers, ConnsOK, RunningIn
<1> QED BY <1>7, <1>8, <1>9, <1>10 DEF CallbackInv

-----------------------------------------------------------------------------
(* The delete procs of an interpreter                                        *)

LEMMA TearTableKeeps ==
  ASSUME CallbackInv, NEW p \in Interps, TearTable(p), UNCHANGED life
  PROVE  CallbackInv'
<1>1. /\ interp[p] = "torn" /\ chores' = chores \ {"table"}
      /\ target' = [m \in Listeners |-> IF m \in table[p] THEN NULL ELSE target[m]]
      /\ fault' = (fault \/ \E m \in table[p] : rec[m] # "live")
      /\ table' = [table EXCEPT ![p] = {}]
      /\ UNCHANGED <<interp, opening, rec, script, refs, crefs, conn, running>>
  BY DEF TearTable
<1>2. /\ CallbackTypeOK /\ life \in [Listeners -> Stages] /\ opening = NULL
      /\ NULL \notin Listeners /\ NULL \notin Interps
  BY <1>1, NullAssumption, InterpsAssumption DEF CallbackInv, OpeningOK
<1>3. AssocDataStays => ~ fault'
  BY <1>1, <1>2 DEF CallbackInv, TablesOK, CallbackTypeOK
<1>4. /\ table'[p] = {} /\ \A q \in Interps \ {p} : table'[q] = table[q]
      /\ \A m \in Listeners : target'[m] = IF m \in table[p] THEN NULL ELSE target[m]
  BY <1>1, <1>2 DEF CallbackTypeOK
<1>5. CallbackTypeOK'
  BY <1>1, <1>2 DEF CallbackTypeOK
<1>6. FramesHeld' /\ OpeningOK' /\ LivesOK' /\ ConnsOK'
  BY <1>1, <1>2 DEF CallbackInv, FramesHeld, OpeningOK, LivesOK, ConnsOK
<1>7. RecordsOK'
  <2>1. \A q \in Interps : table'[q] \subseteq table[q]
    BY <1>4
  <2> QED BY <1>1, <2>1 DEF CallbackInv, RecordsOK, RunningFor
<1>8. TablesOK'
  <2>1. ASSUME NEW q \in Interps, NEW m \in Listeners,
               rec[m] = "live", target'[m] = q, m # opening
        PROVE  m \in table'[q]
    <3>1. target[m] = q /\ m \notin table[p]
      BY <1>2, <1>4, <2>1
    <3>2. m \in table[q]
      BY <2>1, <3>1 DEF CallbackInv, TablesOK
    <3> QED BY <1>4, <3>1, <3>2
  <2>2. ASSUME NEW q \in Interps, NEW m \in Listeners, AssocDataStays, m \in table'[q]
        PROVE  rec[m] = "live" /\ target'[m] = q
    <3>1. m \in table[q] /\ q # p
      BY <1>4, <2>2
    <3>2. rec[m] = "live" /\ target[m] = q
      BY <2>2, <3>1 DEF CallbackInv, TablesOK
    <3>3. m \notin table[p]
      BY <2>2, <3>1, <3>2 DEF CallbackInv, TablesOK
    <3> QED BY <1>4, <3>2, <3>3
  <2>3. ASSUME NEW q \in Interps, interp[q] = "gone" \/ (interp[q] = "torn" /\ "table" \notin chores')
        PROVE  table'[q] = {}
    <3>1. CASE q = p
      BY <1>4, <3>1
    <3>2. CASE q # p
      <4>1. interp[q] = "gone"
        BY <1>1, <2>3, <3>2 DEF CallbackInv, InterpsOK
      <4> QED BY <1>4, <3>2, <4>1 DEF CallbackInv, TablesOK
    <3> QED BY <3>1, <3>2
  <2> QED BY <1>1, <2>1, <2>2, <2>3 DEF TablesOK
<1>9. InterpsOK'
  BY <1>1 DEF CallbackInv, InterpsOK, Registers, RunningIn
<1> QED BY <1>2, <1>3, <1>5, <1>6, <1>7, <1>8, <1>9 DEF CallbackInv

LEMMA TearChannelsKeeps ==
  ASSUME CallbackInv, NEW p \in Interps, TearChannels(p),
         PoolClose({m \in Listeners : IsOpen(m) /\ refs'[m] = {}})
  PROVE  CallbackInv'
<1> DEFINE L == {m \in Listeners : IsOpen(m) /\ refs'[m] = {}}
<1>1. /\ interp[p] = "torn" /\ chores' = chores \ {"channels"}
      /\ refs' = [m \in DOMAIN refs |-> refs[m] \ {p}]
      /\ crefs' = [d \in DOMAIN crefs |-> crefs[d] \ {p}]
      /\ conn' = [d \in Conns |-> IF d \in Ending(crefs, p) THEN "closed" ELSE conn[d]]
      /\ ServerClose(Ending(refs, p))
      /\ UNCHANGED <<interp, opening, running>>
  BY DEF TearChannels, Losing
<1>2. CallbackTypeOK /\ opening = NULL /\ p # NULL
  BY <1>1, InterpsAssumption DEF CallbackInv, OpeningOK
<1>3. /\ refs' \in [Listeners -> SUBSET Interps] /\ \A m \in Listeners : refs'[m] = refs[m] \ {p}
      /\ crefs' \in [Conns -> SUBSET (Interps \cup {NULL})]
      /\ \A d \in Conns : crefs'[d] = crefs[d] \ {p}
  BY <1>1, <1>2 DEF CallbackTypeOK
<1>4. Ending(refs, p) = {m \in Listeners : refs[m] # {} /\ refs'[m] = {}}
  BY <1>2, <1>3 DEF Ending, CallbackTypeOK
<1>5. L = Ending(refs, p) /\ L \in SUBSET Listeners
  BY <1>4 DEF IsOpen
<1>6. ServerClose(L) /\ PoolClose(L)
  BY <1>1, <1>5
<1> HIDE DEF L
<1>7. /\ RecordsOK' /\ TablesOK' /\ OpeningOK' /\ LivesOK'
      /\ life' \in [Listeners -> Stages] /\ UNCHANGED target
      /\ rec' \in [Listeners -> Lives \ {"doomed"}] /\ script' \in [Listeners -> Lives]
      /\ table' \in [Interps -> SUBSET Listeners]
      /\ fault' \in BOOLEAN /\ (AssocDataStays => ~ fault')
      /\ \A k \in DOMAIN running : script'[running[k].l] \in {"live", "doomed"}
  <2>1. "table" \in chores' <=> "table" \in chores
    BY <1>1
  <2>2. \A m \in Listeners : refs'[m] \subseteq refs[m]
    BY <1>3
  <2> QED BY <1>1, <1>2, <1>3, <1>4, <1>5, <1>6, <2>1, <2>2, ServerCloseKeeps
<1>8. /\ conn' \in [Conns -> {"none", "open", "closed"}]
      /\ \A d \in Conns : conn'[d] = "open" <=> crefs'[d] # {}
  BY <1>1, <1>2, <1>3 DEF CallbackInv, CallbackTypeOK, ConnsOK, Ending
<1>9. CallbackTypeOK'
  BY <1>1, <1>2, <1>3, <1>7, <1>8 DEF CallbackTypeOK
<1>10. FramesHeld'
  <2>1. \A k \in DOMAIN running : running[k].c \in Conns
    BY <1>2, FrameIs DEF CallbackTypeOK
  <2> QED BY <1>1, <1>2, <1>3, <1>7, <2>1 DEF CallbackInv, FramesHeld
<1>11. InterpsOK'
  <2>1. ASSUME NEW q \in Interps, q # p, Registers(q)
        PROVE  Registers(q)'
    BY <1>1, <2>1 DEF CallbackInv, InterpsOK, Registers
  <2>2. /\ \A m \in Listeners : refs[m] \subseteq Interps
        /\ \A d \in Conns : crefs[d] \ {NULL} \subseteq Interps
    BY <1>2 DEF CallbackTypeOK
  <2> QED BY <1>1, <1>3, <2>1, <2>2 DEF CallbackInv, InterpsOK, RunningIn
<1>12. ConnsOK'
  BY <1>1, <1>3, <1>8 DEF CallbackInv, ConnsOK
<1> QED BY <1>7, <1>9, <1>10, <1>11, <1>12 DEF CallbackInv

LEMMA TornKeeps ==
  ASSUME CallbackInv, NEW p \in Interps, Torn(p), UNCHANGED life
  PROVE  CallbackInv'
<1>1. /\ interp[p] = "torn" /\ chores = {} /\ interp' = [interp EXCEPT ![p] = "gone"]
      /\ UNCHANGED <<chores, opening, table, rec, target, script, refs, crefs, conn,
                     running, fault>>
  BY DEF Torn, scriptVars
<1>2. CallbackTypeOK /\ life \in [Listeners -> Stages] /\ opening = NULL
  BY <1>1 DEF CallbackInv, OpeningOK
<1>3. interp'[p] = "gone" /\ \A q \in Interps \ {p} : interp'[q] = interp[q]
  BY <1>1, <1>2 DEF CallbackTypeOK
<1>4. CallbackTypeOK'
  BY <1>1, <1>2 DEF CallbackTypeOK
<1>5. FramesHeld'
  <2>1. \A k \in DOMAIN running : running[k].i \in Interps /\ running[k].i # p
    BY <1>1, <1>2, FrameIs DEF CallbackInv, FramesHeld, CallbackTypeOK
  <2> QED BY <1>1, <1>3, <2>1 DEF CallbackInv, FramesHeld
<1>6. OpeningOK' /\ RecordsOK' /\ LivesOK' /\ ConnsOK'
  BY <1>1, <1>2 DEF CallbackInv, OpeningOK, RecordsOK, LivesOK, ConnsOK, RunningFor
<1>7. TablesOK'
  BY <1>1, <1>3 DEF CallbackInv, TablesOK
<1>8. InterpsOK'
  <2>1. \A q \in Interps : Registers(q) => q # p /\ Registers(q)'
    BY <1>1, <1>3 DEF Registers
  <2>2. /\ \A m \in Listeners : refs[m] \subseteq Interps
        /\ \A d \in Conns : crefs[d] \ {NULL} \subseteq Interps
    BY <1>2 DEF CallbackTypeOK
  <2> QED BY <1>1, <1>3, <2>1, <2>2 DEF CallbackInv, InterpsOK, RunningIn
<1> QED BY <1>1, <1>2, <1>4, <1>5, <1>6, <1>7, <1>8 DEF CallbackInv

-----------------------------------------------------------------------------
(* The theorems                                                              *)

LEMMA CallbackInitial == Init => CallbackInv
<1> SUFFICES ASSUME Init PROVE CallbackInv
  OBVIOUS
<1>1. /\ life = [m \in Listeners |-> "none"] /\ interp = [q \in Interps |-> "live"]
      /\ chores = {} /\ opening = NULL /\ table = [q \in Interps |-> {}]
      /\ rec = [m \in Listeners |-> "none"] /\ script = [m \in Listeners |-> "none"]
      /\ target = [m \in Listeners |-> NULL] /\ refs = [m \in Listeners |-> {}]
      /\ crefs = [c \in Conns |-> {}] /\ conn = [c \in Conns |-> "none"]
      /\ running = <<>> /\ fault = FALSE
  BY DEF Init, PoolInit, CallbackInit
<1>2. /\ running \in Seq(Frames) /\ Len(running) = 0 /\ 0 <= MaxNest /\ DOMAIN running = {}
      /\ \A m : ~ RunningFor(running, m)
  <2>1. <<>> \in Seq(Frames) /\ Len(<<>>) = 0 /\ DOMAIN <<>> = {}
    OBVIOUS
  <2> QED BY <1>1, <2>1, NestAssumption DEF RunningFor
<1>3. CallbackTypeOK /\ life \in [Listeners -> Stages]
  BY <1>1, <1>2 DEF CallbackTypeOK, Lives, Stages
<1>4. FramesHeld /\ OpeningOK /\ ConnsOK
  BY <1>1, <1>2 DEF FramesHeld, OpeningOK, ConnsOK
<1>5. RecordsOK /\ TablesOK /\ LivesOK
  BY <1>1, <1>2, NullAssumption DEF RecordsOK, TablesOK, LivesOK
<1>6. InterpsOK
  BY <1>1 DEF InterpsOK
<1> QED BY <1>1, <1>3, <1>4, <1>5, <1>6 DEF CallbackInv

\* No step of a thread at the pool changes what a listener is.
LEMMA PoolKeepsLife ==
  ASSUME TclPosts \/ CompletionThread
  PROVE  UNCHANGED life
BY DEF TclPosts, CompletionThread, PostOverlappedAccept, PostCount, PostUndo, SocketFails,
       AcceptExFails, PostIssue, Loop, Shrink, Complete, HandleAccept, HandleError,
       HandleNoBufs, HandleAborted

\* Scripts that leave every channel its references close no socket.
LEMMA NothingCloses ==
  ASSUME life \in [Listeners -> Stages],
         \A m \in Listeners : refs[m] # {} => refs'[m] # {},
         PoolClose({m \in Listeners : IsOpen(m) /\ refs'[m] = {}})
  PROVE  UNCHANGED life
<1>1. {m \in Listeners : IsOpen(m) /\ refs'[m] = {}} = {}
  BY DEF IsOpen
<1>2. PoolClose({})
  BY <1>1
<1>3. life' \in [Listeners -> Stages] /\ \A m \in Listeners : life'[m] = life[m]
  BY <1>2, LifeFollows
<1> QED BY <1>3

LEMMA ScriptsKeep ==
  ASSUME CallbackInv, Scripts
  PROVE  CallbackInv'
<1>1. PoolClose({m \in Listeners : IsOpen(m) /\ refs'[m] = {}})
  BY DEF Scripts
<1>2. CallbackTypeOK /\ life \in [Listeners -> Stages]
  BY DEF CallbackInv
<1>3. CASE UNCHANGED refs
  <2>1. UNCHANGED life
    BY <1>1, <1>2, <1>3, NothingCloses
  <2>2. CASE \E failed \in BOOLEAN : CallbackEnd(failed)
    BY <2>1, <2>2, EndKeeps
  <2>3. CASE \E c \in Conns, p \in Interps : CloseConn(c, p)
    BY <2>1, <2>3, CloseConnKeeps
  <2>4. CASE \E p \in Interps : Deletes(p) \/ TearTable(p) \/ Torn(p)
    BY <2>1, <2>4, DeletesKeeps, TearTableKeeps, TornKeeps
  <2>5. CASE \E l \in Listeners, p \in Interps : Share(l, p)
    BY <2>1, <2>5, ShareKeeps
  <2>6. CASE \E l \in Listeners, p \in Interps : Close(l, p)
    BY <1>1, <2>6, CloseKeeps
  <2>7. CASE \E p \in Interps : TearChannels(p)
    BY <1>1, <2>7, TearChannelsKeeps
  <2> QED BY <2>2, <2>3, <2>4, <2>5, <2>6, <2>7 DEF Scripts
<1>4. CASE \E l \in Listeners, p \in Interps : Share(l, p)
  <2>1. \A m \in Listeners : refs[m] # {} => refs'[m] # {}
    BY <1>2, <1>4 DEF Share, CallbackTypeOK
  <2>2. UNCHANGED life
    BY <1>1, <1>2, <2>1, NothingCloses
  <2> QED BY <1>4, <2>2, ShareKeeps
<1>5. CASE \E l \in Listeners, p \in Interps : Close(l, p)
  BY <1>1, <1>5, CloseKeeps
<1>6. CASE \E p \in Interps : TearChannels(p)
  BY <1>1, <1>6, TearChannelsKeeps
<1> QED
  BY <1>3, <1>4, <1>5, <1>6
     DEF Scripts, CallbackEnd, CloseConn, Deletes, TearTable, Torn, scriptVars

LEMMA CallbackStep == CallbackInv /\ [Next]_vars => CallbackInv'
<1> SUFFICES ASSUME CallbackInv, [Next]_vars PROVE CallbackInv'
  OBVIOUS
<1>1. CASE \E p \in Interps, l \in Listeners : Socket2(p, l)
  BY <1>1, CreateKeeps
<1>2. CASE \E l \in Listeners : Socket2Done(l) \/ Socket2Fails(l)
  BY <1>2, RegisterKeeps, FreeRecordKeeps
<1>3. CASE \E l \in Listeners, n \in Backlogs : SetBacklog(l, n)
  BY <1>3, Stuttered DEF SetBacklog, Backlog
<1>4. CASE \E l \in Listeners, c \in Conns : AcceptOne(l, c)
  BY <1>4, StartKeeps
<1>5. CASE Scripts
  BY <1>5, ScriptsKeep
<1>6. CASE (TclPosts \/ CompletionThread) /\ UNCHANGED cbVars
  BY <1>6, PoolKeepsLife, Stuttered
<1>7. CASE UNCHANGED vars
  BY <1>7, Stuttered DEF vars, poolVars
<1> QED BY <1>1, <1>2, <1>3, <1>4, <1>5, <1>6, <1>7 DEF Next

\* CallbackInv is an inductive invariant.
THEOREM CallbackInvariance == Spec => []CallbackInv
BY CallbackInitial, CallbackStep, PTL DEF Spec

\* What TcpAcceptCallbackProc goes back to after the script is still there, whether or
\* not Tcl_GetAssocData finds the table of an interpreter that is being deleted.
THEOREM CallbacksHold == Spec => []RunningIsHeld
<1>1. CallbackInv => RunningIsHeld
  <2> SUFFICES ASSUME CallbackInv, NEW k \in DOMAIN running
               PROVE  /\ script[running[k].l] \in {"live", "doomed"}
                      /\ interp[running[k].i] \in {"live", "doomed"}
                      /\ conn[running[k].c] = "open" /\ crefs[running[k].c] # {}
    BY DEF RunningIsHeld
  <2>1. running[k].c \in Conns
    BY FrameIs DEF CallbackInv, CallbackTypeOK
  <2> QED BY <2>1 DEF CallbackInv, FramesHeld, ConnsOK
<1> QED BY <1>1, CallbackInvariance, PTL

\* An open connection that no callback holds is registered in a live interpreter.
THEOREM ConnectionsAreOwned == Spec => []NobodyIsOrphaned
<1>1. CallbackInv => NobodyIsOrphaned
  <2> SUFFICES ASSUME CallbackInv, Quiet, running = <<>>, NEW c \in Conns, conn[c] = "open"
               PROVE  \E p \in crefs[c] \ {NULL} : interp[p] = "live"
    BY DEF NobodyIsOrphaned
  <2>1. crefs[c] # {} /\ NULL \notin crefs[c] /\ crefs[c] \subseteq Interps \cup {NULL}
    BY DEF CallbackInv, ConnsOK, CallbackTypeOK
  <2>2. PICK p \in crefs[c] \ {NULL} : p \in Interps
    BY <2>1
  <2>3. interp[p] \in {"live", "doomed"}
    BY <2>2 DEF CallbackInv, InterpsOK, Registers, Quiet
  <2>4. interp[p] # "doomed"
    BY <2>2 DEF CallbackInv, InterpsOK, RunningIn
  <2> QED BY <2>2, <2>3, <2>4
<1> QED BY <1>1, CallbackInvariance, PTL

\* Neither a record nor a script, an interpreter or a connection is used after it is
\* gone, when Tcl_GetAssocData still finds a table whose delete proc has not run.
THEOREM NothingStale ==
  ASSUME AssocDataStays
  PROVE  Spec => []NothingStaleIsUsed
<1>1. CallbackInv => NothingStaleIsUsed
  BY DEF CallbackInv, NothingStaleIsUsed
<1> QED BY <1>1, CallbackInvariance, PTL

\* And then the tables of the interpreters, the records and the sockets agree whenever
\* a script may run.
THEOREM TheyAgree ==
  ASSUME AssocDataStays
  PROVE  Spec => []PartsAgree
<1>1. CallbackInv => PartsAgree
  <2> SUFFICES ASSUME CallbackInv PROVE PartsAgree
    OBVIOUS
  <2>1. TablesAgree
    <3> SUFFICES ASSUME Quiet, NEW l \in Listeners
                 PROVE  /\ \A p \in Interps : l \in table[p] <=> (rec[l] = "live" /\ target[l] = p)
                        /\ rec[l] = "live" <=> IsOpen(l)
                        /\ rec[l] = "live" /\ target[l] # NULL => interp[target[l]] # "gone"
      BY DEF TablesAgree
    <3>1. l # opening /\ target[l] \in Interps \cup {NULL}
      BY NullAssumption DEF Quiet, CallbackInv, CallbackTypeOK
    <3>2. \A p \in Interps : l \in table[p] <=> (rec[l] = "live" /\ target[l] = p)
      BY <3>1 DEF CallbackInv, TablesOK
    <3>3. rec[l] = "live" <=> IsOpen(l)
      BY <3>1 DEF CallbackInv, RecordsOK, IsOpen
    <3>4. rec[l] = "live" /\ target[l] # NULL => interp[target[l]] # "gone"
      BY <3>1, <3>2 DEF CallbackInv, TablesOK
    <3> QED BY <3>2, <3>3, <3>4
  <2>2. ASSUME Quiet, NEW l \in Listeners
        PROVE  /\ life[l] = "open" <=> IsOpen(l)
               /\ life[l] \in {"failed", "closing"} =>
                    rec[l] = "freed" /\ \A p \in Interps : l \notin table[p]
    <3>1. l # opening
      BY <2>2, NullAssumption DEF Quiet
    <3>2. life[l] = "open" <=> IsOpen(l)
      BY DEF CallbackInv, LivesOK, IsOpen
    <3>3. life[l] \in {"failed", "closing"} => rec[l] = "freed"
      BY <3>1 DEF CallbackInv, CallbackTypeOK, LivesOK, RecordsOK, Lives
    <3> QED BY <3>2, <3>3 DEF CallbackInv, TablesOK
  <2> QED BY <2>1, <2>2 DEF PartsAgree
<1> QED BY <1>1, CallbackInvariance, PTL
=============================================================================
