------------------------------- MODULE Server -------------------------------
(***************************************************************************)
(* A listener as a whole: the pool of AcceptEx calls (AcceptPool) and the       *)
(* script level (AcceptCallbacks).  They share the Tcl thread: while socket2     *)
(* or -backlog is at its loop no script runs, and the AcceptEx calls of the       *)
(* completion thread fall between any two steps of either.                       *)
(***************************************************************************)
EXTENDS AcceptPool, AcceptCallbacks

vars == <<poolVars, cbVars>>

ASSUME ConnsAssumption == Cardinality(Conns) >= MaxConns

TypeOK == PoolTypeOK /\ CallbackTypeOK

Init == PoolInit /\ CallbackInit

-----------------------------------------------------------------------------
(* What each step of one part is to the other                                *)

\* Iocp_SocketObjCmd with -server: CreateTcpSocket runs between the two halves.
Socket2(p, l) == CreateRecord(p, l) /\ OpenBegin(l)
Socket2Done(l) == OpenDone(l) /\ Register(l)
Socket2Fails(l) == OpenFails(l) /\ FreeRecord(l)

SetBacklog(l, n) == Quiet /\ Backlog(l, n) /\ UNCHANGED cbVars

\* IocpAcceptOne
AcceptOne(l, c) == Take(l) /\ CallbackStart(l, c)

\* Scripts and deletions: a listener whose channel goes is closed by IocpClose2Proc.
Scripts ==
  /\ \/ \E failed \in BOOLEAN : CallbackEnd(failed)
     \/ \E l \in Listeners, p \in Interps : Share(l, p) \/ Close(l, p)
     \/ \E c \in Conns, p \in Interps : CloseConn(c, p)
     \/ \E p \in Interps : Deletes(p) \/ TearTable(p) \/ TearChannels(p) \/ Torn(p)
  /\ PoolClose({l \in Listeners : IsOpen(l) /\ refs'[l] = {}})

Next ==
  \/ \E p \in Interps, l \in Listeners : Socket2(p, l)
  \/ \E l \in Listeners : Socket2Done(l) \/ Socket2Fails(l)
  \/ \E l \in Listeners, n \in Backlogs : SetBacklog(l, n)
  \/ \E l \in Listeners, c \in Conns : AcceptOne(l, c)
  \/ Scripts
  \/ (TclPosts \/ CompletionThread) /\ UNCHANGED cbVars

Spec == Init /\ [][Next]_vars

-----------------------------------------------------------------------------
(* Properties                                                               *)

\* The two parts agree on what a listener is, through nested callbacks that close
\* it, failed openings and deleted interpreters: the tables of the script level agree,
\* the socket is open exactly while a record serves it, so that no connection finds the
\* callback freed, and a listener that failed or closes is in no table.
PartsAgree ==
  /\ TablesAgree
  /\ Quiet => \A l \in Listeners :
       /\ life[l] = "open" <=> IsOpen(l)
       /\ life[l] \in {"failed", "closing"} =>
            rec[l] = "freed" /\ \A p \in Interps : l \notin table[p]
=============================================================================
