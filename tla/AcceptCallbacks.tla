-------------------------- MODULE AcceptCallbacks --------------------------
(***************************************************************************)
(* The script level of a listener: the AcceptCallback record that socket2      *)
(* -server allocates, the table each interpreter keeps of the records that     *)
(* name it, the close handler of the listener's channel                         *)
(* (src/iocpsock_hilevel.c), and TcpAcceptCallbackProc, which evaluates the      *)
(* script for a new connection (src/ws2tcp.c).  All of it runs on one thread,    *)
(* but the script may enter the event loop: calls nest, and anything may happen *)
(* to the interpreters and the channels before one returns.                     *)
(*                                                                          *)
(* External, as this code uses them: the reference counts of channels (refs of  *)
(* listeners, crefs of connections), Tcl_Preserve and Tcl_EventuallyFree (what   *)
(* is held by a running call outlives it), and the deletion of an interpreter,    *)
(* whose delete procs run in any order once nothing holds it.                    *)
(***************************************************************************)
EXTENDS Naturals, Sequences, FiniteSets, ListenerNames

CONSTANTS
  Interps, Conns,
  MaxNest,           \* bound on the callbacks that run inside one another
  AssocDataStays     \* Tcl_GetAssocData finds the table until its delete proc has run

ASSUME NestAssumption == MaxNest \in Nat /\ AssocDataStays \in BOOLEAN
ASSUME InterpsAssumption == NULL \notin Interps

Chores == {"table", "channels"}
Lives == {"none", "live", "doomed", "freed"}

VARIABLES
  interp,     \* "live", "doomed" (deleted but held), "torn" (its delete procs run), "gone"
  chores,     \* the delete procs the interpreter being torn down has yet to run
  opening,    \* the listener whose socket2 command is under way
  table,      \* the records in the interpreter's iocpTCPAcceptCallbacks
  rec,        \* the AcceptCallback
  target,     \* acceptCallbackPtr->interp
  script,     \* acceptCallbackPtr->script
  refs,       \* interpreters the listener's channel is registered in
  crefs,      \* the same for a connection, NULL being the artificial reference
  conn,       \* "none", "open", "closed"
  running,    \* the calls of TcpAcceptCallbackProc, innermost last
  fault       \* something freed was used

scriptVars == <<table, rec, target, script>>
cbVars == <<interp, chores, opening, scriptVars, refs, crefs, conn, running, fault>>

Frames == [l : Listeners, c : Conns, i : Interps]

CallbackTypeOK ==
  /\ interp \in [Interps -> {"live", "doomed", "torn", "gone"}]
  /\ chores \subseteq Chores /\ opening \in Listeners \cup {NULL}
  /\ table \in [Interps -> SUBSET Listeners]
  /\ rec \in [Listeners -> Lives \ {"doomed"}] /\ script \in [Listeners -> Lives]
  /\ target \in [Listeners -> Interps \cup {NULL}]
  /\ refs \in [Listeners -> SUBSET Interps]
  /\ crefs \in [Conns -> SUBSET (Interps \cup {NULL})]
  /\ conn \in [Conns -> {"none", "open", "closed"}]
  /\ running \in Seq(Frames) /\ Len(running) <= MaxNest
  /\ fault \in BOOLEAN

CallbackInit ==
  /\ interp = [i \in Interps |-> "live"] /\ chores = {} /\ opening = NULL
  /\ table = [i \in Interps |-> {}]
  /\ rec = [l \in Listeners |-> "none"] /\ script = [l \in Listeners |-> "none"]
  /\ target = [l \in Listeners |-> NULL]
  /\ refs = [l \in Listeners |-> {}]
  /\ crefs = [c \in Conns |-> {}] /\ conn = [c \in Conns |-> "none"]
  /\ running = <<>> /\ fault = FALSE

-----------------------------------------------------------------------------
(* Helpers                                                                  *)

\* A script or the event loop may run: no command of this code, and no delete
\* proc, is half way.
Quiet == opening = NULL /\ \A i \in Interps : interp[i] # "torn"

RunningIn(frames, i) == \E k \in DOMAIN frames : frames[k].i = i
RunningFor(frames, l) == \E k \in DOMAIN frames : frames[k].l = l
Popped == SubSeq(running, 1, Len(running) - 1)

IsOpen(l) == refs[l] # {}
Losing(f, i) == [x \in DOMAIN f |-> f[x] \ {i}]
Ending(f, i) == {x \in DOMAIN f : f[x] # {} /\ f[x] \subseteq {i}}

TableSeen(i) == interp[i] # "gone" /\ (AssocDataStays \/ interp[i] # "torn")

-----------------------------------------------------------------------------
(* IocpServerCloseProc, for each listener of L                               *)

\* Mutant of Unregister: the record stays in the table.
UnregisterNot(L) == table

\* UnregisterTcpServerInterpCleanupProc
Unregister(L) ==
  [i \in Interps |-> IF TableSeen(i) THEN table[i] \ {l \in L : target[l] = i} ELSE table[i]]

\* Mutant of FreeScript: without Tcl_EventuallyFree.
FreeScriptAtOnce(L) ==
  [l \in Listeners |-> IF l \in L THEN "freed" ELSE script[l]]

FreeScript(L) ==
  [l \in Listeners |->
     IF l \notin L THEN script[l] ELSE IF RunningFor(running, l) THEN "doomed" ELSE "freed"]

ServerClose(L) ==
  /\ table' = Unregister(L)
  /\ script' = FreeScript(L)
  /\ rec' = [l \in Listeners |-> IF l \in L THEN "freed" ELSE rec[l]]
  /\ fault' = (fault \/ \E l \in L : rec[l] # "live")
  /\ UNCHANGED target

-----------------------------------------------------------------------------
(* socket2 -server                                                           *)

CreateRecord(i, l) ==
  /\ Quiet /\ interp[i] = "live" /\ rec[l] = "none"
  /\ opening' = l
  /\ rec' = [rec EXCEPT ![l] = "live"] /\ script' = [script EXCEPT ![l] = "live"]
  /\ target' = [target EXCEPT ![l] = i]
  /\ UNCHANGED <<interp, chores, table, refs, crefs, conn, running, fault>>

\* Iocp_OpenTcpServer failed.
FreeRecord(l) ==
  /\ opening = l /\ opening' = NULL
  /\ rec' = [rec EXCEPT ![l] = "freed"] /\ script' = [script EXCEPT ![l] = "freed"]
  /\ UNCHANGED <<interp, chores, table, target, refs, crefs, conn, running, fault>>

\* RegisterTcpServerInterpCleanup, the close handler, Tcl_RegisterChannel.
Register(l) ==
  /\ opening = l /\ opening' = NULL
  /\ table' = [table EXCEPT ![target[l]] = @ \cup {l}]
  /\ refs' = [refs EXCEPT ![l] = {target[l]}]
  /\ UNCHANGED <<interp, chores, rec, target, script, crefs, conn, running, fault>>

-----------------------------------------------------------------------------
(* TcpAcceptCallbackProc, called by IocpAcceptOne                             *)

\* Mutant of CallbackStart: the connection has no artificial reference.
CallbackStartBare(l, c) ==
  /\ Quiet /\ Len(running) < MaxNest /\ IsOpen(l) /\ conn[c] = "none"
  /\ fault' = (fault \/ rec[l] # "live")
  /\ IF target[l] = NULL
     THEN conn' = [conn EXCEPT ![c] = "closed"] /\ UNCHANGED <<crefs, running>>
     ELSE /\ conn' = [conn EXCEPT ![c] = "open"]
          /\ crefs' = [crefs EXCEPT ![c] = {target[l]}]
          /\ running' = Append(running, [l |-> l, c |-> c, i |-> target[l]])
  /\ UNCHANGED <<interp, chores, opening, scriptVars, refs>>

CallbackStart(l, c) ==
  /\ Quiet /\ Len(running) < MaxNest /\ IsOpen(l) /\ conn[c] = "none"
  /\ fault' = (fault \/ rec[l] # "live" \/ (target[l] # NULL /\ interp[target[l]] = "gone"))
  /\ IF target[l] = NULL
     THEN conn' = [conn EXCEPT ![c] = "closed"] /\ UNCHANGED <<crefs, running>>
     ELSE /\ conn' = [conn EXCEPT ![c] = "open"]
          /\ crefs' = [crefs EXCEPT ![c] = {target[l], NULL}]
          /\ running' = Append(running, [l |-> l, c |-> c, i |-> target[l]])
  /\ UNCHANGED <<interp, chores, opening, scriptVars, refs>>

\* Mutant of CallbackEnd: the artificial reference stays.
CallbackEndKeeps(failed) ==
  LET f == running[Len(running)]
      left == crefs[f.c] \ (IF failed THEN {f.i} ELSE {}) IN
  /\ Quiet /\ running # <<>>
  /\ running' = Popped
  /\ crefs' = [crefs EXCEPT ![f.c] = left]
  /\ IF interp[f.i] = "doomed" /\ ~RunningIn(Popped, f.i)
     THEN interp' = [interp EXCEPT ![f.i] = "torn"] /\ chores' = Chores
     ELSE UNCHANGED <<interp, chores>>
  /\ UNCHANGED <<opening, scriptVars, refs, conn, fault>>

\* The script has returned, in error or not: an error takes the connection out of
\* the interpreter.  Then the artificial reference goes, and what nothing holds any
\* more is freed or deleted.
CallbackEnd(failed) ==
  LET f == running[Len(running)]
      left == crefs[f.c] \ ({NULL} \cup (IF failed THEN {f.i} ELSE {})) IN
  /\ Quiet /\ running # <<>>
  /\ running' = Popped
  /\ crefs' = [crefs EXCEPT ![f.c] = left]
  /\ conn' = IF left = {} THEN [conn EXCEPT ![f.c] = "closed"] ELSE conn
  /\ IF interp[f.i] = "doomed" /\ ~RunningIn(Popped, f.i)
     THEN interp' = [interp EXCEPT ![f.i] = "torn"] /\ chores' = Chores
     ELSE UNCHANGED <<interp, chores>>
  /\ script' = IF script[f.l] = "doomed" /\ ~RunningFor(Popped, f.l)
               THEN [script EXCEPT ![f.l] = "freed"] ELSE script
  /\ fault' = (fault \/ conn[f.c] # "open" \/ script[f.l] = "freed" \/ interp[f.i] = "gone")
  /\ UNCHANGED <<opening, table, rec, target, refs>>

-----------------------------------------------------------------------------
(* What scripts do to channels and interpreters                              *)

\* A channel is shared with another interpreter.
Share(l, i) ==
  /\ Quiet /\ IsOpen(l) /\ interp[i] = "live" /\ i \notin refs[l]
  /\ refs' = [refs EXCEPT ![l] = @ \cup {i}]
  /\ UNCHANGED <<interp, chores, opening, scriptVars, crefs, conn, running, fault>>

\* "close" of a listener in interpreter i.
Close(l, i) ==
  /\ Quiet /\ i \in refs[l]
  /\ refs' = [refs EXCEPT ![l] = @ \ {i}]
  /\ ServerClose(IF refs[l] = {i} THEN {l} ELSE {})
  /\ UNCHANGED <<interp, chores, opening, crefs, conn, running>>

\* "close" of a connection.
CloseConn(c, i) ==
  /\ Quiet /\ i \in crefs[c] /\ i # NULL
  /\ crefs' = [crefs EXCEPT ![c] = @ \ {i}]
  /\ conn' = IF crefs[c] = {i} THEN [conn EXCEPT ![c] = "closed"] ELSE conn
  /\ UNCHANGED <<interp, chores, opening, scriptVars, refs, running, fault>>

\* Tcl_DeleteInterp
Deletes(i) ==
  /\ Quiet /\ interp[i] = "live"
  /\ IF RunningIn(running, i)
     THEN interp' = [interp EXCEPT ![i] = "doomed"] /\ UNCHANGED chores
     ELSE interp' = [interp EXCEPT ![i] = "torn"] /\ chores' = Chores
  /\ UNCHANGED <<opening, scriptVars, refs, crefs, conn, running, fault>>

\* IocpAcceptCallbacksDeleteProc
TearTable(i) ==
  /\ interp[i] = "torn" /\ "table" \in chores
  /\ chores' = chores \ {"table"}
  /\ target' = [l \in Listeners |-> IF l \in table[i] THEN NULL ELSE target[l]]
  /\ fault' = (fault \/ \E l \in table[i] : rec[l] # "live")
  /\ table' = [table EXCEPT ![i] = {}]
  /\ UNCHANGED <<interp, opening, rec, script, refs, crefs, conn, running>>

\* Tcl closes the channels only this interpreter knows.
TearChannels(i) ==
  /\ interp[i] = "torn" /\ "channels" \in chores
  /\ chores' = chores \ {"channels"}
  /\ refs' = Losing(refs, i) /\ crefs' = Losing(crefs, i)
  /\ conn' = [c \in Conns |-> IF c \in Ending(crefs, i) THEN "closed" ELSE conn[c]]
  /\ ServerClose(Ending(refs, i))
  /\ UNCHANGED <<interp, opening, running>>

Torn(i) ==
  /\ interp[i] = "torn" /\ chores = {}
  /\ interp' = [interp EXCEPT ![i] = "gone"]
  /\ UNCHANGED <<chores, opening, scriptVars, refs, crefs, conn, running, fault>>

-----------------------------------------------------------------------------
(* Properties                                                               *)

\* Neither a record nor an interpreter nor a script nor a connection is used after
\* it is freed or closed, however calls nest, whichever delete proc runs first and
\* whoever closes what inside the script.
NothingStaleIsUsed == ~fault

\* What TcpAcceptCallbackProc goes back to after the script is still there: the
\* script, the interpreter (its delete procs have not even begun) and the channel.
RunningIsHeld ==
  \A k \in DOMAIN running : LET f == running[k] IN
    /\ script[f.l] \in {"live", "doomed"}
    /\ interp[f.i] \in {"live", "doomed"}
    /\ conn[f.c] = "open" /\ crefs[f.c] # {}

\* The three tables agree whenever a script may run, through closes inside callbacks
\* and deletions half done: an interpreter's table holds the records that name it,
\* exactly, so that its deletion reaches all of them and nothing that has been freed; a
\* record lives as long as its listener's channel, and names no interpreter that is
\* gone.
TablesAgree ==
  Quiet => \A l \in Listeners :
    /\ \A i \in Interps : l \in table[i] <=> (rec[l] = "live" /\ target[l] = i)
    /\ rec[l] = "live" <=> IsOpen(l)
    /\ rec[l] = "live" /\ target[l] # NULL => interp[target[l]] # "gone"

\* Once no callback runs, an open connection is registered in an interpreter that
\* can still close it: none is left without an owner.
NobodyIsOrphaned ==
  Quiet /\ running = <<>> =>
    \A c \in Conns : conn[c] = "open" => \E i \in crefs[c] \ {NULL} : interp[i] = "live"

\* "avoid trying to eval the script in a deleted interpreter"
\* (iocpsock_hilevel.c:252).  Broken by the code: interp is only set to NULL by the
\* delete procs, which wait for the callback that runs; a callback served by a
\* nested event loop meanwhile evaluates in the deleted interpreter.
NoEvalInDeleted ==
  [][\A k \in DOMAIN running' : k > Len(running) => interp[running'[k].i] = "live"]_cbVars
=============================================================================
