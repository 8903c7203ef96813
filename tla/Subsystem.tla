----------------------------- MODULE Subsystem ------------------------------
(***************************************************************************)
(* Start and end of the extension, and the threads its sockets belong to     *)
(* (src/iocpsock_lolevel.c: InitSockets, InitializeIocpSubSystem,             *)
(* IocpExitHandler, IocpThreadExitHandler, IocpThreadActionProc,              *)
(* CompletionThreadProc, and what IocpZapTclNotifier, the event source and     *)
(* IocpClose2Proc do to tsdHome, readySockets and the heaps).                  *)
(*                                                                          *)
(* The globals of IocpSubSystem hold handles; a handle is the kind of object  *)
(* and the initialisation that made it, 0 is NULL.  Memory is the heap that   *)
(* it was taken from.  What Tcl does with a channel or a thread, and when, is  *)
(* external: only the driver procedures it calls are this program's.          *)
(*                                                                          *)
(* Liberties names what a program may do beyond the plainest use:             *)
(*   "overlap"   load the package in a thread while another is loading it     *)
(*   "linger"    exit while another thread loads or uses the package          *)
(*   "abandon"   end a thread that has open sockets                           *)
(*   "move"      transfer a channel to another thread                         *)
(***************************************************************************)
EXTENDS Naturals, FiniteSets, Sequences, FiniteSetsExt

CONSTANTS Threads, Main, Sockets, None,
          Inits,       \* bound on the initialisations begun
          Liberties

ASSUME ThreadsAssumption == Main \in Threads /\ None \notin Threads \cup Sockets
ASSUME LibertiesAssumption == Liberties \subseteq {"overlap", "linger", "abandon", "move"}
ASSUME InitsAssumption == Inits \in Nat \ {0}

Stages == <<"port", "heap", "nppheap", "thread">>   \* InitializeIocpSubSystem's order
Kinds == Range(Stages)
Gens == 1 .. Inits

VARIABLES
  initialized,   \* 0 or 1
  startups,      \* WSAStartup calls not matched by a WSACleanup
  gen,           \* initialisations begun
  field,         \* IocpSubSystem: kind -> initialisation, or 0
  alive,         \* kernel objects and heaps that exist: <<kind, initialisation>>
  ct,            \* completion thread of each initialisation: at, and its socket
  quit,          \* ports to which the NULL key has been posted
  inExit,        \* TclInExit()
  known,         \* threads whose tsdPtr->threadId is set
  ready,         \* tsdPtr->readySockets: the heap it is in, or 0 for NULL
  at, caller, arg, mine,  \* of a Tcl thread: where it is, who called InitSockets,
                 \* for which socket, the initialisation it has begun
  sock,          \* "none", "open", "cut" (between two threads), "closed", "freed"
  own,           \* the thread that has the channel
  home,          \* infoPtr->tsdHome
  mem,           \* the heap the SocketInfo is in
  listed,        \* infoPtr->node.ll: the thread whose list it is on
  marked,        \* infoPtr->markedReady
  evq,           \* sockets with an event in a thread's queue
  broken         \* what has ended the run, or "no"

global == <<initialized, startups, gen, field, alive, quit, inExit>>
thread == <<known, ready, at, caller, arg, mine>>
socket == <<sock, own, home, mem>>
lists  == <<listed, marked, evq>>
vars == <<global, ct, thread, socket, lists, broken>>

Initialising == {"exchange", "startup", "unload", "tsd"} \cup Kinds
Exiting == {"post", "wait", "destroy"}
Places == Initialising \cup Exiting \cup {"new", "up", "loop", "leave", "fin", "dead"}

\* "nullTsd": tsdPtr NULL is read; "noHeap": IocpLLCreate without a heap;
\* "nullList", "deadList": readySockets is NULL, or in a heap that is gone;
\* "heldList": its lock is held by a thread that was terminated;
\* "deadSocket": a SocketInfo in a heap that is gone; "portGone": the completion
\* thread waits on a closed port; "staleEvent": an event for a freed socket.
Faults == {"nullTsd", "noHeap", "nullList", "deadList", "heldList", "deadSocket",
           "portGone", "staleEvent"}

TypeOK ==
  /\ initialized \in {0, 1} /\ startups \in Nat /\ gen \in 0 .. Inits
  /\ field \in [Kinds -> 0 .. Inits]
  /\ alive \subseteq Kinds \X Gens
  /\ ct \in [Gens -> [at : {"none", "wait", "zap", "push", "done", "killed"},
                       sock : Sockets \cup {None}]]
  /\ quit \subseteq Gens /\ inExit \in BOOLEAN
  /\ known \subseteq Threads /\ ready \in [Threads -> 0 .. Inits]
  /\ at \in [Threads -> Places]
  /\ caller \in [Threads -> {"load", "loop", "open", "insert", "none"}]
  /\ arg \in [Threads -> Sockets \cup {None}] /\ mine \in [Threads -> 0 .. Inits]
  /\ sock \in [Sockets -> {"none", "open", "cut", "closed", "freed"}]
  /\ own \in [Sockets -> Threads \cup {None}]
  /\ home \in [Sockets -> Threads \cup {None}]
  /\ mem \in [Sockets -> 0 .. Inits]
  /\ listed \in [Sockets -> Threads \cup {None}]
  /\ marked \in [Sockets -> BOOLEAN]
  /\ evq \in [Threads -> SUBSET Sockets]
  /\ broken \in Faults \cup {"no"}

Init ==
  /\ initialized = 0 /\ startups = 0 /\ gen = 0
  /\ field = [k \in Kinds |-> 0] /\ alive = {}
  /\ ct = [g \in Gens |-> [at |-> "none", sock |-> None]]
  /\ quit = {} /\ inExit = FALSE
  /\ known = {} /\ ready = [t \in Threads |-> 0]
  /\ at = [t \in Threads |-> "new"]
  /\ caller = [t \in Threads |-> "none"] /\ arg = [t \in Threads |-> None]
  /\ mine = [t \in Threads |-> 0]
  /\ sock = [s \in Sockets |-> "none"] /\ own = [s \in Sockets |-> None]
  /\ home = [s \in Sockets |-> None] /\ mem = [s \in Sockets |-> 0]
  /\ listed = [s \in Sockets |-> None] /\ marked = [s \in Sockets |-> FALSE]
  /\ evq = [t \in Threads |-> {}]
  /\ broken = "no"

-----------------------------------------------------------------------------
(* Helpers                                                                  *)

\* ExitProcess ends every thread.
Runs == broken = "no" /\ at[Main] # "dead"
In(t, place) == Runs /\ at[t] = place
Goto(t, place) == at' = [at EXCEPT ![t] = place]

HeapOf(g) == <<"heap", g>> \in alive
Handle(k) == <<k, field[k]>>

Break(fault) == broken' = fault /\ UNCHANGED <<global, ct, thread, socket, lists>>

\* A Tcl thread waits while a completion thread is inside IocpZapTclNotifier for
\* the socket (tsdLock) or for a socket of the thread (the list's lock).
Zapping(s) == \E g \in Gens : ct[g].at = "push" /\ ct[g].sock = s
ListBusy(t) == \E g \in Gens : ct[g].at = "push" /\ home[ct[g].sock] = t
\* The lock of a list whose holder was terminated is never left.
ListHeld(t) == \E g \in Gens : ct[g].at = "killed" /\ ct[g].sock # None
                                 /\ home[ct[g].sock] = t /\ ready[t] = g

\* What is wrong with readySockets of t, or "no".  The event source and
\* IocpThreadExitHandler may meet NULL, IocpZapTclNotifier may not.
ListFault(t) == CASE ready[t] = 0 -> "nullList"
                  [] ~HeapOf(ready[t]) -> "deadList"
                  [] ListHeld(t) -> "heldList"
                  [] OTHER -> "no"

-----------------------------------------------------------------------------
(* InitSockets                                                              *)

\* Called by Iocpsock_Init, the event source, CreateTcpSocket and
\* IocpThreadActionProc.
Call(t, who, s) ==
  /\ Goto(t, "exchange")
  /\ caller' = [caller EXCEPT ![t] = who] /\ arg' = [arg EXCEPT ![t] = s]

Return(t, place) ==
  /\ Goto(t, place)
  /\ caller' = [caller EXCEPT ![t] = "none"] /\ arg' = [arg EXCEPT ![t] = None]
  /\ mine' = [mine EXCEPT ![t] = 0]

\* Iocpsock_Init, HasSockets.
Load(t) ==
  /\ In(t, "new")
  /\ "overlap" \in Liberties \/ \A u \in Threads : at[u] \notin Initialising
  /\ "linger" \in Liberties \/ ~inExit
  /\ gen < Inits \/ initialized = 1
  /\ Call(t, "load", None)
  /\ UNCHANGED <<global, ct, known, ready, mine, socket, lists, broken>>

\* Mutant of Exchange: the test is made once per thread.
ExchangePerThread(t) ==
  /\ In(t, "exchange")
  /\ t \in known \/ gen < Inits
  /\ IF t \notin known THEN /\ gen' = gen + 1 /\ mine' = [mine EXCEPT ![t] = gen + 1]
                             /\ Goto(t, "startup")
                        ELSE UNCHANGED <<gen, mine>> /\ Goto(t, "tsd")
  /\ initialized' = 1
  /\ UNCHANGED <<startups, field, alive, quit, inExit, ct, known, ready, caller, arg,
                 socket, lists, broken>>

Exchange(t) ==
  /\ In(t, "exchange")
  /\ initialized = 1 \/ gen < Inits
  /\ IF initialized = 0 THEN /\ gen' = gen + 1 /\ mine' = [mine EXCEPT ![t] = gen + 1]
                             /\ Goto(t, "startup")
                        ELSE UNCHANGED <<gen, mine>> /\ Goto(t, "tsd")
  /\ initialized' = 1
  /\ UNCHANGED <<startups, field, alive, quit, inExit, ct, known, ready, caller, arg,
                 socket, lists, broken>>

\* WSAStartup fails, finds a version below 2.2 (WSACleanup), or succeeds.
Startup(t) ==
  /\ In(t, "startup")
  /\ \/ startups' = startups + 1 /\ Goto(t, Stages[1])
     \/ UNCHANGED startups /\ Goto(t, "unload")
  /\ UNCHANGED <<initialized, gen, field, alive, quit, inExit, ct, known, ready, caller,
                 arg, mine, socket, lists, broken>>

\* InitializeIocpSubSystem makes its objects one after the other ...
Create(t, i) ==
  LET k == Stages[i] IN
  /\ In(t, k)
  /\ alive' = alive \cup {<<k, mine[t]>>}
  /\ field' = [field EXCEPT ![k] = mine[t]]
  /\ IF k = "thread" THEN /\ ct' = [ct EXCEPT ![mine[t]].at = "wait"]
                          /\ Goto(t, "tsd")
                     ELSE UNCHANGED ct /\ Goto(t, Stages[i+1])
  /\ UNCHANGED <<initialized, startups, gen, quit, inExit, known, ready, caller, arg,
                 mine, socket, lists, broken>>

\* Mutant of CreateFails: only the object made last is released.
CreateFailsKeeps(t, i) ==
  LET k == Stages[i] IN
  /\ In(t, k)
  /\ alive' = IF i = 1 THEN alive ELSE alive \ {Handle(Stages[i-1])}
  /\ field' = [field EXCEPT ![k] = 0]
  /\ Goto(t, "unload")
  /\ UNCHANGED <<initialized, startups, gen, quit, inExit, ct, known, ready, caller,
                 arg, mine, socket, lists, broken>>

\* ... and releases those it has made when one fails.  WSAStartup is not undone.
CreateFails(t, i) ==
  LET k == Stages[i] IN
  /\ In(t, k)
  /\ alive' = alive \ {Handle(Stages[j]) : j \in 1 .. i-1}
  /\ field' = [field EXCEPT ![k] = 0]
  /\ Goto(t, "unload")
  /\ UNCHANGED <<initialized, startups, gen, quit, inExit, ct, known, ready, caller,
                 arg, mine, socket, lists, broken>>

\* What CreateTcpSocket and IocpThreadActionProc do with the result, tsd.
Store(t, tsd) ==
  LET s == arg[t] IN
  CASE caller[t] = "open" ->
         /\ sock' = [sock EXCEPT ![s] = "open"] /\ own' = [own EXCEPT ![s] = t]
         /\ home' = [home EXCEPT ![s] = tsd] /\ mem' = [mem EXCEPT ![s] = field["heap"]]
    [] caller[t] = "insert" ->
         /\ sock' = [sock EXCEPT ![s] = "open"] /\ own' = [own EXCEPT ![s] = t]
         /\ home' = [home EXCEPT ![s] = tsd] /\ UNCHANGED mem
    [] OTHER -> UNCHANGED socket

\* The label unloadLibrary: NULL is returned.  The event source reads through it;
\* CreateTcpSocket goes on, and finds no Winsock or no heap; Iocpsock_Init returns
\* an error, and the script may try again.
Unload(t) ==
  /\ In(t, "unload")
  /\ CASE caller[t] = "loop" -> Break("nullTsd")
       [] caller[t] = "open" /\ startups > 0 -> Break("noHeap")
       [] OTHER ->
            /\ initialized' = 0
            /\ Return(t, IF caller[t] = "load" THEN "new" ELSE "up")
            /\ IF caller[t] = "insert" THEN Store(t, None) ELSE UNCHANGED socket
            /\ UNCHANGED <<startups, gen, field, alive, quit, inExit, ct, known, ready,
                           lists, broken>>

\* The per thread part: the event source, the exit handler, and readySockets.
TsdInit(t) ==
  /\ In(t, "tsd")
  /\ IF t \notin known /\ Handle("heap") \notin alive
     THEN Break("noHeap")
     ELSE /\ known' = known \cup {t}
          /\ ready' = IF t \in known THEN ready ELSE [ready EXCEPT ![t] = field["heap"]]
          /\ Return(t, IF caller[t] = "loop" THEN "loop" ELSE "up")
          /\ Store(t, t)
          /\ UNCHANGED <<global, ct, lists, broken>>

InitSockets(t) ==
  \/ Exchange(t) \/ Startup(t) \/ Unload(t) \/ TsdInit(t)
  \/ \E i \in DOMAIN Stages : Create(t, i) \/ CreateFails(t, i)

-----------------------------------------------------------------------------
(* A thread that runs its event loop                                        *)

EventLoop(t) ==
  /\ In(t, "up")
  /\ Call(t, "loop", None)
  /\ UNCHANGED <<global, ct, known, ready, mine, socket, lists, broken>>

\* IocpEventSetupProc and IocpEventCheckProc: the list becomes events.
EventCheck(t) ==
  LET here == {s \in Sockets : listed[s] = t} IN
  /\ In(t, "loop") /\ ~ListBusy(t)
  /\ IF ready[t] # 0 /\ ListFault(t) # "no"
     THEN Break(ListFault(t))
     ELSE /\ listed' = [s \in Sockets |-> IF s \in here THEN None ELSE listed[s]]
          /\ marked' = [s \in Sockets |-> s \notin here /\ marked[s]]
          /\ evq' = [evq EXCEPT ![t] = @ \cup here]
          /\ Goto(t, "up")
          /\ UNCHANGED <<global, ct, known, ready, caller, arg, mine, socket, broken>>

\* IocpEventProc reads the SocketInfo.
EventProc(t, s) ==
  /\ In(t, "up") /\ s \in evq[t]
  /\ IF sock[s] = "freed"
     THEN Break("staleEvent")
     ELSE /\ evq' = [evq EXCEPT ![t] = @ \ {s}]
          /\ UNCHANGED <<global, ct, thread, socket, listed, marked, broken>>

\* CreateTcpSocket.
Open(t, s) ==
  /\ In(t, "up") /\ sock[s] = "none"
  /\ \A u \in Threads : arg[u] = s => caller[u] # "open"
  /\ Call(t, "open", s)
  /\ UNCHANGED <<global, ct, known, ready, mine, socket, lists, broken>>

\* The generic layer takes a channel off a thread's list: IocpThreadActionProc,
\* TCL_CHANNEL_THREAD_REMOVE.
RemoveHome(s) == IF initialized = 1 THEN home' = [home EXCEPT ![s] = None]
                                     ELSE UNCHANGED home

Cut(t, s) ==
  /\ "move" \in Liberties
  /\ In(t, "up") /\ sock[s] = "open" /\ own[s] = t /\ ~Zapping(s)
  /\ RemoveHome(s)
  /\ sock' = [sock EXCEPT ![s] = "cut"] /\ own' = [own EXCEPT ![s] = None]
  /\ UNCHANGED <<global, ct, thread, mem, lists, broken>>

\* TCL_CHANNEL_THREAD_INSERT, inside tsdLock.
Splice(t, s) ==
  /\ In(t, "up") /\ sock[s] = "cut" /\ \A u \in Threads : arg[u] # s \/ caller[u] # "insert"
  /\ IF initialized = 1
     THEN Call(t, "insert", s) /\ UNCHANGED <<sock, own>>
     ELSE /\ sock' = [sock EXCEPT ![s] = "open"] /\ own' = [own EXCEPT ![s] = t]
          /\ UNCHANGED <<at, caller, arg>>
  /\ UNCHANGED <<global, ct, known, ready, mine, home, mem, lists, broken>>

\* Mutant of Closes: IocpClose2Proc does not look at initialized.
ClosesAnyway(t, s) ==
  IF ~HeapOf(mem[s])
  THEN Break("deadSocket")
  ELSE /\ RemoveHome(s)
       /\ sock' = [sock EXCEPT ![s] = "closed"] /\ own' = [own EXCEPT ![s] = None]
       /\ listed' = [listed EXCEPT ![s] = None]
       /\ marked' = [marked EXCEPT ![s] = TRUE]
       /\ evq' = [evq EXCEPT ![t] = @ \ {s}]
       /\ UNCHANGED <<global, ct, thread, mem, broken>>

\* Tcl closes a channel: it flushes (IocpOutputProc asks TclInExit first), takes
\* it off the thread (IocpThreadActionProc) and calls IocpClose2Proc; the two
\* leave the SocketInfo alone when the subsystem has ended.
Closes(t, s) ==
  IF ~HeapOf(mem[s]) /\ (initialized = 1 \/ ~inExit)
  THEN Break("deadSocket")
  ELSE /\ RemoveHome(s)
       /\ sock' = [sock EXCEPT ![s] = "closed"] /\ own' = [own EXCEPT ![s] = None]
       /\ IF initialized = 1
          THEN /\ listed' = [listed EXCEPT ![s] = None]
               /\ marked' = [marked EXCEPT ![s] = TRUE]
               /\ evq' = [evq EXCEPT ![t] = @ \ {s}]
          ELSE UNCHANGED lists
       /\ UNCHANGED <<global, ct, thread, mem, broken>>

Close(t, s) ==
  /\ Runs /\ at[t] \in {"up", "fin"}
  /\ sock[s] = "open" /\ own[s] = t /\ ~Zapping(s)
  /\ Closes(t, s)

-----------------------------------------------------------------------------
(* Ends                                                                     *)

Leave(t) ==
  /\ In(t, "up") /\ t # Main
  /\ "abandon" \in Liberties \/ \A s \in Sockets : own[s] # t
  /\ Goto(t, "leave")
  /\ UNCHANGED <<global, ct, known, ready, caller, arg, mine, socket, lists, broken>>

\* Mutant of ThreadExit: the list is destroyed with its nodes on it.
ThreadExitUndrained(t) ==
  /\ In(t, "leave") /\ (initialized = 1 => ~ListBusy(t))
  /\ Goto(t, "fin")
  /\ IF initialized = 0
     THEN UNCHANGED <<listed, ready, broken>>
     ELSE IF ready[t] # 0 /\ ListFault(t) # "no"
     THEN broken' = ListFault(t) /\ UNCHANGED <<listed, ready>>
     ELSE /\ UNCHANGED listed
          /\ ready' = [ready EXCEPT ![t] = 0]
          /\ UNCHANGED broken
  /\ UNCHANGED <<global, ct, known, caller, arg, mine, socket, marked, evq>>

\* IocpThreadExitHandler; IocpLLPopAll leaves the marks.
ThreadExit(t) ==
  /\ In(t, "leave") /\ (initialized = 1 => ~ListBusy(t))
  /\ Goto(t, "fin")
  /\ IF initialized = 0
     THEN UNCHANGED <<listed, ready, broken>>
     ELSE IF ready[t] # 0 /\ ListFault(t) # "no"
     THEN broken' = ListFault(t) /\ UNCHANGED <<listed, ready>>
     ELSE /\ listed' = [s \in Sockets |-> IF listed[s] = t THEN None ELSE listed[s]]
          /\ ready' = [ready EXCEPT ![t] = 0]
          /\ UNCHANGED broken
  /\ UNCHANGED <<global, ct, known, caller, arg, mine, socket, marked, evq>>

\* Tcl closes what the thread still has (Close), and the thread ends.
Die(t) ==
  /\ In(t, "fin") /\ \A s \in Sockets : own[s] # t
  /\ Goto(t, "dead")
  /\ UNCHANGED <<global, ct, known, ready, caller, arg, mine, socket, lists, broken>>

\* Tcl_Exit calls the exit handlers, then those of the thread.  IocpExitHandler
\* is there once an initialisation has succeeded.
Exit ==
  /\ In(Main, "up")
  /\ "linger" \in Liberties \/ \A t \in Threads \ {Main} : at[t] \in {"new", "dead"}
  /\ inExit' = TRUE
  /\ initialized' = 0
  /\ evq' = IF initialized = 1 THEN [evq EXCEPT ![Main] = {}] ELSE evq
  /\ Goto(Main, IF initialized = 1 THEN "post" ELSE "leave")
  /\ UNCHANGED <<startups, gen, field, alive, quit, ct, known, ready, caller, arg, mine,
                 socket, listed, marked, broken>>

PostNull ==
  /\ In(Main, "post")
  /\ quit' = quit \cup ({field["port"]} \ {0})
  /\ Goto(Main, "wait")
  /\ UNCHANGED <<initialized, startups, gen, field, alive, inExit, ct, known, ready,
                 caller, arg, mine, socket, lists, broken>>

\* Mutant of WaitForThread: no time limit.
WaitForever ==
  /\ In(Main, "wait")
  /\ ct[field["thread"]].at = "done"
  /\ Goto(Main, "destroy")
  /\ UNCHANGED <<global, ct, known, ready, caller, arg, mine, socket, lists, broken>>

\* The completion thread has ended, or is terminated after 400 ms where it is.
WaitForThread ==
  /\ In(Main, "wait")
  /\ ct' = [ct EXCEPT ![field["thread"]] =
              CASE @.at = "done" -> @
                [] @.at = "push" -> [@ EXCEPT !.at = "killed"]
                [] OTHER -> [at |-> "killed", sock |-> None]]
  /\ Goto(Main, "destroy")
  /\ UNCHANGED <<global, known, ready, caller, arg, mine, socket, lists, broken>>

\* The thread's handle and the port are closed, the heaps destroyed, WSACleanup.
Destroy ==
  /\ In(Main, "destroy")
  /\ alive' = alive \ {Handle(k) : k \in Kinds}
  /\ startups' = startups - 1
  /\ Goto(Main, "leave")
  /\ UNCHANGED <<initialized, gen, field, quit, inExit, ct, known, ready, caller, arg,
                 mine, socket, lists, broken>>

-----------------------------------------------------------------------------
(* The completion threads                                                   *)

Ct(g, place) == Runs /\ ct[g].at = place
CtGoto(g, place, s) == ct' = [ct EXCEPT ![g] = [at |-> place, sock |-> s]]

\* An operation of s completes, and HandleIo calls IocpZapTclNotifier.  On a port
\* that is gone GetQueuedCompletionStatus fails, and there is no operation.
Completion(g, s) ==
  /\ Ct(g, "wait")
  /\ IF <<"port", g>> \notin alive
     THEN Break("portGone")
     ELSE /\ sock[s] \in {"open", "cut", "closed"} /\ mem[s] = g
          /\ CtGoto(g, "zap", s)
          /\ UNCHANGED <<global, thread, socket, lists, broken>>

\* The two locks of IocpZapTclNotifier are entered.  Nothing is done for a
\* channel that is between two threads.
ZapEnter(g) ==
  LET s == ct[g].sock IN
  /\ Ct(g, "zap")
  /\ IF home[s] = None
     THEN CtGoto(g, "wait", None) /\ UNCHANGED <<global, thread, socket, lists, broken>>
     ELSE IF ListFault(home[s]) # "no"
     THEN Break(ListFault(home[s]))
     ELSE CtGoto(g, "push", s) /\ UNCHANGED <<global, thread, socket, lists, broken>>

ZapPush(g) ==
  LET s == ct[g].sock IN
  /\ Ct(g, "push")
  /\ marked' = [marked EXCEPT ![s] = TRUE]
  /\ listed' = IF marked[s] THEN listed ELSE [listed EXCEPT ![s] = home[s]]
  /\ CtGoto(g, "wait", None)
  /\ UNCHANGED <<global, thread, socket, evq, broken>>

\* The last operation of a closed socket.
Free(g, s) ==
  /\ Ct(g, "wait") /\ sock[s] = "closed" /\ mem[s] = g
  /\ sock' = [sock EXCEPT ![s] = "freed"]
  /\ UNCHANGED <<global, ct, thread, own, home, mem, lists, broken>>

\* The NULL key.
Quit(g) ==
  /\ Ct(g, "wait") /\ g \in quit
  /\ CtGoto(g, "done", None)
  /\ UNCHANGED <<global, thread, socket, lists, broken>>

-----------------------------------------------------------------------------

ExitHandler == Exit \/ PostNull \/ WaitForThread \/ Destroy

Next ==
  \/ \E t \in Threads : \/ Load(t) \/ InitSockets(t) \/ EventLoop(t) \/ EventCheck(t)
                        \/ Leave(t) \/ ThreadExit(t) \/ Die(t)
  \/ \E t \in Threads, s \in Sockets :
       Open(t, s) \/ Cut(t, s) \/ Splice(t, s) \/ Close(t, s) \/ EventProc(t, s)
  \/ ExitHandler
  \/ \E g \in Gens : ZapEnter(g) \/ ZapPush(g) \/ Quit(g)
  \/ \E g \in Gens, s \in Sockets : Completion(g, s) \/ Free(g, s)

\* Main runs on once it exits.  Nothing is assumed of the completion thread.
EndFairness == /\ WF_vars(PostNull) /\ WF_vars(WaitForThread) /\ WF_vars(Destroy)
               /\ WF_vars(ThreadExit(Main)) /\ WF_vars(Die(Main))
               /\ WF_vars(\E s \in Sockets : Close(Main, s))

Spec == Init /\ [][Next]_vars /\ EndFairness

-----------------------------------------------------------------------------
(* Properties                                                               *)

\* No list, heap, lock or port is used that is not there: the initialisation is
\* over before anyone uses it, and whoever runs after IocpExitHandler leaves the
\* heaps alone ("The core might want to close channels after the exit handler!
\* Our heap is gone!", iocpsock_lolevel.c:630).
NothingGoneIsUsed == broken \in {"no", "staleEvent"}

\* The one and only thread to service the completion port
\* (iocpsock_lolevel.c:270): two would reorder the buffers of a socket.
OneCompletionThread ==
  Cardinality({g \in Gens : ct[g].at \in {"wait", "zap", "push"}}) <= 1

\* When nobody is starting or ending the subsystem and it is not initialized, no
\* port, heap or thread is left of an attempt that failed or of one that ended.
NothingIsLeftOver ==
  initialized = 0 /\ (\A t \in Threads : at[t] \notin Initialising \cup Exiting)
    => alive = {}

\* And no WSAStartup that was not undone.  Broken by the code, which calls WSACleanup in
\* the exit handler and for a version that is too old, but not when a handle cannot be
\* made (iocpsock_lolevel.c:185-187).
WinsockIsReleased ==
  initialized = 0 /\ (\A t \in Threads : at[t] \notin Initialising \cup Exiting)
    => startups = 0

\* A socket on a list can be reached from it: the list exists, and the node is not
\* forgotten by the mark.
ListedIsReachable ==
  \A s \in Sockets : listed[s] # None /\ initialized = 1 =>
    marked[s] /\ ListFault(listed[s]) = "no"

\* The marks and the lists make sense, together and by themselves.
WellFormed == TypeOK /\ ListedIsReachable

\* A channel between two threads is on no list and has no event: "don't notify
\* anyone during the move" (iocpsock_lolevel.c:1457).
NobodyIsNotified ==
  \A s \in Sockets : sock[s] = "cut" =>
    listed[s] = None /\ \A t \in Threads : s \notin evq[t]

\* Whatever the completion thread does, an exit ends: it is waited for 400 ms.
ExitEnds == inExit ~> at[Main] = "dead" \/ broken # "no"
=============================================================================
