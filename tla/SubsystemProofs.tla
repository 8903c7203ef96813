--------------------------- MODULE SubsystemProofs --------------------------
(***************************************************************************)
(* There is one completion thread, nothing is used before it is there or      *)
(* after it is gone, and a failed start or an exit leaves nothing, for any     *)
(* number of threads, sockets and initialisations, when the program does not   *)
(* load the package in two threads at once, does not exit while other threads  *)
(* run and does not end a thread with open sockets.                           *)
(*                                                                          *)
(* The subsystem goes through four phases, and the proof has a lemma for each  *)
(* step of each of them.                                                     *)
(***************************************************************************)
EXTENDS Subsystem, FiniteSetTheorems, TLAPS

-----------------------------------------------------------------------------
(* The invariant                                                            *)

OnlyMoves == Liberties \subseteq {"move"}

\* Nothing has been made of the subsystem, or nothing is left: no thread has its
\* data, no socket is there.
Untouched ==
  /\ ~inExit /\ known = {}
  /\ \A t \in Threads : ready[t] = 0
  /\ \A s \in Sockets : sock[s] = "none" /\ own[s] = None /\ home[s] = None
                         /\ listed[s] = None
  /\ \A g \in Gens : ct[g].at = "none"

\* Nobody starts it, but one thread may be about to.
Idle ==
  /\ Untouched /\ initialized = 0 /\ alive = {}
  /\ \A t \in Threads : \/ at[t] = "new"
                        \/ at[t] = "exchange" /\ caller[t] = "load"
  /\ \A t, u \in Threads : at[t] = "exchange" /\ at[u] = "exchange" => t = u

\* t is in the first call of InitSockets, and has made the stages before its own.
MadeBefore(place) ==
  CASE place = "heap"    -> {"port"}
    [] place = "nppheap" -> {"port", "heap"}
    [] place = "thread"  -> {"port", "heap", "nppheap"}
    [] OTHER             -> {}

StartedBy(t) ==
  /\ at[t] \in {"startup", "unload"} \cup Kinds
  /\ caller[t] = "load" /\ mine[t] = gen
  /\ \A u \in Threads : u # t => at[u] = "new"
  /\ alive = MadeBefore(at[t]) \X {gen}
  /\ \A k \in MadeBefore(at[t]) : field[k] = gen
  /\ at[t] \in Kinds => startups > 0
Starting == Untouched /\ initialized = 1 /\ gen > 0 /\ \E t \in Threads : StartedBy(t)

\* Everything is there, made by the last initialisation.
Complete ==
  /\ gen > 0 /\ startups > 0
  /\ alive = Kinds \X {gen} /\ \A k \in Kinds : field[k] = gen

\* No other initialisation has a completion thread, and what it is about to
\* notify has a thread.
OneThread(places) ==
  /\ \A g \in Gens : g # gen => ct[g].at = "none"
  /\ ct[gen].at \in places
  /\ ct[gen].at \in {"zap", "push"} => ct[gen].sock \in Sockets
  /\ ct[gen].at = "push" => home[ct[gen].sock] # None

\* A thread has its list from its first call of InitSockets to the end of its exit
\* handler.
HasList(t) == t \in known /\ at[t] \in {"exchange", "tsd", "up", "loop", "leave"}
ThreadOK(t) ==
  /\ at[t] \in {"new", "exchange", "tsd", "up", "loop", "leave", "fin", "dead"}
  /\ HasList(t) => ready[t] = gen
  /\ at[t] \in {"up", "loop", "leave"} => t \in known
  /\ t \notin known => ready[t] = 0
  /\ at[t] = "new" => t \notin known
  /\ at[t] \in {"fin", "dead"} => ready[t] = 0
  /\ at[t] \in {"exchange", "tsd"} =>
       /\ caller[t] = "load" \/ t \in known
       /\ caller[t] \in {"open", "insert"} => arg[t] \in Sockets
       /\ caller[t] = "insert" => mem[arg[t]] = gen

\* A socket is owned by a thread that has not begun to end, its notifications go
\* there, and it is on the list of a thread that has one.
SocketOK(s) ==
  /\ sock[s] \in {"open", "cut"} => mem[s] = gen
  /\ own[s] # None => /\ own[s] \in known
                      /\ at[own[s]] \in {"exchange", "tsd", "up", "loop"}
  /\ home[s] # None => home[s] = own[s]
  /\ listed[s] # None => HasList(listed[s]) /\ marked[s]

Running ==
  /\ initialized = 1 /\ ~inExit /\ Complete
  /\ OneThread({"wait", "zap", "push", "done"})
  /\ \A t \in Threads : ThreadOK(t)
  /\ \A s \in Sockets : SocketOK(s)

\* The main thread is in Tcl_Exit, and only sockets of its own are left.
Ending ==
  /\ initialized = 0 /\ inExit
  /\ at[Main] \in Exiting \cup {"leave", "fin", "dead"}
  /\ \A t \in Threads : t # Main => at[t] \in {"new", "dead"}
  /\ IF at[Main] \in Exiting THEN Complete ELSE alive = {}
  /\ gen > 0 /\ ready[Main] = gen
  /\ OneThread(IF at[Main] \in {"post", "wait"} THEN {"wait", "zap", "push", "done"}
                                                ELSE {"killed", "done"})
  /\ \A s \in Sockets : home[s] \in {Main, None} /\ own[s] \in {Main, None}

SubsystemInv ==
  /\ TypeOK /\ broken \in {"no", "staleEvent"}
  /\ Idle \/ Starting \/ Running \/ Ending

-----------------------------------------------------------------------------
(* Types                                                                    *)

LEMMA KindsAre == Kinds = {"port", "heap", "nppheap", "thread"}
BY DEF Kinds, Stages, Range

LEMMA StagesAre ==
  /\ DOMAIN Stages = 1 .. 4
  /\ Stages[1] = "port" /\ Stages[2] = "heap"
  /\ Stages[3] = "nppheap" /\ Stages[4] = "thread"
BY DEF Stages

\* What the phases know that types depend on.
Numbered ==
  /\ \A t \in Threads : at[t] \in Kinds => mine[t] \in Gens
  /\ at[Main] = "destroy" => startups > 0

LEMMA PhasesAreNumbered == SubsystemInv => Numbered
<1> SUFFICES ASSUME SubsystemInv PROVE Numbered
  OBVIOUS
<1>1. gen \in Nat /\ gen <= Inits
  BY InitsAssumption DEF SubsystemInv, TypeOK
<1>2. Main \in Threads
  BY ThreadsAssumption
<1>3. CASE Idle
  BY <1>2, <1>3, KindsAre DEF Idle, Numbered
<1>4. CASE Starting
  BY <1>1, <1>2, <1>4, KindsAre DEF Starting, StartedBy, Numbered, Gens
<1>5. CASE Running
  BY <1>2, <1>5, KindsAre DEF Running, ThreadOK, Numbered
<1>6. CASE Ending
  BY <1>2, <1>6, KindsAre DEF Ending, Exiting, Complete, Numbered
<1> QED BY <1>3, <1>4, <1>5, <1>6 DEF SubsystemInv

\* The parts of TypeOK.
CtStates == [at : {"none", "wait", "zap", "push", "done", "killed"},
             sock : Sockets \cup {None}]
GlobalTyped ==
  /\ initialized \in {0, 1} /\ startups \in Nat /\ gen \in 0 .. Inits
  /\ field \in [Kinds -> 0 .. Inits] /\ alive \subseteq Kinds \X Gens
  /\ quit \subseteq Gens /\ inExit \in BOOLEAN
CtTyped == ct \in [Gens -> CtStates]
ThreadsTyped ==
  /\ known \subseteq Threads /\ ready \in [Threads -> 0 .. Inits]
  /\ at \in [Threads -> Places]
  /\ caller \in [Threads -> {"load", "loop", "open", "insert", "none"}]
  /\ arg \in [Threads -> Sockets \cup {None}] /\ mine \in [Threads -> 0 .. Inits]
SocketsTyped ==
  /\ sock \in [Sockets -> {"none", "open", "cut", "closed", "freed"}]
  /\ own \in [Sockets -> Threads \cup {None}]
  /\ home \in [Sockets -> Threads \cup {None}]
  /\ mem \in [Sockets -> 0 .. Inits]
ListsTyped ==
  /\ listed \in [Sockets -> Threads \cup {None}]
  /\ marked \in [Sockets -> BOOLEAN]
  /\ evq \in [Threads -> SUBSET Sockets]

LEMMA TypeParts ==
  TypeOK => /\ GlobalTyped /\ CtTyped /\ ThreadsTyped /\ SocketsTyped /\ ListsTyped
            /\ broken \in Faults \cup {"no"}
BY DEF TypeOK, GlobalTyped, CtTyped, ThreadsTyped, SocketsTyped, ListsTyped, CtStates

LEMMA TypeOfParts ==
  /\ GlobalTyped /\ CtTyped /\ ThreadsTyped /\ SocketsTyped /\ ListsTyped
  /\ broken \in Faults \cup {"no"}
  => TypeOK
BY DEF TypeOK, GlobalTyped, CtTyped, ThreadsTyped, SocketsTyped, ListsTyped, CtStates

\* A place is a place.
LEMMA GotoTyped ==
  ASSUME ThreadsTyped, NEW t \in Threads, NEW place \in Places, Goto(t, place)
  PROVE  at' \in [Threads -> Places]
BY DEF ThreadsTyped, Goto

LEMMA PlacesAre ==
  /\ {"exchange", "startup", "unload", "tsd", "new", "up", "loop", "leave", "fin",
      "dead", "post", "wait", "destroy"} \subseteq Places
  /\ Kinds \subseteq Places
BY DEF Places, Initialising, Exiting

LEMMA InitTyped == Init => TypeOK
<1> SUFFICES ASSUME Init PROVE TypeOK
  OBVIOUS
<1>0. 0 \in 0 .. Inits
  BY InitsAssumption
<1>1. GlobalTyped
  BY <1>0 DEF Init, GlobalTyped
<1>2. CtTyped
  BY DEF Init, CtTyped, CtStates
<1>3. ThreadsTyped
  BY <1>0, PlacesAre DEF Init, ThreadsTyped
<1>4. SocketsTyped /\ ListsTyped /\ broken \in Faults \cup {"no"}
  BY <1>0 DEF Init, SocketsTyped, ListsTyped
<1> QED BY <1>1, <1>2, <1>3, <1>4, TypeOfParts

LEMMA CallTyped ==
  ASSUME TypeOK, NEW t \in Threads, NEW who \in {"load", "loop", "open", "insert"},
         NEW s \in Sockets \cup {None}, Call(t, who, s), UNCHANGED <<known, ready, mine>>
  PROVE  ThreadsTyped'
<1>1. at' \in [Threads -> Places]
  BY TypeParts, GotoTyped, PlacesAre DEF Call
<1> QED BY <1>1, TypeParts DEF Call, ThreadsTyped

LEMMA ReturnTyped ==
  ASSUME TypeOK, NEW t \in Threads, NEW place \in Places, Return(t, place),
         known' \subseteq Threads, ready' \in [Threads -> 0 .. Inits]
  PROVE  ThreadsTyped'
<1>1. at' \in [Threads -> Places]
  BY TypeParts, GotoTyped DEF Return
<1>2. 0 \in 0 .. Inits
  BY InitsAssumption
<1> QED BY <1>1, <1>2, TypeParts DEF Return, ThreadsTyped

LEMMA StoreTyped ==
  ASSUME TypeOK, NEW t \in Threads, NEW tsd \in Threads \cup {None}, Store(t, tsd)
  PROVE  SocketsTyped'
<1>0. GlobalTyped /\ SocketsTyped
  BY TypeParts
<1>1. field["heap"] \in 0 .. Inits
  BY <1>0, KindsAre DEF GlobalTyped
<1>2. CASE caller[t] = "open"
  BY <1>0, <1>1, <1>2 DEF SocketsTyped, Store
<1>3. CASE caller[t] = "insert"
  BY <1>0, <1>3 DEF SocketsTyped, Store
<1>4. CASE caller[t] \notin {"open", "insert"}
  <2>1. UNCHANGED socket
    BY <1>4 DEF Store
  <2> QED BY <1>0, <2>1 DEF SocketsTyped, socket
<1> QED BY <1>2, <1>3, <1>4

LEMMA BreakTyped ==
  ASSUME TypeOK, NEW fault \in Faults, Break(fault)
  PROVE  TypeOK'
BY DEF TypeOK, Break, global, thread, socket, lists

LEMMA ListFaultIs == \A t \in Threads : ListFault(t) = "no" \/ ListFault(t) \in Faults
BY DEF ListFault, Faults

LEMMA InitSocketsTyped ==
  ASSUME TypeOK, Numbered, NEW t \in Threads, InitSockets(t)
  PROVE  TypeOK'
<1>0. /\ GlobalTyped /\ CtTyped /\ ThreadsTyped /\ SocketsTyped /\ ListsTyped
      /\ broken \in Faults \cup {"no"}
  BY TypeParts
<1>1. CASE Exchange(t)
  <2>1. GlobalTyped'
    BY <1>1, <1>0, InitsAssumption DEF Exchange, GlobalTyped
  <2>2. at' \in [Threads -> Places]
    BY <1>1, <1>0, PlacesAre DEF Exchange, Goto, ThreadsTyped
  <2>3. mine' \in [Threads -> 0 .. Inits]
    BY <1>1, <1>0, InitsAssumption DEF Exchange, ThreadsTyped, GlobalTyped
  <2>4. ThreadsTyped'
    BY <1>1, <1>0, <2>2, <2>3 DEF Exchange, ThreadsTyped
  <2>5. CtTyped' /\ SocketsTyped' /\ ListsTyped'
    BY <1>1, <1>0 DEF Exchange, socket, lists, CtTyped, SocketsTyped, ListsTyped
  <2>6. broken' \in Faults \cup {"no"}
    BY <1>1, <1>0 DEF Exchange
  <2> QED BY <2>1, <2>2, <2>3, <2>4, <2>5, <2>6
      DEF TypeOK, CtStates, GlobalTyped, CtTyped, ThreadsTyped, SocketsTyped, ListsTyped
<1>2. CASE Startup(t)
  <2>1. at' \in [Threads -> Places]
    BY <1>2, <1>0, PlacesAre, StagesAre, KindsAre DEF Startup, Goto, ThreadsTyped
  <2>2. ThreadsTyped'
    BY <1>2, <1>0, <2>1 DEF Startup, ThreadsTyped
  <2>3. GlobalTyped'
    BY <1>2, <1>0 DEF Startup, GlobalTyped
  <2>4. CtTyped' /\ SocketsTyped' /\ ListsTyped'
    BY <1>2, <1>0 DEF Startup, socket, lists, CtTyped, SocketsTyped, ListsTyped
  <2>5. broken' \in Faults \cup {"no"}
    BY <1>2, <1>0 DEF Startup
  <2> QED BY <2>1, <2>2, <2>3, <2>4, <2>5
      DEF TypeOK, CtStates, GlobalTyped, CtTyped, ThreadsTyped, SocketsTyped, ListsTyped
<1>3. CASE Unload(t)
  <2>1. CASE caller[t] = "loop" \/ (caller[t] = "open" /\ startups > 0)
    BY <1>3, <2>1, BreakTyped DEF Unload, Faults
  <2>2. CASE ~ (caller[t] = "loop" \/ (caller[t] = "open" /\ startups > 0))
    <3>0. /\ initialized' = 0
          /\ Return(t, IF caller[t] = "load" THEN "new" ELSE "up")
          /\ IF caller[t] = "insert" THEN Store(t, None) ELSE UNCHANGED socket
          /\ UNCHANGED <<startups, gen, field, alive, quit, inExit, ct, known, ready,
                           lists, broken>>
      BY <1>3, <2>2 DEF Unload
    <3>1. SocketsTyped'
      BY <3>0, <1>0, StoreTyped DEF socket, SocketsTyped
    <3>2. ThreadsTyped'
      BY <3>0, <1>0, ReturnTyped, PlacesAre DEF ThreadsTyped
    <3>3. GlobalTyped'
      BY <3>0, <1>0 DEF GlobalTyped
    <3>4. CtTyped' /\ ListsTyped'
      BY <3>0, <1>0 DEF lists, CtTyped, ListsTyped
    <3>5. broken' \in Faults \cup {"no"}
      BY <3>0, <1>0
    <3> QED BY <3>1, <3>2, <3>3, <3>4, <3>5
        DEF TypeOK, CtStates, GlobalTyped, CtTyped, ThreadsTyped, SocketsTyped, ListsTyped
  <2> QED BY <2>1, <2>2
<1>4. CASE TsdInit(t)
  <2>1. CASE t \notin known /\ Handle("heap") \notin alive
    BY <1>4, <2>1, BreakTyped DEF TsdInit, Faults
  <2>2. CASE ~ (t \notin known /\ Handle("heap") \notin alive)
    <3>0. /\ known' = known \cup {t}
          /\ ready' = IF t \in known THEN ready ELSE [ready EXCEPT ![t] = field["heap"]]
          /\ Return(t, IF caller[t] = "loop" THEN "loop" ELSE "up")
          /\ Store(t, t)
          /\ UNCHANGED <<global, ct, lists, broken>>
      BY <1>4, <2>2 DEF TsdInit
    <3>1. SocketsTyped'
      BY <3>0, <1>0, StoreTyped DEF SocketsTyped
    <3>2. ready' \in [Threads -> 0 .. Inits] /\ known' \subseteq Threads
      BY <3>0, <1>0, KindsAre DEF ThreadsTyped, GlobalTyped
    <3>3. ThreadsTyped'
      BY <3>0, <1>0, <3>2, ReturnTyped, PlacesAre DEF ThreadsTyped
    <3>4. GlobalTyped' /\ CtTyped' /\ ListsTyped'
      BY <3>0, <1>0 DEF global, lists, GlobalTyped, CtTyped, ListsTyped
    <3>5. broken' \in Faults \cup {"no"}
      BY <3>0, <1>0
    <3> QED BY <3>1, <3>2, <3>3, <3>4, <3>5
        DEF TypeOK, CtStates, GlobalTyped, CtTyped, ThreadsTyped, SocketsTyped, ListsTyped
  <2> QED BY <2>1, <2>2
<1>5. ASSUME NEW i \in DOMAIN Stages, Create(t, i)
      PROVE  TypeOK'
  <2>0. /\ Stages[i] \in Kinds /\ at[t] = Stages[i] /\ mine[t] \in Gens
        /\ Stages[i] # "thread" => Stages[i+1] \in Kinds
    BY <1>5, KindsAre, StagesAre DEF Create, In, Numbered
  <2>1. at' \in [Threads -> Places]
    BY <2>0, <1>5, <1>0, PlacesAre DEF Create, Goto, ThreadsTyped
  <2>2. ThreadsTyped'
    BY <2>0, <1>5, <1>0, <2>1 DEF Create, ThreadsTyped
  <2>3. CtTyped'
    BY <2>0, <1>5, <1>0 DEF Create, CtStates, CtTyped
  <2>4. GlobalTyped'
    BY <2>0, <1>5, <1>0 DEF Create, Gens, GlobalTyped
  <2>5. SocketsTyped' /\ ListsTyped'
    BY <2>0, <1>5, <1>0 DEF Create, socket, lists, SocketsTyped, ListsTyped
  <2>6. broken' \in Faults \cup {"no"}
    BY <2>0, <1>5, <1>0 DEF Create
  <2> QED BY <2>1, <2>2, <2>3, <2>4, <2>5, <2>6
      DEF TypeOK, CtStates, GlobalTyped, CtTyped, ThreadsTyped, SocketsTyped, ListsTyped
<1>6. ASSUME NEW i \in DOMAIN Stages, CreateFails(t, i)
      PROVE  TypeOK'
  <2>0. Stages[i] \in Kinds
    BY <1>6, KindsAre, StagesAre
  <2>1. at' \in [Threads -> Places]
    BY <2>0, <1>6, <1>0, PlacesAre DEF CreateFails, Goto, ThreadsTyped
  <2>2. ThreadsTyped'
    BY <2>0, <1>6, <1>0, <2>1 DEF CreateFails, ThreadsTyped
  <2>3. alive' \subseteq Kinds \X Gens
    BY <2>0, <1>6, <1>0 DEF CreateFails, GlobalTyped
  <2>4. field' \in [Kinds -> 0 .. Inits]
    BY <2>0, <1>6, <1>0, InitsAssumption DEF CreateFails, GlobalTyped
  <2>5. GlobalTyped'
    BY <2>0, <1>6, <1>0, <2>3, <2>4 DEF CreateFails, GlobalTyped
  <2>6. CtTyped' /\ SocketsTyped' /\ ListsTyped'
    BY <2>0, <1>6, <1>0 DEF CreateFails, socket, lists, CtTyped, SocketsTyped, ListsTyped
  <2>7. broken' \in Faults \cup {"no"}
    BY <2>0, <1>6, <1>0 DEF CreateFails
  <2> QED BY <2>1, <2>2, <2>3, <2>4, <2>5, <2>6, <2>7
      DEF TypeOK, CtStates, GlobalTyped, CtTyped, ThreadsTyped, SocketsTyped, ListsTyped
<1> QED BY <1>1, <1>2, <1>3, <1>4, <1>5, <1>6 DEF InitSockets

LEMMA ThreadTyped ==
  ASSUME TypeOK, NEW t \in Threads,
         Load(t) \/ EventLoop(t) \/ EventCheck(t) \/ Leave(t) \/ ThreadExit(t) \/ Die(t)
  PROVE  TypeOK'
<1>0. /\ GlobalTyped /\ CtTyped /\ ThreadsTyped /\ SocketsTyped /\ ListsTyped
      /\ broken \in Faults \cup {"no"}
  BY TypeParts
<1>1. CASE Load(t)
  <2>1. ThreadsTyped'
    BY <1>1, <1>0, CallTyped DEF Load, ThreadsTyped
  <2>2. GlobalTyped' /\ CtTyped' /\ SocketsTyped' /\ ListsTyped'
    BY <1>1, <1>0
       DEF Load, global, socket, lists, GlobalTyped, CtTyped, SocketsTyped, ListsTyped
  <2>3. broken' \in Faults \cup {"no"}
    BY <1>1, <1>0 DEF Load
  <2> QED BY <2>1, <2>2, <2>3
      DEF TypeOK, CtStates, GlobalTyped, CtTyped, ThreadsTyped, SocketsTyped, ListsTyped
<1>2. CASE EventLoop(t)
  <2>1. ThreadsTyped'
    BY <1>2, <1>0, CallTyped DEF EventLoop, ThreadsTyped
  <2>2. GlobalTyped' /\ CtTyped' /\ SocketsTyped' /\ ListsTyped'
    BY <1>2, <1>0
       DEF EventLoop, global, socket, lists, GlobalTyped, CtTyped, SocketsTyped,
           ListsTyped
  <2>3. broken' \in Faults \cup {"no"}
    BY <1>2, <1>0 DEF EventLoop
  <2> QED BY <2>1, <2>2, <2>3
      DEF TypeOK, CtStates, GlobalTyped, CtTyped, ThreadsTyped, SocketsTyped, ListsTyped
<1>3. CASE EventCheck(t)
  <2>1. CASE ready[t] # 0 /\ ListFault(t) # "no"
    BY <1>3, <2>1, BreakTyped, ListFaultIs DEF EventCheck
  <2>2. CASE ~ (ready[t] # 0 /\ ListFault(t) # "no")
    <3>1. at' \in [Threads -> Places]
      BY <1>3, <2>2, <1>0, PlacesAre DEF EventCheck, Goto, ThreadsTyped
    <3>2. ThreadsTyped'
      BY <1>3, <2>2, <1>0, <3>1 DEF EventCheck, ThreadsTyped
    <3>3. evq' \in [Threads -> SUBSET Sockets]
      BY <1>3, <2>2, <1>0 DEF EventCheck, ListsTyped
    <3>4. listed' \in [Sockets -> Threads \cup {None}]
      BY <1>3, <2>2, <1>0 DEF EventCheck, ListsTyped
    <3>5. marked' \in [Sockets -> BOOLEAN]
      BY <1>3, <2>2, <1>0 DEF EventCheck, ListsTyped
    <3>6. ListsTyped'
      BY <3>3, <3>4, <3>5 DEF ListsTyped
    <3>7. GlobalTyped' /\ CtTyped' /\ SocketsTyped'
      BY <1>3, <2>2, <1>0
         DEF EventCheck, global, socket, GlobalTyped, CtTyped, SocketsTyped
    <3>8. broken' \in Faults \cup {"no"}
      BY <1>3, <2>2, <1>0 DEF EventCheck
    <3> QED BY <3>1, <3>2, <3>3, <3>4, <3>5, <3>6, <3>7, <3>8
        DEF TypeOK, CtStates, GlobalTyped, CtTyped, ThreadsTyped, SocketsTyped, ListsTyped
  <2> QED BY <2>1, <2>2
<1>4. CASE Leave(t)
  <2>1. at' \in [Threads -> Places]
    BY <1>4, <1>0, PlacesAre DEF Leave, Goto, ThreadsTyped
  <2>2. ThreadsTyped'
    BY <1>4, <1>0, <2>1 DEF Leave, ThreadsTyped
  <2>3. GlobalTyped' /\ CtTyped' /\ SocketsTyped' /\ ListsTyped'
    BY <1>4, <1>0
       DEF Leave, global, socket, lists, GlobalTyped, CtTyped, SocketsTyped, ListsTyped
  <2>4. broken' \in Faults \cup {"no"}
    BY <1>4, <1>0 DEF Leave
  <2> QED BY <2>1, <2>2, <2>3, <2>4
      DEF TypeOK, CtStates, GlobalTyped, CtTyped, ThreadsTyped, SocketsTyped, ListsTyped
<1>5. CASE ThreadExit(t)
  <2>1. at' \in [Threads -> Places]
    BY <1>5, <1>0, PlacesAre DEF ThreadExit, Goto, ThreadsTyped
  <2>2. ready' \in [Threads -> 0 .. Inits]
    BY <1>5, <1>0, InitsAssumption DEF ThreadExit, ThreadsTyped
  <2>3. ThreadsTyped'
    BY <1>5, <1>0, <2>1, <2>2 DEF ThreadExit, ThreadsTyped
  <2>4. ListsTyped'
    BY <1>5, <1>0 DEF ThreadExit, ListsTyped
  <2>5. broken' \in Faults \cup {"no"}
    BY <1>5, <1>0, ListFaultIs DEF ThreadExit
  <2>6. GlobalTyped' /\ CtTyped' /\ SocketsTyped'
    BY <1>5, <1>0 DEF ThreadExit, global, socket, GlobalTyped, CtTyped, SocketsTyped
  <2> QED BY <2>1, <2>2, <2>3, <2>4, <2>5, <2>6
      DEF TypeOK, CtStates, GlobalTyped, CtTyped, ThreadsTyped, SocketsTyped, ListsTyped
<1>6. CASE Die(t)
  <2>1. at' \in [Threads -> Places]
    BY <1>6, <1>0, PlacesAre DEF Die, Goto, ThreadsTyped
  <2>2. ThreadsTyped'
    BY <1>6, <1>0, <2>1 DEF Die, ThreadsTyped
  <2>3. GlobalTyped' /\ CtTyped' /\ SocketsTyped' /\ ListsTyped'
    BY <1>6, <1>0
       DEF Die, global, socket, lists, GlobalTyped, CtTyped, SocketsTyped, ListsTyped
  <2>4. broken' \in Faults \cup {"no"}
    BY <1>6, <1>0 DEF Die
  <2> QED BY <2>1, <2>2, <2>3, <2>4
      DEF TypeOK, CtStates, GlobalTyped, CtTyped, ThreadsTyped, SocketsTyped, ListsTyped
<1> QED BY <1>1, <1>2, <1>3, <1>4, <1>5, <1>6

LEMMA SocketTyped ==
  ASSUME TypeOK, NEW t \in Threads, NEW s \in Sockets,
         Open(t, s) \/ Cut(t, s) \/ Splice(t, s) \/ Close(t, s) \/ EventProc(t, s)
  PROVE  TypeOK'
<1>0. /\ GlobalTyped /\ CtTyped /\ ThreadsTyped /\ SocketsTyped /\ ListsTyped
      /\ broken \in Faults \cup {"no"}
  BY TypeParts
<1>1. CASE Open(t, s)
  <2>1. ThreadsTyped'
    BY <1>1, <1>0, CallTyped DEF Open, ThreadsTyped
  <2>2. GlobalTyped' /\ CtTyped' /\ SocketsTyped' /\ ListsTyped'
    BY <1>1, <1>0
       DEF Open, global, socket, lists, GlobalTyped, CtTyped, SocketsTyped, ListsTyped
  <2>3. broken' \in Faults \cup {"no"}
    BY <1>1, <1>0 DEF Open
  <2> QED BY <2>1, <2>2, <2>3
      DEF TypeOK, CtStates, GlobalTyped, CtTyped, ThreadsTyped, SocketsTyped, ListsTyped
<1>2. CASE Cut(t, s)
  <2>1. SocketsTyped'
    BY <1>2, <1>0 DEF Cut, RemoveHome, SocketsTyped
  <2>2. GlobalTyped' /\ CtTyped' /\ ThreadsTyped' /\ ListsTyped'
    BY <1>2, <1>0
       DEF Cut, global, thread, lists, GlobalTyped, CtTyped, ThreadsTyped, ListsTyped
  <2>3. broken' \in Faults \cup {"no"}
    BY <1>2, <1>0 DEF Cut
  <2> QED BY <2>1, <2>2, <2>3
      DEF TypeOK, CtStates, GlobalTyped, CtTyped, ThreadsTyped, SocketsTyped, ListsTyped
<1>3. CASE Splice(t, s)
  <2>1. ThreadsTyped'
    BY <1>3, <1>0, CallTyped DEF Splice, ThreadsTyped
  <2>2. SocketsTyped'
    BY <1>3, <1>0 DEF Splice, SocketsTyped
  <2>3. GlobalTyped' /\ CtTyped' /\ ListsTyped'
    BY <1>3, <1>0 DEF Splice, global, lists, GlobalTyped, CtTyped, ListsTyped
  <2>4. broken' \in Faults \cup {"no"}
    BY <1>3, <1>0 DEF Splice
  <2> QED BY <2>1, <2>2, <2>3, <2>4
      DEF TypeOK, CtStates, GlobalTyped, CtTyped, ThreadsTyped, SocketsTyped, ListsTyped
<1>4. CASE Close(t, s)
  <2>1. CASE ~HeapOf(mem[s]) /\ (initialized = 1 \/ ~inExit)
    BY <1>4, <2>1, BreakTyped DEF Close, Closes, Faults
  <2>2. CASE ~ (~HeapOf(mem[s]) /\ (initialized = 1 \/ ~inExit))
    <3>0. /\ RemoveHome(s)
          /\ sock' = [sock EXCEPT ![s] = "closed"] /\ own' = [own EXCEPT ![s] = None]
          /\ IF initialized = 1
             THEN /\ listed' = [listed EXCEPT ![s] = None]
                  /\ marked' = [marked EXCEPT ![s] = TRUE]
                  /\ evq' = [evq EXCEPT ![t] = @ \ {s}]
             ELSE UNCHANGED lists
          /\ UNCHANGED <<global, ct, thread, mem, broken>>
      BY <1>4, <2>2 DEF Close, Closes
    <3>1. SocketsTyped'
      BY <3>0, <1>0 DEF RemoveHome, SocketsTyped
    <3>2. evq' \in [Threads -> SUBSET Sockets]
      BY <3>0, <1>0 DEF lists, ListsTyped
    <3>3. listed' \in [Sockets -> Threads \cup {None}]
      BY <3>0, <1>0 DEF lists, ListsTyped
    <3>4. marked' \in [Sockets -> BOOLEAN]
      BY <3>0, <1>0 DEF lists, ListsTyped
    <3>5. ListsTyped'
      BY <3>2, <3>3, <3>4 DEF ListsTyped
    <3>6. GlobalTyped' /\ CtTyped' /\ ThreadsTyped'
      BY <3>0, <1>0 DEF global, thread, GlobalTyped, CtTyped, ThreadsTyped
    <3>7. broken' \in Faults \cup {"no"}
      BY <3>0, <1>0
    <3> QED BY <3>1, <3>2, <3>3, <3>4, <3>5, <3>6, <3>7
        DEF TypeOK, CtStates, GlobalTyped, CtTyped, ThreadsTyped, SocketsTyped, ListsTyped
  <2> QED BY <2>1, <2>2
<1>5. CASE EventProc(t, s)
  <2>1. CASE sock[s] = "freed"
    BY <1>5, <2>1, BreakTyped DEF EventProc, Faults
  <2>2. CASE sock[s] # "freed"
    <3>1. ListsTyped'
      BY <1>5, <2>2, <1>0 DEF EventProc, ListsTyped
    <3>2. GlobalTyped' /\ CtTyped' /\ ThreadsTyped' /\ SocketsTyped'
      BY <1>5, <2>2, <1>0
         DEF EventProc, global, thread, socket, GlobalTyped, CtTyped, ThreadsTyped,
             SocketsTyped
    <3>3. broken' \in Faults \cup {"no"}
      BY <1>5, <2>2, <1>0 DEF EventProc
    <3> QED BY <3>1, <3>2, <3>3
        DEF TypeOK, CtStates, GlobalTyped, CtTyped, ThreadsTyped, SocketsTyped, ListsTyped
  <2> QED BY <2>1, <2>2
<1> QED BY <1>1, <1>2, <1>3, <1>4, <1>5

LEMMA ExitTyped ==
  ASSUME TypeOK, Numbered, ExitHandler
  PROVE  TypeOK'
<1>0. /\ GlobalTyped /\ CtTyped /\ ThreadsTyped /\ SocketsTyped /\ ListsTyped
      /\ broken \in Faults \cup {"no"}
  BY TypeParts
<1> Main \in Threads
  BY ThreadsAssumption
<1>1. CASE Exit
  <2>1. at' \in [Threads -> Places]
    BY <1>1, <1>0, PlacesAre DEF Exit, Goto, ThreadsTyped
  <2>2. ThreadsTyped'
    BY <1>1, <1>0, <2>1 DEF Exit, ThreadsTyped
  <2>3. GlobalTyped'
    BY <1>1, <1>0 DEF Exit, GlobalTyped
  <2>4. ListsTyped'
    BY <1>1, <1>0 DEF Exit, ListsTyped
  <2>5. CtTyped' /\ SocketsTyped'
    BY <1>1, <1>0 DEF Exit, socket, CtTyped, SocketsTyped
  <2>6. broken' \in Faults \cup {"no"}
    BY <1>1, <1>0 DEF Exit
  <2> QED BY <2>1, <2>2, <2>3, <2>4, <2>5, <2>6
      DEF TypeOK, CtStates, GlobalTyped, CtTyped, ThreadsTyped, SocketsTyped, ListsTyped
<1>2. CASE PostNull
  <2>1. at' \in [Threads -> Places]
    BY <1>2, <1>0, PlacesAre DEF PostNull, Goto, ThreadsTyped
  <2>2. ThreadsTyped'
    BY <1>2, <1>0, <2>1 DEF PostNull, ThreadsTyped
  <2>3. {field["port"]} \ {0} \subseteq Gens
    BY <1>2, <1>0, KindsAre, InitsAssumption DEF PostNull, Gens, GlobalTyped
  <2>4. GlobalTyped'
    BY <1>2, <1>0, <2>3 DEF PostNull, GlobalTyped
  <2>5. CtTyped' /\ SocketsTyped' /\ ListsTyped'
    BY <1>2, <1>0 DEF PostNull, socket, lists, CtTyped, SocketsTyped, ListsTyped
  <2>6. broken' \in Faults \cup {"no"}
    BY <1>2, <1>0 DEF PostNull
  <2> QED BY <2>1, <2>2, <2>3, <2>4, <2>5, <2>6
      DEF TypeOK, CtStates, GlobalTyped, CtTyped, ThreadsTyped, SocketsTyped, ListsTyped
<1>3. CASE WaitForThread
  <2>0. CtTyped'
    <3> DEFINE n == field["thread"]
    <3>1. CASE n \in Gens
      <4>1. ct[n] \in CtStates
        BY <1>0, <3>1 DEF CtTyped
      <4>2. PICK k \in CtStates : ct' = [ct EXCEPT ![n] = k]
        <5>1. [ct[n] EXCEPT !.at = "killed"] \in CtStates
          BY <4>1 DEF CtStates
        <5>2. [at |-> "killed", sock |-> None] \in CtStates
          BY DEF CtStates
        <5> QED BY <1>3, <4>1, <5>1, <5>2 DEF WaitForThread
      <4> QED BY <1>0, <4>2 DEF CtTyped
    <3>2. CASE n \notin Gens
      BY <1>0, <1>3, <3>2 DEF WaitForThread, CtTyped
    <3> QED BY <3>1, <3>2
  <2>1. at' \in [Threads -> Places]
    BY <1>3, <1>0, PlacesAre DEF WaitForThread, Goto, ThreadsTyped
  <2>2. ThreadsTyped'
    BY <1>3, <1>0, <2>1 DEF WaitForThread, ThreadsTyped
  <2>4. GlobalTyped' /\ SocketsTyped' /\ ListsTyped'
    BY <1>3, <1>0
       DEF WaitForThread, global, socket, lists, GlobalTyped, SocketsTyped, ListsTyped
  <2>5. broken' \in Faults \cup {"no"}
    BY <1>3, <1>0 DEF WaitForThread
  <2> QED BY <2>1, <2>2, <2>0, <2>4, <2>5
      DEF TypeOK, CtStates, GlobalTyped, CtTyped, ThreadsTyped, SocketsTyped, ListsTyped
<1>4. CASE Destroy
  <2>1. at' \in [Threads -> Places]
    BY <1>4, <1>0, PlacesAre DEF Destroy, Goto, ThreadsTyped
  <2>2. ThreadsTyped'
    BY <1>4, <1>0, <2>1 DEF Destroy, ThreadsTyped
  <2>3. GlobalTyped'
    BY <1>4, <1>0 DEF Destroy, Numbered, In, GlobalTyped
  <2>4. CtTyped' /\ SocketsTyped' /\ ListsTyped'
    BY <1>4, <1>0 DEF Destroy, socket, lists, CtTyped, SocketsTyped, ListsTyped
  <2>5. broken' \in Faults \cup {"no"}
    BY <1>4, <1>0 DEF Destroy
  <2> QED BY <2>1, <2>2, <2>3, <2>4, <2>5
      DEF TypeOK, CtStates, GlobalTyped, CtTyped, ThreadsTyped, SocketsTyped, ListsTyped
<1> QED BY <1>1, <1>2, <1>3, <1>4 DEF ExitHandler

LEMMA CtGotoTyped ==
  ASSUME TypeOK, NEW g \in Gens, NEW place \in {"wait", "zap", "push", "done"},
         NEW s \in Sockets \cup {None}, CtGoto(g, place, s)
  PROVE  CtTyped'
BY TypeParts DEF CtTyped, CtStates, CtGoto

LEMMA CompletionTyped ==
  ASSUME TypeOK, NEW g \in Gens,
         \/ ZapEnter(g) \/ ZapPush(g) \/ Quit(g)
         \/ \E s \in Sockets : Completion(g, s) \/ Free(g, s)
  PROVE  TypeOK'
<1>0. /\ GlobalTyped /\ CtTyped /\ ThreadsTyped /\ SocketsTyped /\ ListsTyped
      /\ broken \in Faults \cup {"no"}
  BY TypeParts
<1> /\ ct[g].sock \in Sockets \cup {None}
    /\ ct[g].sock \in Sockets => home[ct[g].sock] \in Threads \cup {None}
  BY <1>0 DEF CtTyped, CtStates, SocketsTyped
<1>1. CASE ZapPush(g)
  <2>1. CtTyped'
    BY <1>1, <1>0, CtGotoTyped DEF ZapPush, CtTyped
  <2>2. ListsTyped'
    BY <1>1, <1>0 DEF ZapPush, SocketsTyped, ListsTyped
  <2>3. GlobalTyped' /\ ThreadsTyped' /\ SocketsTyped'
    BY <1>1, <1>0
       DEF ZapPush, global, thread, socket, GlobalTyped, ThreadsTyped, SocketsTyped
  <2>4. broken' \in Faults \cup {"no"}
    BY <1>1, <1>0 DEF ZapPush
  <2> QED BY <2>1, <2>2, <2>3, <2>4
      DEF TypeOK, CtStates, GlobalTyped, CtTyped, ThreadsTyped, SocketsTyped, ListsTyped
<1>2. CASE Quit(g)
  <2>1. CtTyped'
    BY <1>2, <1>0, CtGotoTyped DEF Quit, CtTyped
  <2>2. GlobalTyped' /\ ThreadsTyped' /\ SocketsTyped' /\ ListsTyped'
    BY <1>2, <1>0
       DEF Quit, global, thread, socket, lists, GlobalTyped, ThreadsTyped, SocketsTyped,
           ListsTyped
  <2>3. broken' \in Faults \cup {"no"}
    BY <1>2, <1>0 DEF Quit
  <2> QED BY <2>1, <2>2, <2>3
      DEF TypeOK, CtStates, GlobalTyped, CtTyped, ThreadsTyped, SocketsTyped, ListsTyped
<1>3. CASE ZapEnter(g)
  <2>1. CASE ListFault(home[ct[g].sock]) # "no" /\ home[ct[g].sock] # None
    <3>1. \A f \in Faults : Break(f) => TypeOK'
      BY BreakTyped
    <3>2. \A x : ListFault(x) = "no" \/ ListFault(x) \in Faults
      BY DEF ListFault, Faults
    <3> QED BY <1>3, <2>1, <3>1, <3>2 DEF ZapEnter
  <2>2. CASE ~ (ListFault(home[ct[g].sock]) # "no" /\ home[ct[g].sock] # None)
    <3>0. /\ CtGoto(g, "wait", None) \/ CtGoto(g, "push", ct[g].sock)
          /\ UNCHANGED <<global, thread, socket, lists, broken>>
      BY <1>3, <2>2 DEF ZapEnter
    <3>1. CtTyped'
      BY <3>0, <1>0, CtGotoTyped DEF CtTyped
    <3>2. GlobalTyped' /\ ThreadsTyped' /\ SocketsTyped' /\ ListsTyped'
      BY <3>0, <1>0
         DEF global, thread, socket, lists, GlobalTyped, ThreadsTyped, SocketsTyped,
             ListsTyped
    <3>3. broken' \in Faults \cup {"no"}
      BY <3>0, <1>0
    <3> QED BY <3>1, <3>2, <3>3
        DEF TypeOK, CtStates, GlobalTyped, CtTyped, ThreadsTyped, SocketsTyped, ListsTyped
  <2> QED BY <2>1, <2>2
<1>4. ASSUME NEW s \in Sockets, Completion(g, s)
      PROVE  TypeOK'
  <2>1. CASE <<"port", g>> \notin alive
    BY <1>4, <2>1, BreakTyped DEF Completion, Faults
  <2>2. CASE <<"port", g>> \in alive
    <3>1. CtTyped'
      BY <1>4, <2>2, <1>0, CtGotoTyped DEF Completion, CtTyped
    <3>2. GlobalTyped' /\ ThreadsTyped' /\ SocketsTyped' /\ ListsTyped'
      BY <1>4, <2>2, <1>0
         DEF Completion, global, thread, socket, lists, GlobalTyped, ThreadsTyped,
             SocketsTyped, ListsTyped
    <3>3. broken' \in Faults \cup {"no"}
      BY <1>4, <2>2, <1>0 DEF Completion
    <3> QED BY <3>1, <3>2, <3>3
        DEF TypeOK, CtStates, GlobalTyped, CtTyped, ThreadsTyped, SocketsTyped, ListsTyped
  <2> QED BY <2>1, <2>2
<1>5. ASSUME NEW s \in Sockets, Free(g, s)
      PROVE  TypeOK'
  <2>1. SocketsTyped'
    BY <1>5, <1>0 DEF Free, SocketsTyped
  <2>2. GlobalTyped' /\ CtTyped' /\ ThreadsTyped' /\ ListsTyped'
    BY <1>5, <1>0
       DEF Free, global, thread, lists, GlobalTyped, CtTyped, ThreadsTyped, ListsTyped
  <2>3. broken' \in Faults \cup {"no"}
    BY <1>5, <1>0 DEF Free
  <2> QED BY <2>1, <2>2, <2>3
      DEF TypeOK, CtStates, GlobalTyped, CtTyped, ThreadsTyped, SocketsTyped, ListsTyped
<1> QED BY <1>1, <1>2, <1>3, <1>4, <1>5

LEMMA TypeStep ==
  ASSUME SubsystemInv, [Next]_vars
  PROVE  TypeOK'
<1>1. TypeOK /\ Numbered
  BY PhasesAreNumbered DEF SubsystemInv
<1>2. CASE UNCHANGED vars
  BY <1>1, <1>2 DEF TypeOK, vars, global, thread, socket, lists
<1>3. CASE Next
  BY <1>1, <1>3, InitSocketsTyped, ThreadTyped, SocketTyped, ExitTyped, CompletionTyped
     DEF Next
<1> QED BY <1>2, <1>3

-----------------------------------------------------------------------------
(* Before it starts                                                         *)

LEMMA UntouchedKept ==
  ASSUME Untouched, UNCHANGED <<inExit, known, ready, sock, own, home, listed, ct>>
  PROVE  Untouched'
BY DEF Untouched

LEMMA OnlyOneLoads ==
  ASSUME OnlyMoves, NEW t \in Threads, Load(t)
  PROVE  at[t] = "new" /\ ~inExit /\ \A u \in Threads : at[u] \notin Initialising
BY DEF OnlyMoves, Load, In

\* A completion thread that there is not does nothing.
LEMMA NoThreadNoStep ==
  ASSUME NEW g \in Gens, ct[g].at \notin {"wait", "zap", "push"}
  PROVE  /\ ~ZapEnter(g) /\ ~ZapPush(g) /\ ~Quit(g)
         /\ \A s \in Sockets : ~Completion(g, s) /\ ~Free(g, s)
BY DEF ZapEnter, ZapPush, Quit, Completion, Free, Ct

\* A thread acts where it is.
LEMMA StepIsSomewhere ==
  ASSUME NEW t \in Threads
  PROVE  /\ Load(t) => at[t] = "new"
         /\ Exchange(t) => at[t] = "exchange"
         /\ Startup(t) => at[t] = "startup"
         /\ Unload(t) => at[t] = "unload"
         /\ TsdInit(t) => at[t] = "tsd"
         /\ \A i \in DOMAIN Stages : Create(t, i) \/ CreateFails(t, i) => at[t] = Stages[i]
         /\ EventLoop(t) \/ Leave(t) => at[t] = "up"
         /\ EventCheck(t) => at[t] = "loop"
         /\ ThreadExit(t) => at[t] = "leave"
         /\ Die(t) => at[t] = "fin"
         /\ \A s \in Sockets :
              /\ Open(t, s) \/ Cut(t, s) \/ Splice(t, s) \/ EventProc(t, s) => at[t] = "up"
              /\ Close(t, s) => at[t] \in {"up", "fin"}
BY DEF Load, Exchange, Startup, Unload, TsdInit, Create, CreateFails, EventLoop, Leave,
       EventCheck, ThreadExit, Die, Open, Cut, Splice, EventProc, Close, In

LEMMA ExitIsSomewhere ==
  /\ Exit => at[Main] = "up"
  /\ PostNull => at[Main] = "post"
  /\ WaitForThread => at[Main] = "wait"
  /\ Destroy => at[Main] = "destroy"
BY DEF Exit, PostNull, WaitForThread, Destroy, In

LEMMA IdleStep ==
  ASSUME TypeOK, OnlyMoves, Idle, Next
  PROVE  broken' = broken /\ (Idle' \/ Starting')
<1>0. /\ Untouched /\ initialized = 0 /\ alive = {} /\ Main \in Threads
      /\ at \in [Threads -> Places] /\ gen \in Nat
      /\ mine \in [Threads -> 0 .. Inits]
      /\ caller \in [Threads -> {"load", "loop", "open", "insert", "none"}]
      /\ \A u \in Threads : at[u] = "new" \/ (at[u] = "exchange" /\ caller[u] = "load")
      /\ \A u, v \in Threads : at[u] = "exchange" /\ at[v] = "exchange" => u = v
  BY ThreadsAssumption, InitsAssumption DEF Idle, TypeOK
<1>1. ASSUME NEW t \in Threads, Load(t)
      PROVE  broken' = broken /\ Idle'
  <2>1. /\ at[t] = "new" /\ \A u \in Threads : at[u] = "new"
        /\ at' = [at EXCEPT ![t] = "exchange"] /\ caller' = [caller EXCEPT ![t] = "load"]
        /\ initialized' = 0 /\ alive' = {} /\ broken' = broken
    BY <1>0, <1>1, OnlyOneLoads DEF Load, Call, Goto, Initialising, global
  <2>2. Untouched'
    BY <1>0, <1>1, UntouchedKept DEF Load, global, socket, lists
  <2>3. \A u \in Threads : \/ at'[u] = "new" /\ u # t
                           \/ at'[u] = "exchange" /\ caller'[u] = "load" /\ u = t
    BY <1>0, <2>1
  <2> QED BY <2>1, <2>2, <2>3 DEF Idle
<1>2. ASSUME NEW t \in Threads, InitSockets(t)
      PROVE  broken' = broken /\ Starting'
  <2>1. at[t] = "exchange" /\ caller[t] = "load" /\ Exchange(t)
    BY <1>0, <1>2, StepIsSomewhere, KindsAre, StagesAre DEF InitSockets
  <2>2. /\ gen' = gen + 1 /\ mine' = [mine EXCEPT ![t] = gen + 1]
        /\ at' = [at EXCEPT ![t] = "startup"] /\ initialized' = 1
        /\ alive' = {} /\ caller' = caller /\ broken' = broken
    BY <1>0, <2>1 DEF Exchange, Goto
  <2>3. Untouched'
    BY <1>0, <2>1, UntouchedKept DEF Exchange, socket, lists
  <2>4. \A u \in Threads : u # t => at'[u] = "new"
    BY <1>0, <2>1, <2>2
  <2>5. at'[t] = "startup" /\ mine'[t] = gen' /\ gen' > 0
    BY <1>0, <2>2
  <2>6. MadeBefore(at'[t]) = {}
    BY <2>5 DEF MadeBefore
  <2>7. StartedBy(t)'
    BY <2>1, <2>2, <2>4, <2>5, <2>6, KindsAre DEF StartedBy
  <2> QED BY <2>2, <2>3, <2>5, <2>7 DEF Starting
<1>3. ASSUME NEW t \in Threads PROVE ~ (at[t] \in {"loop", "up", "leave", "fin"})
  BY <1>0
<1>4. ~ExitHandler
  BY <1>0, ExitIsSomewhere DEF ExitHandler
<1>5. \A g \in Gens : ct[g].at = "none"
  BY <1>0 DEF Untouched
<1> QED BY <1>1, <1>2, <1>3, <1>4, <1>5, StepIsSomewhere, NoThreadNoStep DEF Next

-----------------------------------------------------------------------------
(* While it starts                                                          *)

LEMMA StartingFacts ==
  ASSUME TypeOK, Starting, NEW t \in Threads, StartedBy(t)
  PROVE  /\ Untouched /\ initialized = 1 /\ gen \in Nat /\ gen > 0 /\ gen \in Gens
         /\ at \in [Threads -> Places] /\ startups \in Nat
         /\ field \in [Kinds -> 0 .. Inits] /\ mine[t] = gen /\ caller[t] = "load"
         /\ caller \in [Threads -> {"load", "loop", "open", "insert", "none"}]
         /\ ct \in [Gens -> CtStates]
         /\ at[t] \in {"startup", "unload"} \cup Kinds
         /\ \A u \in Threads : u # t => at[u] = "new"
BY InitsAssumption DEF TypeOK, Starting, StartedBy, Gens, CtStates

LEMMA StartupStep ==
  ASSUME TypeOK, Starting, NEW t \in Threads, StartedBy(t), Startup(t)
  PROVE  broken' = broken /\ Starting'
<1>1. /\ at[t] = "startup" /\ initialized' = 1 /\ gen' = gen /\ alive' = alive
      /\ field' = field /\ caller' = caller /\ mine' = mine /\ broken' = broken
      /\ UNCHANGED <<inExit, known, ready, sock, own, home, listed, ct>>
  BY StartingFacts, StepIsSomewhere DEF Startup, socket, lists
<1>2. \/ at' = [at EXCEPT ![t] = "port"] /\ startups' = startups + 1
      \/ at' = [at EXCEPT ![t] = "unload"]
  BY StagesAre DEF Startup, Goto
<1>3. /\ (at'[t] = "port" /\ startups' = startups + 1) \/ at'[t] = "unload"
      /\ \A u \in Threads : u # t => at'[u] = "new"
  BY <1>2, StartingFacts
<1>4. MadeBefore(at[t]) = {} /\ MadeBefore(at'[t]) = {}
  BY <1>1, <1>3 DEF MadeBefore
<1>5. startups' > 0 \/ at'[t] = "unload"
  BY <1>3, StartingFacts
<1>6. alive' = MadeBefore(at'[t]) \X {gen'}
  BY <1>1, <1>4 DEF StartedBy
<1>7. StartedBy(t)'
  BY <1>1, <1>3, <1>4, <1>5, <1>6, StartingFacts, KindsAre DEF StartedBy
<1> QED BY <1>1, <1>7, StartingFacts, UntouchedKept DEF Starting

\* The stages in their order.
LEMMA StagesMake ==
  ASSUME NEW i \in DOMAIN Stages
  PROVE  /\ Stages[i] \in Kinds
         /\ Stages[i] = "thread" => MadeBefore(Stages[i]) \cup {Stages[i]} = Kinds
         /\ Stages[i] # "thread" =>
              /\ Stages[i+1] \in Kinds
              /\ MadeBefore(Stages[i+1]) = MadeBefore(Stages[i]) \cup {Stages[i]}
         /\ MadeBefore(Stages[i]) = {Stages[j] : j \in 1 .. i-1}
         /\ Stages[i] \notin MadeBefore(Stages[i])
<1>1. CASE i = 1
  BY <1>1, StagesAre, KindsAre DEF MadeBefore
<1>2. CASE i = 2
  <2>1. 1 .. i-1 = {1}
    BY <1>2
  <2> QED BY <1>2, <2>1, StagesAre, KindsAre DEF MadeBefore
<1>3. CASE i = 3
  <2>1. 1 .. i-1 = {1, 2}
    BY <1>3
  <2> QED BY <1>3, <2>1, StagesAre, KindsAre DEF MadeBefore
<1>4. CASE i = 4
  <2>1. 1 .. i-1 = {1, 2, 3}
    BY <1>4
  <2> QED BY <1>4, <2>1, StagesAre, KindsAre DEF MadeBefore
<1> QED BY <1>1, <1>2, <1>3, <1>4, StagesAre

LEMMA CreateStep ==
  ASSUME TypeOK, Starting, NEW t \in Threads, StartedBy(t),
         NEW i \in DOMAIN Stages, Create(t, i)
  PROVE  broken' = broken /\ (Starting' \/ Running')
<1> DEFINE k == Stages[i]
           made == MadeBefore(k)
<1>1. /\ at[t] = k /\ k \in Kinds
      /\ alive' = alive \cup {<<k, gen>>} /\ field' = [field EXCEPT ![k] = gen]
      /\ initialized' = 1 /\ gen' = gen /\ startups' = startups /\ startups > 0
      /\ caller' = caller /\ mine' = mine /\ broken' = broken /\ inExit' = inExit
      /\ UNCHANGED <<known, ready, arg, own, home, sock, mem, listed>>
  BY StartingFacts, StepIsSomewhere, StagesMake DEF Create, StartedBy, socket, lists
<1>2. alive' = (made \cup {k}) \X {gen'} /\ \A j \in made \cup {k} : field'[j] = gen'
  <2>1. made \subseteq Kinds /\ alive = made \X {gen} /\ \A j \in made : field[j] = gen
    BY <1>1, KindsAre DEF StartedBy, MadeBefore
  <2> QED BY <1>1, <2>1, StartingFacts
<1>3. CASE k # "thread"
  <2>1. /\ at' = [at EXCEPT ![t] = Stages[i+1]] /\ ct' = ct
        /\ Stages[i+1] \in Kinds /\ MadeBefore(Stages[i+1]) = made \cup {k}
    BY <1>3, StagesMake DEF Create, Goto
  <2>2. at'[t] = Stages[i+1] /\ \A u \in Threads : u # t => at'[u] = "new"
    BY <2>1, StartingFacts
  <2>3. StartedBy(t)'
    BY <1>1, <1>2, <2>1, <2>2, StartingFacts DEF StartedBy
  <2> QED BY <1>1, <2>1, <2>3, StartingFacts, UntouchedKept DEF Starting
<1>4. CASE k = "thread"
  <2>1. /\ at' = [at EXCEPT ![t] = "tsd"] /\ ct' = [ct EXCEPT ![gen].at = "wait"]
        /\ made \cup {k} = Kinds
    BY <1>4, StartingFacts, StagesMake DEF Create, Goto
  <2>2. at'[t] = "tsd" /\ \A u \in Threads : u # t => at'[u] = "new"
    BY <2>1, StartingFacts
  <2>3. Complete'
    BY <1>1, <1>2, <2>1, StartingFacts DEF Complete
  <2>4. ct'[gen].at = "wait" /\ \A g \in Gens : g # gen => ct'[g].at = "none"
    BY <2>1, StartingFacts DEF Untouched, CtStates
  <2>5. OneThread({"wait", "zap", "push", "done"})'
    BY <1>1, <2>4 DEF OneThread
  <2>6. ASSUME NEW u \in Threads PROVE ThreadOK(u)'
    BY <1>1, <2>2, StartingFacts DEF Untouched, ThreadOK, HasList
  <2>7. ASSUME NEW s \in Sockets PROVE SocketOK(s)'
    <3>1. sock[s] \notin {"open", "cut"}
      BY DEF Starting, Untouched
    <3> QED BY <1>1, <3>1, StartingFacts DEF Untouched, SocketOK
  <2> QED BY <1>1, <2>3, <2>5, <2>6, <2>7, StartingFacts DEF Running, Untouched
<1> QED BY <1>3, <1>4

LEMMA CreateFailsStep ==
  ASSUME TypeOK, Starting, NEW t \in Threads, StartedBy(t),
         NEW i \in DOMAIN Stages, CreateFails(t, i)
  PROVE  broken' = broken /\ Starting'
<1> DEFINE k == Stages[i]
<1>1. /\ at[t] = k /\ k \in Kinds
      /\ initialized' = 1 /\ gen' = gen /\ caller' = caller /\ mine' = mine
      /\ at' = [at EXCEPT ![t] = "unload"] /\ broken' = broken
      /\ UNCHANGED <<inExit, known, ready, sock, own, home, listed, ct>>
  BY StartingFacts, StepIsSomewhere, StagesMake DEF CreateFails, Goto, socket, lists
<1>2. /\ alive = {Stages[j] : j \in 1 .. i-1} \X {gen}
      /\ \A j \in 1 .. i-1 : field[Stages[j]] = gen
  BY <1>1, StagesMake DEF StartedBy
<1>3. alive' = {}
  <2>1. alive' = alive \ {Handle(Stages[j]) : j \in 1 .. i-1}
    BY DEF CreateFails
  <2> QED BY <1>2, <2>1 DEF Handle
<1>4. at'[t] = "unload" /\ \A u \in Threads : u # t => at'[u] = "new"
  BY <1>1, StartingFacts
<1>5. MadeBefore(at'[t]) = {} /\ at'[t] \notin Kinds
  BY <1>4, KindsAre DEF MadeBefore
<1>6. alive' = MadeBefore(at'[t]) \X {gen'}
  BY <1>3, <1>5
<1>7. StartedBy(t)'
  BY <1>1, <1>4, <1>5, <1>6, StartingFacts DEF StartedBy
<1> QED BY <1>1, <1>7, StartingFacts, UntouchedKept DEF Starting

LEMMA UnloadStep ==
  ASSUME TypeOK, Starting, NEW t \in Threads, StartedBy(t), Unload(t)
  PROVE  broken' = broken /\ Idle'
<1>1. /\ at[t] = "unload" /\ initialized' = 0 /\ alive' = alive /\ broken' = broken
      /\ at' = [at EXCEPT ![t] = "new"]
      /\ UNCHANGED <<inExit, known, ready, sock, own, home, listed, ct>>
  BY StartingFacts, StepIsSomewhere DEF Unload, Return, Goto, socket, lists
<1>2. alive = {}
  BY <1>1 DEF StartedBy, MadeBefore
<1>3. \A u \in Threads : at'[u] = "new"
  BY <1>1, StartingFacts
<1> QED BY <1>1, <1>2, <1>3, StartingFacts, UntouchedKept DEF Idle

LEMMA StartingStep ==
  ASSUME TypeOK, OnlyMoves, Starting, Next
  PROVE  broken' = broken /\ (Idle' \/ Starting' \/ Running')
<1>1. PICK t \in Threads : StartedBy(t)
  BY DEF Starting
<1>2. /\ at[t] \in {"startup", "unload"} \cup Kinds /\ Main \in Threads
      /\ \A u \in Threads : u # t => at[u] = "new"
  BY <1>1, StartingFacts, ThreadsAssumption
<1>3. \A u \in Threads : ~Load(u)
  BY <1>2, OnlyOneLoads DEF Initialising
<1>4. \A u \in Threads : at[u] \notin {"exchange", "tsd", "up", "loop", "leave", "fin"}
  BY <1>2, KindsAre
<1>5. ASSUME NEW u \in Threads, InitSockets(u)
      PROVE  broken' = broken /\ (Idle' \/ Starting' \/ Running')
  <2>1. \A i \in DOMAIN Stages : Stages[i] # "new"
    BY StagesMake, KindsAre
  <2>2. u = t
    BY <1>2, <1>5, <2>1, StepIsSomewhere DEF InitSockets
  <2>3. \/ Startup(t) \/ Unload(t)
        \/ \E i \in DOMAIN Stages : Create(t, i) \/ CreateFails(t, i)
    BY <1>4, <1>5, <2>2, StepIsSomewhere DEF InitSockets
  <2> QED BY <1>1, <2>3, StartupStep, UnloadStep, CreateStep, CreateFailsStep
<1>6. ~ExitHandler
  <2>1. at[Main] \notin {"up", "post", "wait", "destroy"}
    BY <1>2, KindsAre
  <2> QED BY <2>1, ExitIsSomewhere DEF ExitHandler
<1>7. \A g \in Gens : ct[g].at = "none"
  BY DEF Starting, Untouched
<1> QED BY <1>3, <1>4, <1>5, <1>6, <1>7, StepIsSomewhere, NoThreadNoStep DEF Next

-----------------------------------------------------------------------------
(* While it runs                                                            *)

LEMMA RunningFacts ==
  ASSUME TypeOK, Running
  PROVE  /\ initialized = 1 /\ ~inExit /\ gen \in Gens /\ gen # 0 /\ field["heap"] = gen
         /\ at \in [Threads -> Places] /\ ready \in [Threads -> 0 .. Inits]
         /\ caller \in [Threads -> {"load", "loop", "open", "insert", "none"}]
         /\ arg \in [Threads -> Sockets \cup {None}] /\ known \subseteq Threads
         /\ sock \in [Sockets -> {"none", "open", "cut", "closed", "freed"}]
         /\ own \in [Sockets -> Threads \cup {None}]
         /\ home \in [Sockets -> Threads \cup {None}]
         /\ mem \in [Sockets -> 0 .. Inits] /\ ct \in [Gens -> CtStates]
         /\ listed \in [Sockets -> Threads \cup {None}]
         /\ marked \in [Sockets -> BOOLEAN]
         /\ Main \in Threads /\ None \notin Threads /\ None \notin Sockets
BY InitsAssumption, ThreadsAssumption, KindsAre
   DEF TypeOK, Running, Complete, Gens, CtStates

\* The heaps and the port are there, and the lists of threads are.
LEMMA RunningLists ==
  ASSUME TypeOK, Running
  PROVE  /\ HeapOf(gen) /\ <<"port", gen>> \in alive /\ Handle("heap") \in alive
         /\ \A t \in Threads : HasList(t) => ListFault(t) = "no"
<1>1. HeapOf(gen) /\ <<"port", gen>> \in alive /\ Handle("heap") \in alive
  BY KindsAre, RunningFacts DEF Running, Complete, HeapOf, Handle
<1>2. ASSUME NEW t \in Threads, HasList(t)
      PROVE  ListFault(t) = "no"
  <2>1. ready[t] = gen /\ gen # 0
    BY <1>2, RunningFacts DEF Running, ThreadOK
  <2>2. ~ListHeld(t)
    BY DEF ListHeld, Running, OneThread
  <2> QED BY <1>1, <2>1, <2>2 DEF ListFault
<1> QED BY <1>1, <1>2

\* Who owns or hears of a socket has a list.
LEMMA OwnersHaveLists ==
  ASSUME TypeOK, Running, NEW s \in Sockets
  PROVE  /\ own[s] # None => own[s] \in Threads /\ HasList(own[s])
         /\ home[s] # None => home[s] \in Threads /\ HasList(home[s])
BY RunningFacts DEF Running, SocketOK, HasList

LEMMA OnlyItsThread ==
  ASSUME TypeOK, Running, NEW g \in Gens, ct[g].at \in {"wait", "zap", "push"}
  PROVE  g = gen
BY DEF Running, OneThread

\* What most steps leave alone.
LEMMA GlobalKept ==
  ASSUME Running, UNCHANGED global
  PROVE  initialized' = 1 /\ ~inExit' /\ gen' = gen /\ Complete'
BY DEF Running, Complete, global

LEMMA ThreadKept ==
  ASSUME OneThread({"wait", "zap", "push", "done"}), UNCHANGED <<gen, ct>>,
         ct[gen].at = "push" => home'[ct[gen].sock] # None
  PROVE  OneThread({"wait", "zap", "push", "done"})'
BY DEF OneThread

\* A thread goes to a place where it may own sockets and have a list.
LEMMA SocketsKept ==
  ASSUME TypeOK, Running, NEW t \in Threads,
         NEW place \in {"exchange", "tsd", "up", "loop"},
         at[t] \in {"new", "exchange", "tsd", "up", "loop"}, Goto(t, place),
         UNCHANGED <<gen, known, socket, listed, marked>>
  PROVE  \A s \in Sockets : SocketOK(s)'
<1> SUFFICES ASSUME NEW s \in Sockets PROVE SocketOK(s)'
  OBVIOUS
<1>1. \A u \in Threads : u # t => at'[u] = at[u]
  BY RunningFacts DEF Goto
<1>2. at'[t] = place
  BY RunningFacts DEF Goto
<1>3. SocketOK(s)
  BY DEF Running
<1>4. own[s] # None => own[s] \in Threads
  BY RunningFacts
<1>5. listed[s] # None => listed[s] \in Threads
  BY RunningFacts
<1> QED BY <1>1, <1>2, <1>3, <1>4, <1>5 DEF SocketOK, HasList, socket

LEMMA RunLoad ==
  ASSUME TypeOK, OnlyMoves, Running, NEW t \in Threads, Load(t)
  PROVE  broken' = broken /\ Running'
<1>1. /\ at[t] = "new" /\ at' = [at EXCEPT ![t] = "exchange"]
      /\ caller' = [caller EXCEPT ![t] = "load"] /\ arg' = [arg EXCEPT ![t] = None]
      /\ UNCHANGED <<global, ct, known, ready, socket, lists, broken>>
  BY StepIsSomewhere DEF Load, Call, Goto
<1>2. \A s \in Sockets : SocketOK(s)'
  BY <1>1, SocketsKept DEF Goto, global, lists
<1>3. ASSUME NEW u \in Threads PROVE ThreadOK(u)'
  <2>1. ThreadOK(u) /\ t \notin known
    BY <1>1 DEF Running, ThreadOK
  <2> QED BY <1>1, <2>1, RunningFacts DEF ThreadOK, HasList, global, socket
<1>4. OneThread({"wait", "zap", "push", "done"})'
  BY <1>1, ThreadKept DEF Running, OneThread, global, socket
<1> QED BY <1>1, <1>2, <1>3, <1>4, GlobalKept DEF Running

LEMMA RunExchange ==
  ASSUME TypeOK, Running, NEW t \in Threads, Exchange(t)
  PROVE  broken' = broken /\ Running'
<1>1. /\ at[t] = "exchange" /\ at' = [at EXCEPT ![t] = "tsd"] /\ initialized' = 1
      /\ UNCHANGED <<global, caller, arg, ct, known, ready, socket, lists, broken>>
  BY StepIsSomewhere, RunningFacts DEF Exchange, Goto, global
<1>2. \A s \in Sockets : SocketOK(s)'
  BY <1>1, SocketsKept DEF Goto, global, lists
<1>3. ASSUME NEW u \in Threads PROVE ThreadOK(u)'
  <2>1. ThreadOK(u)
    BY DEF Running
  <2> QED BY <1>1, <2>1, RunningFacts DEF ThreadOK, HasList, global, socket
<1>4. OneThread({"wait", "zap", "push", "done"})'
  BY <1>1, ThreadKept DEF Running, OneThread, global, socket
<1> QED BY <1>1, <1>2, <1>3, <1>4, GlobalKept DEF Running

LEMMA RunTsdInit ==
  ASSUME TypeOK, Running, NEW t \in Threads, TsdInit(t)
  PROVE  broken' = broken /\ Running'
<1>1. /\ at[t] = "tsd" /\ known' = known \cup {t}
      /\ ready' = IF t \in known THEN ready ELSE [ready EXCEPT ![t] = gen]
      /\ at' = [at EXCEPT ![t] = IF caller[t] = "loop" THEN "loop" ELSE "up"]
      /\ caller' = [caller EXCEPT ![t] = "none"] /\ arg' = [arg EXCEPT ![t] = None]
      /\ Store(t, t)
      /\ UNCHANGED <<global, ct, lists, broken>>
  BY StepIsSomewhere, RunningFacts, RunningLists DEF TsdInit, Return, Goto
<1>2. /\ gen' = gen /\ at'[t] \in {"loop", "up"}
      /\ \A u \in Threads : u # t => at'[u] = at[u] /\ ready'[u] = ready[u]
                                     /\ caller'[u] = caller[u] /\ arg'[u] = arg[u]
  BY <1>1, RunningFacts DEF global
<1>3. /\ ThreadOK(t) /\ ready'[t] = gen
      /\ caller[t] \in {"open", "insert"} => arg[t] \in Sockets
      /\ caller[t] = "insert" => mem[arg[t]] = gen
  BY <1>1, RunningFacts DEF Running, ThreadOK, HasList
<1>4. \A s \in Sockets :
        \/ sock'[s] = sock[s] /\ own'[s] = own[s] /\ home'[s] = home[s] /\ mem'[s] = mem[s]
        \/ sock'[s] = "open" /\ own'[s] = t /\ home'[s] = t /\ mem'[s] = gen
  <2>1. CASE caller[t] = "open"
    BY <1>1, <1>3, <2>1, RunningFacts DEF Store
  <2>2. CASE caller[t] = "insert"
    BY <1>1, <1>3, <2>2, RunningFacts DEF Store
  <2>3. CASE caller[t] \notin {"open", "insert"}
    BY <1>1, <2>3 DEF Store, socket
  <2> QED BY <2>1, <2>2, <2>3
<1>5. ASSUME NEW s \in Sockets PROVE SocketOK(s)'
  <2>1. SocketOK(s) /\ (own[s] # None => own[s] \in Threads)
        /\ (listed[s] # None => listed[s] \in Threads)
    BY RunningFacts DEF Running
  <2>2. (listed[s] # None => HasList(listed[s]) /\ marked[s])'
    BY <1>1, <1>2, <2>1 DEF SocketOK, HasList, lists
  <2> QED BY <1>1, <1>2, <1>4, <2>1, <2>2, RunningFacts DEF SocketOK, lists
<1>6. ASSUME NEW u \in Threads PROVE ThreadOK(u)'
  <2>1. CASE u = t
    BY <1>1, <1>2, <1>3, <2>1 DEF ThreadOK, HasList
  <2>2. CASE u # t
    <3>1. ThreadOK(u) /\ (u \in known' <=> u \in known)
      BY <1>1, <2>2 DEF Running
    <3>2. caller[u] = "insert" /\ at[u] \in {"exchange", "tsd"} => mem'[arg[u]] = gen
      BY <1>4, <3>1 DEF ThreadOK
    <3> QED BY <1>2, <2>2, <3>1, <3>2 DEF ThreadOK, HasList
  <2> QED BY <2>1, <2>2
<1>7. OneThread({"wait", "zap", "push", "done"})'
  <2>1. ct[gen].at = "push" => home'[ct[gen].sock] # None
    BY <1>4, RunningFacts DEF Running, OneThread
  <2> QED BY <1>1, <2>1, ThreadKept DEF Running, global
<1> QED BY <1>1, <1>5, <1>6, <1>7, GlobalKept DEF Running

LEMMA RunCall ==
  ASSUME TypeOK, Running, NEW t \in Threads, at[t] = "up",
         NEW who \in {"loop", "open", "insert"}, NEW s \in Sockets \cup {None},
         Call(t, who, s), who # "loop" => s \in Sockets,
         who = "insert" => mem[s] = gen,
         UNCHANGED <<global, ct, known, ready, socket, lists, broken>>
  PROVE  Running'
<1>1. /\ at' = [at EXCEPT ![t] = "exchange"]
      /\ caller' = [caller EXCEPT ![t] = who] /\ arg' = [arg EXCEPT ![t] = s]
  BY DEF Call, Goto
<1>2. \A r \in Sockets : SocketOK(r)'
  BY <1>1, SocketsKept DEF Goto, global, lists
<1>3. ASSUME NEW u \in Threads PROVE ThreadOK(u)'
  <2>1. ThreadOK(u) /\ t \in known
    BY DEF Running, ThreadOK
  <2>2. CASE u = t
    BY <1>1, <2>1, <2>2, RunningFacts DEF ThreadOK, HasList, global, socket
  <2>3. CASE u # t
    BY <1>1, <2>1, <2>3, RunningFacts DEF ThreadOK, HasList, global, socket
  <2> QED BY <2>2, <2>3
<1>4. OneThread({"wait", "zap", "push", "done"})'
  BY <1>1, ThreadKept DEF Running, OneThread, global, socket
<1> QED BY <1>2, <1>3, <1>4, GlobalKept DEF Running

LEMMA RunEventCheck ==
  ASSUME TypeOK, Running, NEW t \in Threads, EventCheck(t)
  PROVE  broken' = broken /\ Running'
<1>1. at[t] = "loop" /\ HasList(t) /\ ListFault(t) = "no"
  BY StepIsSomewhere, RunningLists DEF Running, ThreadOK, HasList
<1>2. /\ listed' = [s \in Sockets |-> IF listed[s] = t THEN None ELSE listed[s]]
      /\ marked' = [s \in Sockets |-> listed[s] # t /\ marked[s]]
      /\ at' = [at EXCEPT ![t] = "up"]
      /\ UNCHANGED <<global, ct, known, ready, caller, arg, mine, socket, broken>>
  BY <1>1 DEF EventCheck, Goto
<1>3. /\ at'[t] = "up" /\ \A u \in Threads : u # t => at'[u] = at[u]
  BY <1>2, RunningFacts
<1>4. ASSUME NEW s \in Sockets PROVE SocketOK(s)'
  <2>1. SocketOK(s) /\ (own[s] # None => own[s] \in Threads)
        /\ (listed[s] # None => listed[s] \in Threads)
    BY RunningFacts DEF Running
  <2>2. (listed[s] # None => HasList(listed[s]) /\ marked[s])'
    BY <1>1, <1>2, <1>3, <2>1 DEF SocketOK, HasList
  <2> QED BY <1>1, <1>2, <1>3, <2>1, <2>2 DEF SocketOK, global, socket
<1>5. ASSUME NEW u \in Threads PROVE ThreadOK(u)'
  <2>1. ThreadOK(u)
    BY DEF Running
  <2> QED BY <1>1, <1>2, <1>3, <2>1 DEF ThreadOK, HasList, global, socket
<1>6. OneThread({"wait", "zap", "push", "done"})'
  BY <1>2, ThreadKept DEF Running, OneThread, global, socket
<1> QED BY <1>2, <1>4, <1>5, <1>6, GlobalKept DEF Running

LEMMA RunLeave ==
  ASSUME TypeOK, OnlyMoves, Running, NEW t \in Threads, Leave(t)
  PROVE  broken' = broken /\ Running'
<1>1. /\ at[t] = "up" /\ at' = [at EXCEPT ![t] = "leave"] /\ \A s \in Sockets : own[s] # t
      /\ UNCHANGED <<global, ct, known, ready, caller, arg, mine, socket, lists, broken>>
  BY StepIsSomewhere DEF Leave, Goto, OnlyMoves
<1>2. at'[t] = "leave" /\ \A u \in Threads : u # t => at'[u] = at[u]
  BY <1>1, RunningFacts
<1>3. ASSUME NEW s \in Sockets PROVE SocketOK(s)'
  <2>1. SocketOK(s) /\ (own[s] # None => own[s] \in Threads)
        /\ (listed[s] # None => listed[s] \in Threads)
    BY RunningFacts DEF Running
  <2>2. (listed[s] # None => HasList(listed[s]) /\ marked[s])'
    BY <1>1, <1>2, <2>1 DEF SocketOK, HasList, lists
  <2> QED BY <1>1, <1>2, <2>1, <2>2 DEF SocketOK, global, socket, lists
<1>4. ASSUME NEW u \in Threads PROVE ThreadOK(u)'
  <2>1. ThreadOK(u)
    BY DEF Running
  <2> QED BY <1>1, <1>2, <2>1 DEF ThreadOK, HasList, global, socket
<1>5. OneThread({"wait", "zap", "push", "done"})'
  BY <1>1, ThreadKept DEF Running, OneThread, global, socket
<1> QED BY <1>1, <1>3, <1>4, <1>5, GlobalKept DEF Running

LEMMA RunThreadExit ==
  ASSUME TypeOK, Running, NEW t \in Threads, ThreadExit(t)
  PROVE  broken' = broken /\ Running'
<1>1. at[t] = "leave" /\ HasList(t) /\ ListFault(t) = "no"
  BY StepIsSomewhere, RunningLists DEF Running, ThreadOK, HasList
<1>2. /\ listed' = [s \in Sockets |-> IF listed[s] = t THEN None ELSE listed[s]]
      /\ ready' = [ready EXCEPT ![t] = 0]
      /\ at' = [at EXCEPT ![t] = "fin"] /\ broken' = broken
      /\ UNCHANGED <<global, ct, known, caller, arg, mine, socket, marked>>
  BY <1>1, RunningFacts DEF ThreadExit, Goto
<1>3. /\ at'[t] = "fin" /\ ready'[t] = 0
      /\ \A u \in Threads : u # t => at'[u] = at[u] /\ ready'[u] = ready[u]
  BY <1>2, RunningFacts
<1>4. ASSUME NEW s \in Sockets PROVE SocketOK(s)'
  <2>1. SocketOK(s) /\ (own[s] # None => own[s] \in Threads)
        /\ (listed[s] # None => listed[s] \in Threads)
    BY RunningFacts DEF Running
  <2>2. own[s] # None => own[s] # t
    BY <1>1, <2>1 DEF SocketOK
  <2>3. (listed[s] # None => HasList(listed[s]) /\ marked[s])'
    BY <1>2, <1>3, <2>1 DEF SocketOK, HasList
  <2> QED BY <1>2, <1>3, <2>1, <2>2, <2>3 DEF SocketOK, global, socket
<1>5. ASSUME NEW u \in Threads PROVE ThreadOK(u)'
  <2>1. ThreadOK(u)
    BY DEF Running
  <2> QED BY <1>1, <1>2, <1>3, <2>1 DEF ThreadOK, HasList, global, socket
<1>6. OneThread({"wait", "zap", "push", "done"})'
  BY <1>2, ThreadKept DEF Running, OneThread, global, socket
<1> QED BY <1>2, <1>4, <1>5, <1>6, GlobalKept DEF Running

LEMMA RunDie ==
  ASSUME TypeOK, Running, NEW t \in Threads, Die(t)
  PROVE  broken' = broken /\ Running'
<1>1. /\ at[t] = "fin" /\ at' = [at EXCEPT ![t] = "dead"]
      /\ UNCHANGED <<global, ct, known, ready, caller, arg, mine, socket, lists, broken>>
  BY StepIsSomewhere DEF Die, Goto
<1>2. at'[t] = "dead" /\ \A u \in Threads : u # t => at'[u] = at[u]
  BY <1>1, RunningFacts
<1>3. ASSUME NEW s \in Sockets PROVE SocketOK(s)'
  <2>1. SocketOK(s) /\ (own[s] # None => own[s] \in Threads)
        /\ (listed[s] # None => listed[s] \in Threads)
    BY RunningFacts DEF Running
  <2>2. (listed[s] # None => HasList(listed[s]) /\ marked[s])'
    BY <1>1, <1>2, <2>1 DEF SocketOK, HasList, lists
  <2> QED BY <1>1, <1>2, <2>1, <2>2 DEF SocketOK, global, socket, lists
<1>4. ASSUME NEW u \in Threads PROVE ThreadOK(u)'
  <2>1. ThreadOK(u)
    BY DEF Running
  <2> QED BY <1>1, <1>2, <2>1 DEF ThreadOK, HasList, global, socket
<1>5. OneThread({"wait", "zap", "push", "done"})'
  BY <1>1, ThreadKept DEF Running, OneThread, global, socket
<1> QED BY <1>1, <1>3, <1>4, <1>5, GlobalKept DEF Running

\* A channel is taken off its thread, to be moved or closed.
LEMMA RunDetach ==
  ASSUME TypeOK, Running, NEW s \in Sockets, NEW st \in {"cut", "closed"},
         sock[s] = "open", ~Zapping(s),
         sock' = [sock EXCEPT ![s] = st], own' = [own EXCEPT ![s] = None],
         home' = [home EXCEPT ![s] = None], mem' = mem,
         \A r \in Sockets : listed'[r] # None => listed'[r] = listed[r] /\ marked'[r],
         UNCHANGED <<global, ct, thread, broken>>
  PROVE  Running'
<1>1. ASSUME NEW r \in Sockets PROVE SocketOK(r)'
  <2>1. SocketOK(r) /\ SocketOK(s)
    BY DEF Running
  <2>2. /\ r # s => sock'[r] = sock[r] /\ own'[r] = own[r] /\ home'[r] = home[r]
        /\ r = s => own'[r] = None /\ home'[r] = None
    BY RunningFacts
  <2>3. (listed[r] # None => HasList(listed[r]) /\ marked[r])'
    BY <2>1 DEF SocketOK, HasList, thread
  <2> QED BY <2>1, <2>2, <2>3 DEF SocketOK, global, thread
<1>2. ASSUME NEW u \in Threads PROVE ThreadOK(u)'
  <2>1. ThreadOK(u)
    BY DEF Running
  <2> QED BY <2>1 DEF ThreadOK, HasList, global, thread
<1>3. OneThread({"wait", "zap", "push", "done"})'
  <2>1. ct[gen].at = "push" => home'[ct[gen].sock] # None
    BY RunningFacts DEF Running, OneThread, Zapping
  <2> QED BY <2>1, ThreadKept DEF Running, global
<1> QED BY <1>1, <1>2, <1>3, GlobalKept DEF Running

LEMMA RunCut ==
  ASSUME TypeOK, Running, NEW t \in Threads, NEW s \in Sockets, Cut(t, s)
  PROVE  broken' = broken /\ Running'
<1>1. /\ sock[s] = "open" /\ ~Zapping(s) /\ mem' = mem /\ broken' = broken
      /\ sock' = [sock EXCEPT ![s] = "cut"] /\ own' = [own EXCEPT ![s] = None]
      /\ home' = [home EXCEPT ![s] = None] /\ UNCHANGED <<global, ct, thread, lists>>
  BY RunningFacts DEF Cut, RemoveHome
<1>2. \A r \in Sockets : listed'[r] # None => listed'[r] = listed[r] /\ marked'[r]
  BY <1>1 DEF Running, SocketOK, lists
<1> QED BY <1>1, <1>2, RunDetach

LEMMA RunClose ==
  ASSUME TypeOK, Running, NEW t \in Threads, NEW s \in Sockets, Close(t, s)
  PROVE  broken' = broken /\ Running'
<1>1. sock[s] = "open" /\ ~Zapping(s) /\ mem[s] = gen
  BY DEF Close, Running, SocketOK
<1>2. /\ sock' = [sock EXCEPT ![s] = "closed"] /\ own' = [own EXCEPT ![s] = None]
      /\ home' = [home EXCEPT ![s] = None] /\ mem' = mem /\ broken' = broken
      /\ listed' = [listed EXCEPT ![s] = None] /\ marked' = [marked EXCEPT ![s] = TRUE]
      /\ UNCHANGED <<global, ct, thread>>
  BY <1>1, RunningFacts, RunningLists DEF Close, Closes, RemoveHome
<1>3. \A r \in Sockets : listed'[r] # None => listed'[r] = listed[r] /\ marked'[r]
  BY <1>2, RunningFacts DEF Running, SocketOK
<1> QED BY <1>1, <1>2, <1>3, RunDetach

\* What only touches the event queues.
LEMMA RunEventProc ==
  ASSUME TypeOK, Running, NEW t \in Threads, NEW s \in Sockets, EventProc(t, s)
  PROVE  broken' \in {broken, "staleEvent"} /\ Running'
<1>1. /\ broken' \in {broken, "staleEvent"}
      /\ UNCHANGED <<global, ct, thread, socket, listed, marked>>
  BY DEF EventProc, Break, lists
<1> QED BY <1>1
    DEF Running, Complete, OneThread, ThreadOK, SocketOK, HasList, global, thread,
                    socket

LEMMA RunExit ==
  ASSUME TypeOK, OnlyMoves, Running, Exit
  PROVE  broken' = broken /\ Ending'
<1>1. /\ at[Main] = "up" /\ \A u \in Threads : u # Main => at[u] \in {"new", "dead"}
      /\ inExit' = TRUE /\ initialized' = 0 /\ at' = [at EXCEPT ![Main] = "post"]
      /\ UNCHANGED <<startups, gen, field, alive, ct, ready, sock, own, home, mem, broken>>
  BY RunningFacts, ExitIsSomewhere DEF Exit, Goto, OnlyMoves, socket
<1>2. at'[Main] = "post" /\ \A u \in Threads : u # Main => at'[u] \in {"new", "dead"}
  BY <1>1, RunningFacts
<1>3. ready'[Main] = gen'
  BY <1>1, RunningFacts DEF Running, ThreadOK, HasList
<1>4. ASSUME NEW s \in Sockets PROVE home'[s] \in {Main, None} /\ own'[s] \in {Main, None}
  <2>1. own[s] # None => own[s] = Main
    BY <1>1, RunningFacts DEF Running, SocketOK
  <2> QED BY <1>1, <2>1 DEF Running, SocketOK
<1>5. Complete' /\ gen' > 0
  BY <1>1 DEF Running, Complete
<1>6. OneThread({"wait", "zap", "push", "done"})'
  BY <1>1, ThreadKept DEF Running, OneThread
<1> QED BY <1>1, <1>2, <1>3, <1>4, <1>5, <1>6 DEF Ending, Exiting

LEMMA RunCompletion ==
  ASSUME TypeOK, Running, NEW g \in Gens,
         \/ ZapEnter(g) \/ ZapPush(g) \/ Quit(g)
         \/ \E s \in Sockets : Completion(g, s) \/ Free(g, s)
  PROVE  broken' = broken /\ Running'
<1>1. g = gen /\ gen \in Gens /\ ct \in [Gens -> CtStates]
  BY NoThreadNoStep, OnlyItsThread, RunningFacts
<1>2. \A place, r : CtGoto(gen, place, r) =>
        ct'[gen] = [at |-> place, sock |-> r] /\ \A h \in Gens : h # gen => ct'[h] = ct[h]
  BY <1>1 DEF CtGoto
<1>3. ASSUME NEW place \in {"wait", "zap", "push", "done"}, NEW r \in Sockets \cup {None},
             CtGoto(gen, place, r), place \in {"zap", "push"} => r \in Sockets,
             place = "push" => home[r] # None, UNCHANGED <<global, thread, socket>>,
             \A s \in Sockets : listed'[s] # None => HasList(listed'[s]) /\ marked'[s]
      PROVE  Running'
  <2>0. /\ ct'[gen] = [at |-> place, sock |-> r] /\ gen' = gen /\ home' = home
        /\ \A h \in Gens : h # gen => ct'[h] = ct[h]
    BY <1>2, <1>3 DEF global, socket
  <2>1. OneThread({"wait", "zap", "push", "done"})'
    BY <1>3, <2>0 DEF Running, OneThread
  <2>2. ASSUME NEW s \in Sockets PROVE SocketOK(s)'
    BY <1>3 DEF Running, SocketOK, HasList, global, thread, socket
  <2>3. ASSUME NEW u \in Threads PROVE ThreadOK(u)'
    BY <1>3 DEF Running, ThreadOK, HasList, global, thread, socket
  <2> QED BY <1>3, <2>1, <2>2, <2>3, GlobalKept DEF Running
<1>4. \A s \in Sockets : listed[s] # None => HasList(listed[s]) /\ marked[s]
  BY DEF Running, SocketOK
<1>5. ct[gen].at \in {"zap", "push"} => ct[gen].sock \in Sockets
  BY DEF Running, OneThread
<1>6. CASE ZapEnter(g)
  <2>1. ct[gen].at = "zap" /\ ct[gen].sock \in Sockets
    BY <1>1, <1>5, <1>6 DEF ZapEnter, Ct
  <2>2. home[ct[gen].sock] # None => ListFault(home[ct[gen].sock]) = "no"
    BY <2>1, OwnersHaveLists, RunningLists
  <2>3. /\ UNCHANGED <<global, thread, socket, lists, broken>>
        /\ \/ CtGoto(gen, "wait", None)
           \/ CtGoto(gen, "push", ct[gen].sock) /\ home[ct[gen].sock] # None
    BY <1>1, <1>6, <2>2 DEF ZapEnter
  <2> QED BY <1>3, <1>4, <2>1, <2>3 DEF lists
<1>7. CASE ZapPush(g)
  <2> DEFINE s == ct[gen].sock
  <2>1. s \in Sockets /\ home[s] # None
    BY <1>1, <1>5, <1>7 DEF ZapPush, Ct, Running, OneThread
  <2>2. /\ marked' = [marked EXCEPT ![s] = TRUE] /\ CtGoto(gen, "wait", None)
        /\ listed' = (IF marked[s] THEN listed ELSE [listed EXCEPT ![s] = home[s]])
        /\ UNCHANGED <<global, thread, socket, broken>>
    BY <1>1, <1>7 DEF ZapPush
  <2>3. HasList(home[s])
    BY <2>1, OwnersHaveLists
  <2>4. \A r \in Sockets : listed'[r] # None => HasList(listed'[r]) /\ marked'[r]
    <3> HIDE DEF s
    <3> QED BY <1>4, <2>1, <2>2, <2>3, RunningFacts
  <2> QED BY <1>3, <2>2, <2>4
<1>8. CASE Quit(g)
  BY <1>1, <1>3, <1>4, <1>8 DEF Quit, lists
<1>9. ASSUME NEW s \in Sockets, Completion(g, s)
      PROVE  broken' = broken /\ Running'
  <2>1. CtGoto(gen, "zap", s) /\ UNCHANGED <<global, thread, socket, lists, broken>>
    BY <1>1, <1>9, RunningLists DEF Completion
  <2> QED BY <1>3, <1>4, <2>1 DEF lists
<1>10. ASSUME NEW s \in Sockets, Free(g, s)
       PROVE  broken' = broken /\ Running'
  <2>1. /\ sock' = [sock EXCEPT ![s] = "freed"]
        /\ UNCHANGED <<global, ct, thread, own, home, mem, lists, broken>>
    BY <1>10 DEF Free
  <2>2. ASSUME NEW r \in Sockets PROVE SocketOK(r)'
    <3>1. sock'[r] \in {"open", "cut"} => sock'[r] = sock[r]
      BY <2>1, RunningFacts
    <3> QED BY <2>1, <3>1 DEF Running, SocketOK, HasList, global, thread, lists
  <2>3. ASSUME NEW u \in Threads PROVE ThreadOK(u)'
    BY <2>1 DEF Running, ThreadOK, HasList, global, thread
  <2>4. OneThread({"wait", "zap", "push", "done"})'
    BY <2>1, ThreadKept DEF Running, OneThread, global
  <2> QED BY <2>1, <2>2, <2>3, <2>4, GlobalKept DEF Running
<1> QED BY <1>6, <1>7, <1>8, <1>9, <1>10

LEMMA RunningStep ==
  ASSUME TypeOK, OnlyMoves, Running, Next
  PROVE  broken' \in {broken, "staleEvent"} /\ (Running' \/ Ending')
<1>0. \A u \in Threads :
        at[u] \in {"new", "exchange", "tsd", "up", "loop", "leave", "fin", "dead"}
  BY DEF Running, ThreadOK
<1>1. ASSUME NEW t \in Threads, InitSockets(t) PROVE broken' = broken /\ Running'
  <2>1. \A i \in DOMAIN Stages :
          Stages[i] \notin {"new", "exchange", "tsd", "up", "loop", "leave", "fin", "dead"}
    BY StagesMake, KindsAre
  <2>2. Exchange(t) \/ TsdInit(t)
    BY <1>0, <1>1, <2>1, StepIsSomewhere DEF InitSockets
  <2> QED BY <2>2, RunExchange, RunTsdInit
<1>2. ASSUME NEW t \in Threads, EventLoop(t) PROVE broken' = broken /\ Running'
  <2>1. /\ at[t] = "up" /\ Call(t, "loop", None)
        /\ UNCHANGED <<global, ct, known, ready, socket, lists, broken>>
    BY <1>2, StepIsSomewhere DEF EventLoop
  <2> QED BY <2>1, RunCall
<1>3. ASSUME NEW t \in Threads, NEW s \in Sockets, Open(t, s)
      PROVE  broken' = broken /\ Running'
  <2>1. /\ at[t] = "up" /\ Call(t, "open", s)
        /\ UNCHANGED <<global, ct, known, ready, socket, lists, broken>>
    BY <1>3, StepIsSomewhere DEF Open
  <2> QED BY <2>1, RunCall
<1>4. ASSUME NEW t \in Threads, NEW s \in Sockets, Splice(t, s)
      PROVE  broken' = broken /\ Running'
  <2>1. /\ at[t] = "up" /\ Call(t, "insert", s) /\ mem[s] = gen
        /\ UNCHANGED <<global, ct, known, ready, socket, lists, broken>>
    BY <1>4, StepIsSomewhere, RunningFacts DEF Splice, Running, SocketOK, socket
  <2> QED BY <2>1, RunCall
<1>5. ASSUME ExitHandler PROVE broken' = broken /\ Ending'
  <2>1. Exit
    BY <1>0, <1>5, RunningFacts, ExitIsSomewhere DEF ExitHandler
  <2> QED BY <2>1, RunExit
<1> QED BY <1>1, <1>2, <1>3, <1>4, <1>5, RunLoad, RunEventCheck, RunLeave, RunThreadExit,
           RunDie, RunCut, RunClose, RunEventProc, RunCompletion DEF Next

-----------------------------------------------------------------------------
(* While it ends                                                            *)

LEMMA EndingFacts ==
  ASSUME TypeOK, Ending
  PROVE  /\ initialized = 0 /\ inExit /\ gen \in Gens /\ gen > 0
         /\ at \in [Threads -> Places] /\ ct \in [Gens -> CtStates]
         /\ at[Main] \in {"post", "wait", "destroy", "leave", "fin", "dead"}
         /\ \A t \in Threads : t # Main => at[t] \in {"new", "dead"}
         /\ sock \in [Sockets -> {"none", "open", "cut", "closed", "freed"}]
         /\ own \in [Sockets -> Threads \cup {None}]
         /\ home \in [Sockets -> Threads \cup {None}]
         /\ ready[Main] = gen /\ Main \in Threads
         /\ None \notin Threads /\ None \notin Sockets
BY InitsAssumption, ThreadsAssumption DEF TypeOK, Ending, Exiting, Gens, CtStates

\* The main thread goes on.
LEMMA MainMoves ==
  ASSUME TypeOK, Ending, NEW place \in {"wait", "destroy", "leave", "fin", "dead"},
         Goto(Main, place)
  PROVE  at'[Main] = place /\ \A t \in Threads : t # Main => at'[t] \in {"new", "dead"}
BY EndingFacts DEF Goto

LEMMA EndPostNull ==
  ASSUME TypeOK, Ending, PostNull
  PROVE  broken' = broken /\ Ending'
<1>1. /\ at[Main] = "post" /\ Goto(Main, "wait")
      /\ UNCHANGED <<initialized, gen, startups, alive, field, inExit, ct, ready, own, home,
                     broken>>
  BY ExitIsSomewhere DEF PostNull, socket
<1>2. at'[Main] = "wait" /\ \A t \in Threads : t # Main => at'[t] \in {"new", "dead"}
  BY <1>1, MainMoves
<1>3. OneThread({"wait", "zap", "push", "done"})'
  BY <1>1 DEF Ending, OneThread
<1> QED BY <1>1, <1>2, <1>3 DEF Ending, Exiting, Complete

LEMMA EndWaitForThread ==
  ASSUME TypeOK, Ending, WaitForThread
  PROVE  broken' = broken /\ Ending'
<1>1. /\ at[Main] = "wait" /\ Goto(Main, "destroy") /\ field["thread"] = gen
      /\ UNCHANGED <<initialized, gen, startups, alive, field, inExit, ready, own, home,
                     broken>>
  BY ExitIsSomewhere, KindsAre
     DEF WaitForThread, global, socket, Ending, Exiting, Complete
<1>2. at'[Main] = "destroy" /\ \A t \in Threads : t # Main => at'[t] \in {"new", "dead"}
  BY <1>1, MainMoves
<1>3. PICK k : /\ ct' = [ct EXCEPT ![gen] = k]
               /\ k.at \in {"killed", "done"}
  <2>1. ct[gen] \in CtStates /\ ct[gen].at \in {"wait", "zap", "push", "done"}
    BY <1>1, EndingFacts DEF Ending, OneThread
  <2>2. [ct[gen] EXCEPT !.at = "killed"].at = "killed"
    BY <2>1 DEF CtStates
  <2>3. CASE ct[gen].at = "done"
    BY <1>1, <2>3 DEF WaitForThread
  <2>4. CASE ct[gen].at = "push"
    BY <1>1, <2>2, <2>4 DEF WaitForThread
  <2>5. CASE ct[gen].at \in {"wait", "zap"}
    <3> DEFINE w == [at |-> "killed", sock |-> None]
    <3>1. ct' = [ct EXCEPT ![gen] = w]
      BY <1>1, <2>5 DEF WaitForThread
    <3>2. w.at = "killed"
      OBVIOUS
    <3> HIDE DEF w
    <3> QED BY <3>1, <3>2
  <2> QED BY <2>1, <2>3, <2>4, <2>5
<1>4. ct'[gen] = k /\ \A g \in Gens : g # gen => ct'[g] = ct[g]
  BY <1>3, EndingFacts
<1>5. OneThread({"killed", "done"})'
  BY <1>1, <1>3, <1>4 DEF Ending, OneThread
<1>6. Complete'
  BY <1>1 DEF Ending, Exiting, Complete
<1> QED BY <1>1, <1>2, <1>5, <1>6 DEF Ending, Exiting

LEMMA EndDestroy ==
  ASSUME TypeOK, Ending, Destroy
  PROVE  broken' = broken /\ Ending'
<1>1. /\ at[Main] = "destroy" /\ Goto(Main, "leave")
      /\ alive' = alive \ {Handle(k) : k \in Kinds}
      /\ UNCHANGED <<initialized, gen, inExit, ct, ready, own, home, broken>>
  BY ExitIsSomewhere DEF Destroy, socket
<1>2. at'[Main] = "leave" /\ \A t \in Threads : t # Main => at'[t] \in {"new", "dead"}
  BY <1>1, MainMoves
<1>3. alive' = {}
  BY <1>1 DEF Ending, Exiting, Complete, Handle
<1>4. OneThread({"killed", "done"})'
  BY <1>1 DEF Ending, OneThread
<1> QED BY <1>1, <1>2, <1>3, <1>4 DEF Ending, Exiting

LEMMA EndThread ==
  ASSUME TypeOK, Ending, NEW t \in Threads, ThreadExit(t) \/ Die(t)
  PROVE  broken' = broken /\ Ending'
<1>1. t = Main /\ at[Main] \in {"leave", "fin"}
  BY StepIsSomewhere, EndingFacts
<1>2. /\ Goto(Main, "fin") \/ Goto(Main, "dead")
      /\ UNCHANGED <<initialized, gen, alive, inExit, ct, ready, own, home, broken>>
  BY <1>1, EndingFacts DEF ThreadExit, Die, global, socket
<1>3. /\ at'[Main] \in {"fin", "dead"}
      /\ \A u \in Threads : u # Main => at'[u] \in {"new", "dead"}
  BY <1>2, MainMoves
<1>4. OneThread({"killed", "done"})'
  BY <1>1, <1>2 DEF Ending, OneThread
<1>5. alive' = {}
  BY <1>1, <1>2 DEF Ending, Exiting
<1> QED BY <1>2, <1>3, <1>4, <1>5 DEF Ending, Exiting

\* "The core might want to close channels after the exit handler": nothing is used.
LEMMA EndClose ==
  ASSUME TypeOK, Ending, NEW t \in Threads, NEW s \in Sockets, Close(t, s)
  PROVE  broken' = broken /\ Ending'
<1>1. /\ own' = [own EXCEPT ![s] = None]
      /\ UNCHANGED <<global, ct, thread, home, mem, broken>>
  BY EndingFacts DEF Close, Closes, RemoveHome
<1>2. at[Main] = "fin"
  BY StepIsSomewhere, EndingFacts
<1>3. \A r \in Sockets : own'[r] \in {own[r], None}
  BY <1>1, EndingFacts
<1>4. OneThread({"killed", "done"})'
  BY <1>1, <1>2 DEF Ending, OneThread, global
<1> QED BY <1>1, <1>2, <1>3, <1>4 DEF Ending, Exiting, global, thread

LEMMA EndCompletion ==
  ASSUME TypeOK, Ending, NEW g \in Gens,
         \/ ZapEnter(g) \/ ZapPush(g) \/ Quit(g)
         \/ \E s \in Sockets : Completion(g, s) \/ Free(g, s)
  PROVE  broken' = broken /\ Ending'
<1>1. ct[g].at \in {"wait", "zap", "push"}
  BY NoThreadNoStep
<1>2. /\ g = gen /\ at[Main] \in {"post", "wait"}
      /\ OneThread({"wait", "zap", "push", "done"}) /\ Complete
  BY <1>1 DEF Ending, Exiting, OneThread
<1>3. \A place, r : CtGoto(gen, place, r) =>
        ct'[gen] = [at |-> place, sock |-> r] /\ \A h \in Gens : h # gen => ct'[h] = ct[h]
  BY EndingFacts DEF CtGoto
<1>4. ASSUME OneThread({"wait", "zap", "push", "done"})',
             UNCHANGED <<global, thread, own, home>>
      PROVE  Ending'
  BY <1>2, <1>4 DEF Ending, Complete, Exiting, global, thread
<1>5. ASSUME NEW place \in {"wait", "zap", "push", "done"}, NEW r \in Sockets \cup {None},
             CtGoto(gen, place, r), place \in {"zap", "push"} => r \in Sockets,
             place = "push" => home[r] # None, UNCHANGED <<global, thread, socket>>
      PROVE  Ending'
  <2>1. /\ ct'[gen] = [at |-> place, sock |-> r] /\ gen' = gen /\ home' = home
        /\ \A h \in Gens : h # gen => ct'[h] = ct[h]
    BY <1>3, <1>5 DEF global, socket
  <2>2. OneThread({"wait", "zap", "push", "done"})'
    BY <1>2, <1>5, <2>1 DEF OneThread
  <2> QED BY <1>4, <1>5, <2>2 DEF socket
<1>6. CASE ZapEnter(g)
  <2>1. ct[gen].at = "zap" /\ ct[gen].sock \in Sockets
    BY <1>2, <1>6 DEF ZapEnter, Ct, OneThread
  <2>2. ListFault(Main) = "no"
    <3>1. HeapOf(gen)
      BY <1>2, KindsAre DEF Complete, HeapOf
    <3>2. ~ListHeld(Main)
      BY <1>2 DEF ListHeld, OneThread
    <3> QED BY <3>1, <3>2, EndingFacts DEF ListFault
  <2>3. home[ct[gen].sock] \in {Main, None}
    BY <2>1 DEF Ending
  <2>4. /\ UNCHANGED <<global, thread, socket, lists, broken>>
        /\ \/ CtGoto(gen, "wait", None)
           \/ CtGoto(gen, "push", ct[gen].sock) /\ home[ct[gen].sock] # None
    BY <1>2, <1>6, <2>2, <2>3 DEF ZapEnter
  <2> QED BY <1>5, <2>1, <2>4
<1>7. CASE ZapPush(g)
  BY <1>2, <1>5, <1>7 DEF ZapPush
<1>8. CASE Quit(g)
  BY <1>2, <1>5, <1>8 DEF Quit
<1>9. ASSUME NEW s \in Sockets, Completion(g, s)
      PROVE  broken' = broken /\ Ending'
  <2>1. <<"port", gen>> \in alive
    BY <1>2, KindsAre DEF Complete
  <2>2. CtGoto(gen, "zap", s) /\ UNCHANGED <<global, thread, socket, lists, broken>>
    BY <1>2, <1>9, <2>1 DEF Completion
  <2> QED BY <1>5, <2>2
<1>10. ASSUME NEW s \in Sockets, Free(g, s)
       PROVE  broken' = broken /\ Ending'
  <2>1. UNCHANGED <<global, ct, thread, own, home, broken>>
    BY <1>10 DEF Free
  <2>2. OneThread({"wait", "zap", "push", "done"})'
    BY <1>2, <2>1 DEF OneThread, global
  <2> QED BY <1>4, <2>1, <2>2
<1> QED BY <1>6, <1>7, <1>8, <1>9, <1>10

LEMMA EndingStep ==
  ASSUME TypeOK, OnlyMoves, Ending, Next
  PROVE  broken' = broken /\ Ending'
<1>1. \A u \in Threads :
        at[u] \in {"post", "wait", "destroy", "new", "leave", "fin", "dead"}
  BY EndingFacts
<1>2. \A u \in Threads : ~Load(u)
  BY OnlyOneLoads, EndingFacts
<1>3. \A u \in Threads : ~InitSockets(u)
  <2>1. \A i \in DOMAIN Stages :
          Stages[i] \notin {"post", "wait", "destroy", "new", "leave", "fin", "dead"}
    BY StagesMake, KindsAre
  <2> QED BY <1>1, <2>1, StepIsSomewhere DEF InitSockets
<1>4. ~Exit
  BY EndingFacts, ExitIsSomewhere
<1> QED BY <1>1, <1>2, <1>3, <1>4, StepIsSomewhere, EndPostNull, EndWaitForThread,
    EndDestroy,
           EndThread, EndClose, EndCompletion DEF Next, ExitHandler

-----------------------------------------------------------------------------
(* The theorems                                                             *)

LEMMA SubsystemStep ==
  ASSUME OnlyMoves, SubsystemInv, [Next]_vars
  PROVE  SubsystemInv'
<1>1. TypeOK'
  BY TypeStep
<1>2. CASE Next
  BY <1>1, <1>2, IdleStep, StartingStep, RunningStep, EndingStep DEF SubsystemInv
<1>3. CASE UNCHANGED vars
  BY <1>1, <1>3
     DEF SubsystemInv, vars, global, thread, socket, lists, Idle, Starting, Running, Ending,
         Untouched, StartedBy, Complete, OneThread, ThreadOK, HasList, SocketOK
<1> QED BY <1>2, <1>3

\* The subsystem is in one of its four phases.
THEOREM PhasesHold == ASSUME OnlyMoves PROVE Spec => []SubsystemInv
<1>1. Init => SubsystemInv
  <2> SUFFICES ASSUME Init PROVE SubsystemInv
    OBVIOUS
  <2>1. TypeOK
    BY InitTyped
  <2>2. Idle
    BY DEF Init, Idle, Untouched
  <2> QED BY <2>1, <2>2 DEF SubsystemInv, Init
<1>2. SubsystemInv /\ [Next]_vars => SubsystemInv'
  BY SubsystemStep
<1> QED BY <1>1, <1>2, PTL DEF Spec

\* No list, heap, lock, port or SocketInfo is used before the initialisation has made
\* it or after IocpExitHandler has destroyed it.
THEOREM NothingGoneIsEverUsed == ASSUME OnlyMoves PROVE Spec => []NothingGoneIsUsed
<1>1. SubsystemInv => NothingGoneIsUsed
  BY DEF SubsystemInv, NothingGoneIsUsed
<1> QED BY <1>1, PhasesHold, PTL

\* There is one completion thread or none, however often the subsystem is started.
THEOREM OneThreadServes == ASSUME OnlyMoves PROVE Spec => []OneCompletionThread
<1>1. SubsystemInv => OneCompletionThread
  <2> SUFFICES ASSUME SubsystemInv PROVE OneCompletionThread
    OBVIOUS
  <2> DEFINE T == {g \in Gens : ct[g].at \in {"wait", "zap", "push"}}
  <2>1. T \subseteq {gen}
    BY DEF SubsystemInv, Idle, Starting, Untouched, Running, Ending, OneThread
  <2>2. IsFiniteSet({gen}) /\ Cardinality({gen}) = 1
    BY FS_Singleton
  <2>3. Cardinality(T) <= 1
    BY <2>1, <2>2, FS_Subset
  <2> QED BY <2>3 DEF OneCompletionThread
<1> QED BY <1>1, PhasesHold, PTL

\* A start that failed and an exit that is over leave no port, heap or thread.
THEOREM NothingIsEverLeft == ASSUME OnlyMoves PROVE Spec => []NothingIsLeftOver
<1>1. SubsystemInv => NothingIsLeftOver
  <2> SUFFICES ASSUME SubsystemInv, initialized = 0,
                      \A t \in Threads : at[t] \notin Initialising \cup Exiting
               PROVE  alive = {}
    BY DEF NothingIsLeftOver
  <2>1. Main \in Threads
    BY ThreadsAssumption
  <2> QED BY <2>1 DEF SubsystemInv, Idle, Starting, Running, Ending
<1> QED BY <1>1, PhasesHold, PTL

\* Types are right, and what is listed is marked and on a list that is there.
THEOREM ListsMakeSense == ASSUME OnlyMoves PROVE Spec => []WellFormed
<1>1. SubsystemInv => WellFormed
  <2> SUFFICES ASSUME SubsystemInv PROVE ListedIsReachable
    BY DEF SubsystemInv, WellFormed
  <2> SUFFICES ASSUME NEW s \in Sockets, listed[s] # None, initialized = 1
               PROVE  marked[s] /\ ListFault(listed[s]) = "no"
    BY DEF ListedIsReachable
  <2>1. TypeOK /\ Running
    BY DEF SubsystemInv, Idle, Starting, Untouched, Ending
  <2>2. listed[s] \in Threads /\ HasList(listed[s]) /\ marked[s]
    BY <2>1, RunningFacts DEF Running, SocketOK
  <2> QED BY <2>1, <2>2, RunningLists
<1> QED BY <1>1, PhasesHold, PTL
=============================================================================
