----------------------------- MODULE LinkedList -----------------------------
(***************************************************************************)
(* linkedlist.c: a doubly linked list with its own lock, at the level of its *)
(* pointers.  node->next, prev, ll and lpItem are next, prev, home and item; *)
(* ll->front, back and lCount are front, back and count.                     *)
(*                                                                          *)
(* A step ends where a thread without the lock can see something: IocpLLPop  *)
(* reads node->ll, and IocpLLIsNotEmpty and IocpLLGetCount read lCount.      *)
(* So a push is its links and count, then node->ll; a pop is its test of     *)
(* node->ll, then unlinking, then the count.                                 *)
(*                                                                          *)
(* Pushes come from any thread at any time.  Pops of a list in Shared do too: *)
(* readySockets, which the Tcl thread drains by count while FreeSocketInfo    *)
(* pops from it on the completion thread (iocpsock_lolevel.c:406-411, 1524).  *)
(* From any other list (llPendingRecv, readyAccepts) the Tcl thread pops      *)
(* until its socket is closed, and whoever frees the socket after that: one   *)
(* thread at a time is at work on a pop, a count and its drain being one.     *)
(* IOCP_LL_NOLOCK stands for a caller that has entered the (recursive)        *)
(* critical section itself, which is the same step.                           *)
(*                                                                          *)
(* Embedded nodes belong to the caller (every caller in src/); the others    *)
(* are allocated by a push that is given none and destroyed by the pop.  A   *)
(* list holds one kind.                                                      *)
(***************************************************************************)
EXTENDS Integers, Sequences, FiniteSets, SequencesExt

CONSTANTS
  Nodes, Lists, Threads, Items, None,
  Embedded,    \* nodes that are part of a caller's structure
  Owning,      \* lists that allocate and destroy their nodes
  Holds,       \* the items a caller stores in a node
  Shared       \* lists that several threads pop from at a time

ASSUME NodesAssumption ==
  IsFiniteSet(Nodes) /\ None \notin Nodes \cup Lists \cup Threads \cup Items
ASSUME CallersAssumption ==
  /\ Embedded \subseteq Nodes
  /\ Owning \subseteq Lists
  /\ Holds \in [Nodes -> SUBSET Items]
  /\ Shared \subseteq Lists

VARIABLES
  next, prev, home, item,    \* of a node
  front, back, count,        \* of a list
  lock,                      \* who is inside its critical section
  life,                      \* "none", "live", "gone" of a list
  allocated,                 \* nodes a push has allocated
  at, call,                  \* where a thread is, and its arguments
  got                        \* the item's node its last pop returned

nodeVars == <<next, prev, home, item, allocated>>
listVars == <<front, back, count, life>>
vars == <<next, prev, home, item, front, back, count, lock, life, allocated, at, call, got>>

NoCall == [list |-> None, node |-> None, item |-> None, left |-> 0]
Places == {"idle", "own", "unlink", "count", "compare", "drain", "fault"}

TypeOK ==
  /\ next \in [Nodes -> Nodes \cup {None}]
  /\ prev \in [Nodes -> Nodes \cup {None}]
  /\ home \in [Nodes -> Lists \cup {None}]
  /\ item \in [Nodes -> Items \cup {None}]
  /\ front \in [Lists -> Nodes \cup {None}]
  /\ back \in [Lists -> Nodes \cup {None}]
  /\ count \in [Lists -> Int]
  /\ lock \in [Lists -> Threads \cup {None}]
  /\ life \in [Lists -> {"none", "live", "gone"}]
  /\ allocated \subseteq Nodes \ Embedded
  /\ at \in [Threads -> Places]
  /\ call \in [Threads -> [list : Lists \cup {None}, node : Nodes \cup {None},
                            item : Items \cup {None}, left : Nat]]
  /\ got \in [Threads -> Nodes \cup {None}]

Init ==
  /\ next = [n \in Nodes |-> None] /\ prev = [n \in Nodes |-> None]
  /\ home = [n \in Nodes |-> None] /\ item = [n \in Nodes |-> None]
  /\ front = [l \in Lists |-> None] /\ back = [l \in Lists |-> None]
  /\ count = [l \in Lists |-> 0] /\ lock = [l \in Lists |-> None]
  /\ life = [l \in Lists |-> "none"]
  /\ allocated = {}
  /\ at = [t \in Threads |-> "idle"] /\ call = [t \in Threads |-> NoCall]
  /\ got = [t \in Threads |-> None]

-----------------------------------------------------------------------------
(* Helpers                                                                  *)

Goto(t, p) == at' = [at EXCEPT ![t] = p]
Return(t) == Goto(t, "idle") /\ call' = [call EXCEPT ![t] = NoCall]

Unlinked(l) == front[l] = None /\ back[l] = None

\* The early return of every pop.
Nothing(l) == Unlinked(l) \/ count[l] <= 0

\* What IocpLLPopAll leaves: nothing counted, and front and back as they were.
Stale(l) == count[l] <= 0 /\ ~Unlinked(l)

\* A caller works on a list between its creation and its end; the one caller of
\* IocpLLPopAll, IocpThreadExitHandler, destroys the list next.
Usable(l) == life[l] = "live" /\ lock[l] = None /\ ~Stale(l)

\* A thread at work on a pop of l, or between the pops of a drain.
PopPlaces == {"unlink", "count", "compare", "drain"}
Popping(t, l) == at[t] \in PopPlaces /\ call[t].list = l
MayPop(t, l) == l \in Shared \/ \A u \in Threads \ {t} : ~Popping(u, l)

\* One thread drains a shared list; the others pop single nodes from it, and no
\* other pop of src/ is made on it before its thread ends.
NoDrain(t, l) == \A u \in Threads \ {t} : ~(at[u] = "drain" /\ call[u].list = l)

Calls(t, l) == at[t] = "idle" /\ Usable(l)
Pops(t, l) == Calls(t, l) /\ l \notin Shared /\ MayPop(t, l)

InHand(n) == \E t \in Threads : call[t].node = n

\* The nodes from first on, along ptr; a cycle is cut where it exceeds all nodes.
Walk(first, ptr) ==
  LET f[k \in 1 .. Cardinality(Nodes) + 1] ==
        IF k = 1 THEN <<first>>
        ELSE LET s == f[k-1]
             IN IF ptr[Last(s)] = None THEN s ELSE Append(s, ptr[Last(s)])
  IN IF first = None THEN <<>> ELSE f[Cardinality(Nodes) + 1]

IsNotEmpty(l) == count[l] # 0

\* A node a push may be called with: the caller's own that is nowhere, or a new one.
Pushable(l, n) ==
  /\ ~InHand(n)
  /\ IF l \in Owning THEN n \in Nodes \ (Embedded \cup allocated)
                     ELSE n \in Embedded /\ home[n] = None

\* HEAP_ZERO_MEMORY of a node that a push allocates.
Fresh(ptr, n) == IF n \in Embedded THEN ptr ELSE [ptr EXCEPT ![n] = None]

-----------------------------------------------------------------------------
(* Life of a list                                                           *)

Create(l) ==
  /\ life[l] = "none"
  /\ life' = [life EXCEPT ![l] = "live"]
  /\ front' = [front EXCEPT ![l] = None] /\ back' = [back EXCEPT ![l] = None]
  /\ count' = [count EXCEPT ![l] = 0]
  /\ UNCHANGED <<nodeVars, lock, at, call, got>>

DestroyUndrained(t, l) ==
  /\ life[l] = "live" /\ at[t] = "idle"
  /\ lock[l] = None /\ \A u \in Threads : call[u].list # l
  /\ life' = [life EXCEPT ![l] = "gone"]
  /\ UNCHANGED <<nodeVars, front, back, count, lock, at, call, got>>

\* Nodes are not destroyed, and nobody else may be at work on the list.
Destroy(t, l) ==
  /\ life[l] = "live" /\ at[t] = "idle"
  /\ lock[l] = None /\ \A u \in Threads : call[u].list # l
  /\ Nothing(l)
  /\ life' = [life EXCEPT ![l] = "gone"]
  /\ UNCHANGED <<nodeVars, front, back, count, lock, at, call, got>>

-----------------------------------------------------------------------------
(* Push                                                                     *)

PushBegin(t, l, n, i) ==
  /\ Calls(t, l) /\ Pushable(l, n) /\ i \in Holds[n]
  /\ item' = [item EXCEPT ![n] = i]
  /\ allocated' = IF l \in Owning THEN allocated \cup {n} ELSE allocated
  /\ lock' = [lock EXCEPT ![l] = t]
  /\ count' = [count EXCEPT ![l] = @ + 1]
  /\ home' = Fresh(home, n)
  /\ call' = [call EXCEPT ![t] = [NoCall EXCEPT !.list = l, !.node = n]]
  /\ Goto(t, "own")
  /\ UNCHANGED <<life, got>>

PushBack(t, l, n, i) ==
  /\ PushBegin(t, l, n, i)
  /\ back' = [back EXCEPT ![l] = n]
  /\ IF Unlinked(l)
     THEN /\ front' = [front EXCEPT ![l] = n]
          /\ next' = Fresh(next, n) /\ prev' = Fresh(prev, n)
     ELSE /\ next' = [Fresh(next, n) EXCEPT ![back[l]] = n]
          /\ prev' = [Fresh(prev, n) EXCEPT ![n] = back[l]]
          /\ UNCHANGED front

PushFront(t, l, n, i) ==
  /\ PushBegin(t, l, n, i)
  /\ front' = [front EXCEPT ![l] = n]
  /\ IF Unlinked(l)
     THEN /\ back' = [back EXCEPT ![l] = n]
          /\ next' = Fresh(next, n) /\ prev' = Fresh(prev, n)
     ELSE /\ prev' = [Fresh(prev, n) EXCEPT ![front[l]] = n]
          /\ next' = [Fresh(next, n) EXCEPT ![n] = front[l]]
          /\ UNCHANGED back

PushOwn(t) ==
  /\ at[t] = "own"
  /\ home' = [home EXCEPT ![call[t].node] = call[t].list]
  /\ lock' = [lock EXCEPT ![call[t].list] = None]
  /\ Return(t)
  /\ UNCHANGED <<next, prev, item, allocated, listVars, got>>

-----------------------------------------------------------------------------
(* Pop                                                                      *)

UnlinkNoBlank(n) ==
  /\ next' = IF prev[n] = None THEN next ELSE [next EXCEPT ![prev[n]] = next[n]]
  /\ prev' = IF next[n] = None THEN prev ELSE [prev EXCEPT ![next[n]] = prev[n]]
  /\ home' = [home EXCEPT ![n] = None]
  /\ allocated' = allocated \ {n}
  /\ UNCHANGED item

UnlinkOneWay(n) ==
  LET blank(ptr) == IF n \in allocated THEN ptr ELSE [ptr EXCEPT ![n] = None]
  IN /\ next' = blank(next)
     /\ prev' = blank(IF next[n] = None THEN prev ELSE [prev EXCEPT ![next[n]] = prev[n]])
     /\ home' = blank(home)
     /\ allocated' = allocated \ {n}
     /\ UNCHANGED item

\* The four cases of IocpLLPop for the neighbours, then the node is blanked, or
\* destroyed, which leaves what its memory held.
Unlink(n) ==
  LET blank(ptr) == IF n \in allocated THEN ptr ELSE [ptr EXCEPT ![n] = None]
  IN /\ next' = blank(IF prev[n] = None THEN next ELSE [next EXCEPT ![prev[n]] = next[n]])
     /\ prev' = blank(IF next[n] = None THEN prev ELSE [prev EXCEPT ![next[n]] = prev[n]])
     /\ home' = blank(home)
     /\ allocated' = allocated \ {n}
     /\ UNCHANGED item

FrontWithout(l, n) == IF prev[n] = None THEN [front EXCEPT ![l] = next[n]] ELSE front
BackKept(l, n) == back

BackWithout(l, n) == IF next[n] = None THEN [back EXCEPT ![l] = prev[n]] ELSE back

UncountForgotten(l, fr, bk) == count' = count /\ front' = fr /\ back' = bk

\* if (InterlockedDecrement(&ll->lCount) <= 0) ll->front = ll->back = NULL
Uncount(l, fr, bk) ==
  /\ count' = [count EXCEPT ![l] = @ - 1]
  /\ front' = IF count[l] - 1 <= 0 THEN [fr EXCEPT ![l] = None] ELSE fr
  /\ back' = IF count[l] - 1 <= 0 THEN [bk EXCEPT ![l] = None] ELSE bk

\* IocpLLPop of a node that is somewhere: node->ll is read without the lock.
PopTest(t, n) ==
  /\ at[t] = "idle" /\ home[n] # None /\ ~Stale(home[n])
  /\ MayPop(t, home[n])
  /\ n \in Embedded \cup allocated
  /\ call' = [call EXCEPT ![t] = [NoCall EXCEPT !.list = home[n], !.node = n]]
  /\ Goto(t, "unlink")
  /\ UNCHANGED <<nodeVars, listVars, lock, got>>

PopUnlink(t) ==
  LET l == call[t].list
      n == call[t].node
  IN
  /\ at[t] = "unlink" /\ lock[l] = None
  /\ IF Nothing(l)
     THEN Return(t) /\ UNCHANGED <<nodeVars, front, back, lock>>
     ELSE /\ Unlink(n)
          /\ front' = FrontWithout(l, n) /\ back' = BackWithout(l, n)
          /\ lock' = [lock EXCEPT ![l] = t]
          /\ Goto(t, "count")
          /\ UNCHANGED call
  /\ UNCHANGED <<count, life, got>>

\* The end of a pop.  A caller that drains by count goes on with the next one.
Popped(t, left) ==
  IF left > 1
  THEN Goto(t, "drain") /\ call' = [call EXCEPT ![t] = [@ EXCEPT !.node = None, !.left = left - 1]]
  ELSE Return(t)

PopCount(t) ==
  LET l == call[t].list IN
  /\ at[t] = "count"
  /\ Uncount(l, front, back)
  /\ lock' = [lock EXCEPT ![l] = None]
  /\ Popped(t, call[t].left)
  /\ UNCHANGED <<nodeVars, life, got>>

\* IocpLLPopFront and IocpLLPopBack with n at that end: the item of a NULL front or
\* back is read, which ends the process.  The nested IocpLLPop goes by node->ll.
PopEnd(t, l, n, left) ==
  /\ IF n = None
     THEN /\ Goto(t, "fault")
          /\ call' = [call EXCEPT ![t] = [NoCall EXCEPT !.list = l, !.left = left]]
          /\ UNCHANGED <<nodeVars, front, back, lock, got>>
     ELSE /\ got' = [got EXCEPT ![t] = n]
          /\ IF home[n] = None \/ Nothing(home[n])
             THEN Popped(t, left) /\ UNCHANGED <<nodeVars, front, back, lock>>
             ELSE /\ Unlink(n)
                  /\ front' = FrontWithout(home[n], n) /\ back' = BackWithout(home[n], n)
                  /\ lock' = [lock EXCEPT ![l] = t]
                  /\ call' = [call EXCEPT ![t] = [NoCall EXCEPT !.list = l, !.node = n, !.left = left]]
                  /\ Goto(t, "count")
  /\ UNCHANGED <<count, life>>

PopFront(t, l) == Pops(t, l) /\ PopEnd(t, l, front[l], 0)
PopBack(t, l) == Pops(t, l) /\ PopEnd(t, l, back[l], 0)

\* IocpEventCheckProc reads the count without the lock and pops that often.
GetCount(t, l) ==
  /\ at[t] = "idle" /\ life[l] = "live" /\ ~Stale(l)
  /\ MayPop(t, l) /\ NoDrain(t, l)
  /\ IsNotEmpty(l)
  /\ call' = [call EXCEPT ![t] = [NoCall EXCEPT !.list = l, !.left = count[l]]]
  /\ Goto(t, "drain")
  /\ UNCHANGED <<nodeVars, listVars, lock, got>>

DrainOne(t) ==
  LET l == call[t].list IN
  /\ at[t] = "drain" /\ lock[l] = None
  /\ PopEnd(t, l, front[l], call[t].left)

-----------------------------------------------------------------------------
(* PopAll and PopAllCompare                                                 *)

\* One step under the lock.  front and back keep pointing at what was removed.
PopAll(t, l) ==
  LET gone == ToSet(Walk(front[l], next))
      blank(ptr) == [n \in Nodes |-> IF n \in gone \ allocated THEN None ELSE ptr[n]]
  IN
  /\ Pops(t, l) /\ ~Nothing(l)
  /\ next' = blank(next) /\ prev' = blank(prev) /\ home' = blank(home)
  /\ allocated' = allocated \ gone
  /\ count' = [count EXCEPT ![l] = @ - Cardinality(gone)]
  /\ UNCHANGED <<item, front, back, lock, life, at, call, got>>

PopAllCompare(t, l, i) ==
  /\ Pops(t, l) /\ ~Nothing(l)
  /\ lock' = [lock EXCEPT ![l] = t]
  /\ call' = [call EXCEPT ![t] = [list |-> l, node |-> front[l], item |-> i, left |-> 0]]
  /\ Goto(t, "compare")
  /\ UNCHANGED <<nodeVars, listVars, got>>

\* The successor is read before the node is popped.
CompareOne(t) ==
  LET l == call[t].list
      n == call[t].node
  IN
  /\ at[t] = "compare"
  /\ IF n = None
     THEN /\ lock' = [lock EXCEPT ![l] = None]
          /\ Return(t)
          /\ UNCHANGED <<nodeVars, front, back, count>>
     ELSE /\ call' = [call EXCEPT ![t].node = next[n]]
          /\ IF item[n] = call[t].item
             THEN Unlink(n) /\ Uncount(l, FrontWithout(l, n), BackWithout(l, n))
             ELSE UNCHANGED <<nodeVars, front, back, count>>
          /\ UNCHANGED <<lock, at>>
  /\ UNCHANGED <<life, got>>

-----------------------------------------------------------------------------

Running == \A t \in Threads : at[t] # "fault"

Step(t) ==
  \/ PushOwn(t) \/ PopUnlink(t) \/ PopCount(t) \/ DrainOne(t) \/ CompareOne(t)
  \/ \E n \in Nodes : PopTest(t, n)
  \/ \E l \in Lists :
       \/ Destroy(t, l) \/ GetCount(t, l)
       \/ PopFront(t, l) \/ PopBack(t, l) \/ PopAll(t, l)
       \/ \E i \in Items : PopAllCompare(t, l, i)
       \/ \E n \in Nodes, i \in Items : PushBack(t, l, n, i) \/ PushFront(t, l, n, i)

Next == Running /\ ((\E l \in Lists : Create(l)) \/ (\E t \in Threads : Step(t)))

Spec == Init /\ [][Next]_vars

-----------------------------------------------------------------------------
(* Properties                                                               *)

Members(l) == IF count[l] <= 0 THEN <<>> ELSE Walk(front[l], next)

\* Whenever nobody is inside, the list reads the same from both ends, counts its
\* nodes, and each of them says it is on it: what the unlinking of IocpLLPop, which
\* looks at the node alone, must keep (linkedlist.c:351-367).
WellLinked ==
  \A l \in Lists : life[l] = "live" /\ lock[l] = None /\ ~Stale(l) =>
    LET s == Walk(front[l], next) IN
      /\ Walk(back[l], prev) = Reverse(s)
      /\ count[l] = Len(s) /\ IsInjective(s)
      /\ \A n \in ToSet(s) : home[n] = l

\* A node that is on no list is blank.  IocpLLPushBack and IocpLLPushFront set one
\* of the two links and rely on the other one being NULL.
OffIsBlank ==
  \A n \in Embedded : home[n] = None /\ ~InHand(n) => next[n] = None /\ prev[n] = None

\* A list is a list and a free node is free.
WellFormed == TypeOK /\ WellLinked /\ OffIsBlank

\* A drain by a count read without the lock never reads through a NULL front: the
\* node it takes is there "or NULL for none" (linkedlist.c:454), and a list on which
\* "what actually is, is less" than the count is passed over
\* (iocpsock_lolevel.c:420-424).  On a shared list the code breaks this.
CountedDrainIsSafe ==
  \A t \in Threads : at[t] = "fault" => call[t].left = 0

\* Nothing that is live points at a destroyed node or at a destroyed list.
NothingDangles ==
  /\ \A l \in Lists : life[l] = "live" /\ ~Stale(l) =>
       {front[l], back[l]} \subseteq Embedded \cup allocated \cup {None}
  /\ \A n \in Embedded \cup allocated :
       /\ {next[n], prev[n]} \subseteq Embedded \cup allocated \cup {None}
       /\ home[n] # None => life[home[n]] = "live"

\* The pointers implement sequences: pushes go to an end, pops hand out the ends in
\* their order or remove what they were asked to.
Contract == INSTANCE ListContract WITH seq <- [l \in Lists |-> Members(l)]
ImplementsContract == Contract!Spec
=============================================================================
