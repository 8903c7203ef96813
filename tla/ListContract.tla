---------------------------- MODULE ListContract ----------------------------
(***************************************************************************)
(* What the callers of linkedlist.c rely on: every list is a sequence of    *)
(* nodes, a node is on one list at most, a push puts it at an end, and the  *)
(* pops take the front, the back, one node, or all.  got[t] is the node     *)
(* whose item the last PopFront or PopBack of a thread handed to its        *)
(* caller.                                                                  *)
(***************************************************************************)
EXTENDS Sequences, SequencesExt

CONSTANTS Nodes, Lists, Threads, Items, None

VARIABLES seq, item, got

vars == <<seq, item, got>>

On(l) == ToSet(seq[l])

Init ==
  /\ seq = [l \in Lists |-> <<>>]
  /\ item = [n \in Nodes |-> None]
  /\ got = [t \in Threads |-> None]

\* A push puts a node that is nowhere at one end.
Insert(l, n) ==
  /\ got' = got
  /\ \E i \in Items : item' = [item EXCEPT ![n] = i]
  /\ \A m \in Lists : n \notin On(m)
  /\ \/ seq' = [seq EXCEPT ![l] = Append(@, n)]
     \/ seq' = [seq EXCEPT ![l] = <<n>> \o @]

\* PopFront and PopBack hand out what they take.
Take(t, l) ==
  /\ item' = item
  /\ seq[l] # <<>>
  /\ \/ got' = [got EXCEPT ![t] = Head(seq[l])] /\ seq' = [seq EXCEPT ![l] = Tail(@)]
     \/ got' = [got EXCEPT ![t] = Last(seq[l])] /\ seq' = [seq EXCEPT ![l] = Front(@)]

TakeOut(l, n) ==
  /\ got' = got /\ item' = item
  /\ \E k \in DOMAIN seq[l] :
       seq[l][k] = n /\ seq' = [seq EXCEPT ![l] = RemoveAt(@, k)]

Clear(l) ==
  /\ got' = got /\ item' = item
  /\ seq' = [seq EXCEPT ![l] = <<>>]

Next ==
  \E l \in Lists :
    /\ seq'[l] # seq[l]
    /\ \/ \E n \in Nodes : Insert(l, n) \/ TakeOut(l, n)
       \/ \E t \in Threads : Take(t, l)
       \/ Clear(l)

Spec == Init /\ [][Next]_vars
=============================================================================
