----------------------------- MODULE BoundedFifo -----------------------------
(***************************************************************************)
(* What the single-producer single-consumer queue promises (src/SPSCQueue.h):   *)
(* a first-in first-out queue of at most Cap items.                            *)
(***************************************************************************)
EXTENDS Naturals, Sequences

CONSTANTS Items, None, Cap

VARIABLES
  queue,
  out        \* what the last successful pop returned

fifoVars == <<queue, out>>

Init == queue = <<>> /\ out = None

Put(item) ==
  /\ Len(queue) < Cap
  /\ queue' = Append(queue, item)
  /\ UNCHANGED out

Take ==
  /\ queue # <<>>
  /\ out' = Head(queue)
  /\ queue' = Tail(queue)

Next == Take \/ \E item \in Items : Put(item)

Spec == Init /\ [][Next]_fifoVars
=============================================================================
