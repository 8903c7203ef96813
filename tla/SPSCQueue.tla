------------------------------ MODULE SPSCQueue ------------------------------
(***************************************************************************)
(* The lock-free queue of src/SPSCQueue.h: one thread pushes, another pops, and   *)
(* each access to head, tail or a slot of the buffer is a step of its own.       *)
(*                                                                          *)
(* head and tail are ULONG_PTR counters that wrap at W; a slot is the counter     *)
(* modulo Cap (the mask).  Loads and stores take effect in program order: that is *)
(* what the fences of the code ask of the compiler and x86 gives.               *)
(***************************************************************************)
EXTENDS Integers

CONSTANTS
  QueueItems, NoItem,
  Cap,        \* QUEUE_CAPACITY
  Laps        \* the counters wrap after Laps rounds of the buffer

ASSUME CapAssumption == Cap \in Nat \ {0}
ASSUME LapsAssumption == Laps \in Nat \ {0, 1}
ASSUME NoItemAssumption == NoItem \notin QueueItems

W == Cap * Laps
Counters == 0 .. W - 1
Slots == 0 .. Cap - 1

VARIABLES
  head, tail, buffer,
  push,       \* the producer: where it is, current_head, current_tail, item
  pop,        \* the consumer: where it is, current_head, *out_value
  returned    \* what the last successful pop returned

queueVars == <<head, tail, buffer, push, pop, returned>>

QueueTypeOK ==
  /\ head \in Counters /\ tail \in Counters
  /\ buffer \in [Slots -> QueueItems \cup {NoItem}]
  /\ push \in [at : {"idle", "tail", "write", "publish"}, head : Counters, item : QueueItems \cup {NoItem}]
  /\ pop \in [at : {"idle", "tail", "copy", "publish"}, out : QueueItems \cup {NoItem}]
  /\ returned \in QueueItems \cup {NoItem}

\* SPSCQueue_Init
QueueInit ==
  /\ head = 0 /\ tail = 0
  /\ buffer = [s \in Slots |-> NoItem]
  /\ push = [at |-> "idle", head |-> 0, item |-> NoItem]
  /\ pop = [at |-> "idle", out |-> NoItem]
  /\ returned = NoItem

\* Unsigned subtraction, and the distance between two counters.
Ahead(from, to) == (to - from) % W
Slot(counter) == counter % Cap
Count == Ahead(head, tail)

-----------------------------------------------------------------------------
(* SPSCQueue_Push                                                            *)

PushHead(item) ==
  /\ push.at = "idle"
  /\ push' = [at |-> "tail", head |-> head, item |-> item]
  /\ UNCHANGED <<head, tail, buffer, pop, returned>>

\* Mutant of PushTail: one more fits.
PushTailOneMore ==
  /\ push.at = "tail"
  /\ push' = [push EXCEPT !.at = IF Ahead(push.head, tail) > Cap THEN "idle" ELSE "write"]
  /\ UNCHANGED <<head, tail, buffer, pop, returned>>

\* Only this thread writes tail: what it reads is what it last published.
PushTail ==
  /\ push.at = "tail"
  /\ push' = [push EXCEPT !.at = IF Ahead(push.head, tail) = Cap THEN "idle" ELSE "write"]
  /\ UNCHANGED <<head, tail, buffer, pop, returned>>

\* Mutant of PushWrite: tail is published before the item is there.
PushWriteLate ==
  /\ push.at = "write"
  /\ tail' = (tail + 1) % W
  /\ push' = [push EXCEPT !.at = "publish"]
  /\ UNCHANGED <<head, buffer, pop, returned>>

PushWrite ==
  /\ push.at = "write"
  /\ buffer' = [buffer EXCEPT ![Slot(tail)] = push.item]
  /\ push' = [push EXCEPT !.at = "publish"]
  /\ UNCHANGED <<head, tail, pop, returned>>

PushPublish ==
  /\ push.at = "publish"
  /\ tail' = (tail + 1) % W
  /\ push' = [push EXCEPT !.at = "idle"]
  /\ UNCHANGED <<head, buffer, pop, returned>>

-----------------------------------------------------------------------------
(* SPSCQueue_Pop                                                             *)

\* Only this thread writes head: current_head stays what head is.
PopHead ==
  /\ pop.at = "idle"
  /\ pop' = [pop EXCEPT !.at = "tail"]
  /\ UNCHANGED <<head, tail, buffer, push, returned>>

PopTail ==
  /\ pop.at = "tail"
  /\ pop' = [pop EXCEPT !.at = IF head = tail THEN "idle" ELSE "copy"]
  /\ UNCHANGED <<head, tail, buffer, push, returned>>

PopCopy ==
  /\ pop.at = "copy"
  /\ pop' = [at |-> "publish", out |-> buffer[Slot(head)]]
  /\ UNCHANGED <<head, tail, buffer, push, returned>>

PopPublish ==
  /\ pop.at = "publish"
  /\ head' = (head + 1) % W
  /\ returned' = pop.out
  /\ pop' = [pop EXCEPT !.at = "idle"]
  /\ UNCHANGED <<tail, buffer, push>>

Push == PushTail \/ PushWrite \/ PushPublish \/ \E item \in QueueItems : PushHead(item)
Pop == PopHead \/ PopTail \/ PopCopy \/ PopPublish

QueueNext == Push \/ Pop

QueueSpec == QueueInit /\ [][QueueNext]_queueVars

-----------------------------------------------------------------------------
(* SPSCQueue_IsEmpty and SPSCQueue_Size, to a caller neither thread disturbs   *)

IsEmpty == head = tail
Size == IF head >= tail THEN 0 ELSE tail - head

-----------------------------------------------------------------------------
(* Properties                                                               *)

Queue == [k \in 1 .. Count |-> buffer[Slot((head + k - 1) % W)]]

Fifo == INSTANCE BoundedFifo WITH
          Items <- QueueItems, None <- NoItem, queue <- Queue, out <- returned

\* Push and Pop are Put and Take of a queue of Cap items, at the store that
\* publishes tail or head: nothing is lost, doubled, reordered or seen half written,
\* and a wrapping counter changes nothing.
ImplementsFifo == Fifo!Spec

\* The producer never writes the slot that the consumer is copying: the plain
\* accesses of the two threads to the buffer do not race.
NoSharedSlot ==
  push.at = "write" /\ pop.at \in {"copy", "publish"} => Slot(tail) # Slot(head)

\* "Returns current item count" (SPSCQueue.h:101).  Broken by the code once tail has
\* wrapped and head has not: it answers 0.
SizeIsCount == Size = Count
=============================================================================
