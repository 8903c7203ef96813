--------------------------- MODULE SocketContract ---------------------------
(***************************************************************************)
(* What the driver promises about the life of a client socket, without      *)
(* threads, flags or reference counts: its SocketInfo is released once,      *)
(* after it was closed, and only when no overlapped operation is left.       *)
(*                                                                          *)
(* Discard is the one exception the code makes: a connection that waits in   *)
(* a listener's queue and was never handed to Tcl is thrown away with the    *)
(* listener, whatever it has outstanding and although the completion thread  *)
(* may be about to post more.                                                *)
(***************************************************************************)
EXTENDS Naturals

CONSTANT Clients

VARIABLES
  phase,     \* "none", "open", "closing" or "gone"
  pending,   \* overlapped operations not yet completely handled
  adopted    \* Tcl has, or has had, a channel for the socket

vars == <<phase, pending, adopted>>

TypeOK ==
  /\ phase \in [Clients -> {"none", "open", "closing", "gone"}]
  /\ pending \in [Clients -> Nat]
  /\ adopted \in [Clients -> BOOLEAN]

Init ==
  /\ phase = [c \in Clients |-> "none"]
  /\ pending = [c \in Clients |-> 0]
  /\ adopted = [c \in Clients |-> FALSE]

\* A socket begins its life open, with Tcl's channel or waiting for one, or is
\* a dud that is closing from the start.  It has something outstanding.
Open(c) ==
  /\ phase[c] = "none"
  /\ \E p \in {"open", "closing"} : phase' = [phase EXCEPT ![c] = p]
  /\ pending'[c] \in Nat \ {0}
  /\ pending' = [pending EXCEPT ![c] = pending'[c]]
  /\ \E b \in BOOLEAN : adopted' = [adopted EXCEPT ![c] = b]

\* It could not be opened.
Fail(c) ==
  /\ phase[c] = "none"
  /\ phase' = [phase EXCEPT ![c] = "gone"]
  /\ UNCHANGED <<pending, adopted>>

Adopt(c) ==
  /\ phase[c] = "open" /\ ~adopted[c]
  /\ adopted' = [adopted EXCEPT ![c] = TRUE]
  /\ UNCHANGED <<phase, pending>>

Post(c) ==
  /\ \/ phase[c] \in {"open", "closing"}
     \/ phase[c] = "gone" /\ ~adopted[c]
  /\ pending'[c] \in Nat /\ pending'[c] > pending[c]
  /\ pending' = [pending EXCEPT ![c] = pending'[c]]
  /\ UNCHANGED <<phase, adopted>>

Complete(c) ==
  /\ phase[c] # "none" /\ pending[c] > 0
  /\ pending' = [pending EXCEPT ![c] = @ - 1]
  /\ UNCHANGED <<phase, adopted>>

Close(c) ==
  /\ phase[c] = "open" /\ adopted[c]
  /\ phase' = [phase EXCEPT ![c] = "closing"]
  /\ UNCHANGED <<pending, adopted>>

Release(c) ==
  /\ phase[c] = "closing" /\ pending[c] = 0
  /\ phase' = [phase EXCEPT ![c] = "gone"]
  /\ UNCHANGED <<pending, adopted>>

\* Every connection that waits in the listener's queue goes with it.
Discard ==
  /\ phase' \in [Clients -> {"none", "open", "closing", "gone"}]
  /\ \A c \in Clients : phase'[c] # phase[c] =>
       phase[c] = "open" /\ ~adopted[c] /\ phase'[c] = "gone"
  /\ UNCHANGED <<pending, adopted>>

Next ==
  \/ \E c \in Clients :
       \/ Open(c) \/ Fail(c) \/ Adopt(c) \/ Post(c)
       \/ Complete(c) \/ Close(c) \/ Release(c)
  \/ Discard

Spec == Init /\ [][Next]_vars
=============================================================================
