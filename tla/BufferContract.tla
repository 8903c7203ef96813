--------------------------- MODULE BufferContract ---------------------------
(***************************************************************************)
(* What every BufferInfo may rely on.  It has one owner at a time: nobody     *)
(* (not allocated), one of the two threads, Winsock (an overlapped call that   *)
(* has not been taken off the completion port) or a list of the SocketInfo.     *)
(* Only a thread hands a buffer to Winsock or puts it on a list, and Winsock     *)
(* gives it back to a thread: it is never freed, nor handed on, while Winsock    *)
(* may write into it.                                                        *)
(***************************************************************************)
CONSTANT Buffers
VARIABLE owner

Owners == {"none", "thread", "winsock", "list"}

Heirs ==
  [none    |-> {"none", "thread"},
   thread  |-> Owners,
   winsock |-> {"winsock", "thread"},
   list    |-> {"list", "thread", "none"}]

Init == owner \in [Buffers -> {"none", "winsock"}]

Next ==
  /\ owner' \in [Buffers -> Owners]
  /\ \A b \in Buffers : owner'[b] \in Heirs[owner[b]]

Spec == Init /\ [][Next]_owner
=============================================================================
