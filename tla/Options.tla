------------------------------- MODULE Options -------------------------------
(***************************************************************************)
(* The options of a listener and what an accepted socket gets of them:          *)
(* IocpSetOptionProc, IocpGetOptionProc, IocpSetRecvMode and NewAcceptSockInfo   *)
(* (src/iocpsock_lolevel.c).  The Tcl thread sets and gets; the completion       *)
(* thread copies the options to a new socket, one field after the other, and     *)
(* takes no lock.                                                             *)
(*                                                                          *)
(* The AcceptEx calls that -backlog posts are in AcceptPool, and what the modes    *)
(* do in RecvFlow.  A value for -recvmode has at least one word: with none the     *)
(* code compares a string that is not there.                                     *)
(***************************************************************************)
EXTENDS Integers

CONSTANTS
  Caps,          \* the numbers a script gives, those not allowed among them
  Recommended,   \* IOCP_ACCEPT_CAP as -backlog sees it
  DefaultCap,    \* IOCP_RECV_CAP and IOCP_SEND_CAP
  MaxSets,       \* bound on the options set
  MaxAccepted    \* bound on the sockets accepted

RecvModes == {"zero", "flow", "burst"}
RecvFields == {"mode", "recvCap", "bufCap"}
Fields == RecvFields \cup {"sendCap", "acceptCap"}

VARIABLES
  opt,       \* the listener's options, by field
  os,        \* SO_KEEPALIVE and TCP_NODELAY
  writing,   \* the fields IocpSetRecvMode has still to write, in its order
  words,     \* the value of -recvmode it writes
  result,    \* of the last command: "none", "ok", "error"
  said,      \* what the script set with success, or was told is set
  answer,    \* the option got last, and its value
  sets,      \* options set
  child,     \* the fields of the accepted socket, those copied so far
  copying,   \* "no", "recv", "send", "first"
  first,     \* the mode that its first receive was made for
  seen,      \* by field, what the listener has had since the accept began
  accepted   \* sockets accepted

setting == <<opt, os, writing, words, result, said, answer, sets>>
copy    == <<child, copying, first, accepted>>

DefaultOptions ==
  [mode |-> "zero", recvCap |-> 1, bufCap |-> 1, sendCap |-> DefaultCap,
   acceptCap |-> Recommended]
Script(fields, bits) ==
  [f \in Fields \cup {"keepalive", "nagle"} |->
     IF f \in Fields THEN fields[f] ELSE bits[f]]

OptionsInit ==
  /\ opt = DefaultOptions /\ os = [keepalive |-> FALSE, nodelay |-> FALSE]
  /\ said = Script(DefaultOptions, [keepalive |-> FALSE, nagle |-> TRUE])
  /\ writing = {} /\ words = DefaultOptions /\ result = "none" /\ answer = <<>> /\ sets = 0
  /\ child = DefaultOptions /\ copying = "no" /\ first = "zero" /\ accepted = 0
  /\ seen = [f \in Fields |-> {opt[f]}]

-----------------------------------------------------------------------------
(* IocpSetOptionProc                                                         *)

Sees == seen' = IF copying = "no" THEN seen ELSE [f \in Fields |-> seen[f] \cup {opt'[f]}]

\* A command begins; a wrong value, or an option that is not there, ends it so.
Sets ==
  /\ writing = {} /\ sets < MaxSets /\ sets' = sets + 1 /\ answer' = <<>>
  /\ UNCHANGED copy

Refused == result' = "error" /\ UNCHANGED <<opt, os, writing, words, said, seen>>

SetKeepalive(b) ==
  /\ Sets
  /\ \/ Refused
     \/ /\ os' = [os EXCEPT !.keepalive = b] /\ said' = [said EXCEPT !.keepalive = b]
        /\ result' = "ok" /\ UNCHANGED <<opt, writing, words, seen>>

\* TCP_NODELAY is the opposite of -nagle.
SetNagle(b) ==
  /\ Sets
  /\ \/ Refused
     \/ /\ os' = [os EXCEPT !.nodelay = ~b] /\ said' = [said EXCEPT !.nagle = b]
        /\ result' = "ok" /\ UNCHANGED <<opt, writing, words, seen>>

\* One below the recommended number is an error, and set all the same.
SetBacklog(n) ==
  /\ Sets
  /\ IF n < 1 THEN Refused
     ELSE /\ opt' = [opt EXCEPT !.acceptCap = n] /\ said' = [said EXCEPT !.acceptCap = n]
          /\ result' = IF n < Recommended THEN "error" ELSE "ok"
          /\ Sees /\ UNCHANGED <<os, writing, words>>

SetSendCap(n) ==
  /\ Sets
  /\ IF n < 1 THEN Refused
     ELSE /\ opt' = [opt EXCEPT !.sendCap = n] /\ said' = [said EXCEPT !.sendCap = n]
          /\ result' = "ok" /\ Sees /\ UNCHANGED <<os, writing, words>>

\* IocpSetRecvMode is called: the mode is written at once, SO_RCVBUF set to match.
Enters(mode, recvCap, bufCap) ==
  /\ opt' = [opt EXCEPT !.mode = mode]
  /\ writing' = {"recvCap", "bufCap"}
  /\ words' = [words EXCEPT !.mode = mode, !.recvCap = recvCap, !.bufCap = bufCap]
  /\ Sees /\ UNCHANGED <<os, said>>

\* Mutant of SetRecvMode: the numbers are looked at once they are set.
SetRecvModeFirst(mode, n, m) ==
  /\ Sets
  /\ IF mode = "burst" THEN Enters(mode, n, m) ELSE Enters(mode, 1, 1)
  /\ UNCHANGED result

\* -recvmode: zero-byte, flow-controlled, or {burst-detection n m}.
SetRecvMode(mode, n, m) ==
  /\ Sets
  /\ IF mode = "burst" /\ (n < 1 \/ m < 1) THEN Refused
     ELSE /\ IF mode = "burst" THEN Enters(mode, n, m) ELSE Enters(mode, 1, 1)
          /\ UNCHANGED result

\* IocpSetRecvMode exchanges outstandingRecvCap, then outstandingRecvBufferCap.
WriteCap(f) ==
  /\ f \in writing /\ (f = "bufCap" => writing = {"bufCap"})
  /\ writing' = writing \ {f} /\ opt' = [opt EXCEPT ![f] = words[f]] /\ Sees
  /\ IF writing' = {}
     THEN /\ result' = "ok"
          /\ said' = [x \in DOMAIN said |-> IF x \in RecvFields THEN words[x] ELSE said[x]]
     ELSE UNCHANGED <<result, said>>
  /\ UNCHANGED <<os, words, answer, sets, copy>>

-----------------------------------------------------------------------------
(* IocpGetOptionProc                                                         *)

Gettable == Fields \cup {"keepalive", "nagle"}

\* Mutant of Value: TCP_NODELAY is taken for -nagle.
ValueUninverted(o) ==
  CASE o = "keepalive" -> os.keepalive [] o = "nagle" -> os.nodelay [] OTHER -> opt[o]

Value(o) ==
  CASE o = "keepalive" -> os.keepalive [] o = "nagle" -> ~os.nodelay [] OTHER -> opt[o]

\* The numbers of -recvmode are there in "burst-detection" only.
Get(o) ==
  /\ writing = {} /\ (o \in {"recvCap", "bufCap"} => opt.mode = "burst")
  /\ answer' = <<o, Value(o)>>
  /\ UNCHANGED <<opt, os, writing, words, result, said, sets, copy, seen>>

-----------------------------------------------------------------------------
(* The completion thread                                                     *)

\* WSAENOBUFS of an AcceptEx lowers the cap.
NoBufs ==
  /\ opt.acceptCap > 0
  /\ opt' = [opt EXCEPT !.acceptCap = @ - 1] /\ Sees
  /\ UNCHANGED <<os, writing, words, result, said, answer, sets, copy>>

\* OP_ACCEPT calls NewAcceptSockInfo.
AcceptBegin ==
  /\ copying = "no" /\ accepted < MaxAccepted /\ accepted' = accepted + 1
  /\ copying' = "recv" /\ seen' = [f \in Fields |-> {opt[f]}]
  /\ child' = [f \in {} |-> 0]
  /\ UNCHANGED <<setting, first>>

\* The arguments for IocpSetRecvMode, in the order the compiler likes.
CopyRecv(f) ==
  /\ copying = "recv" /\ f \in RecvFields \ DOMAIN child
  /\ child' = [g \in DOMAIN child \cup {f} |-> IF g = f THEN opt[f] ELSE child[g]]
  /\ copying' = IF RecvFields \subseteq DOMAIN child' THEN "send" ELSE "recv"
  /\ UNCHANGED <<setting, first, seen, accepted>>

CopySend ==
  /\ copying = "send" /\ copying' = "first"
  /\ child' = [g \in DOMAIN child \cup {"sendCap"} |-> IF g = "sendCap" THEN opt.sendCap
                                                       ELSE child[g]]
  /\ UNCHANGED <<setting, first, seen, accepted>>

\* HandleIo makes the buffer of the first receive for the mode of the listener.
FirstBuffer ==
  /\ copying = "first" /\ copying' = "no" /\ first' = opt.mode
  /\ UNCHANGED <<setting, child, seen, accepted>>

OptionsNext ==
  \/ \E b \in BOOLEAN : SetKeepalive(b) \/ SetNagle(b)
  \/ \E n \in Caps : SetBacklog(n) \/ SetSendCap(n)
  \/ \E mode \in RecvModes, n, m \in Caps : SetRecvMode(mode, n, m)
  \/ \E f \in RecvFields : WriteCap(f)
  \/ \E o \in Gettable : Get(o)
  \/ NoBufs
  \/ AcceptBegin \/ \E f \in RecvFields : CopyRecv(f)
  \/ CopySend \/ FirstBuffer

-----------------------------------------------------------------------------
\* However a script's commands fall between the reads of NewAcceptSockInfo, an accepted
\* socket gets what its listener had since the accept began, field by field, and no
\* cap that would keep it from ever reading or writing.
InheritsWhatWasThere ==
  copying = "no" /\ accepted > 0 =>
    /\ \A f \in DOMAIN child : child[f] \in seen[f]
    /\ first \in seen.mode
    /\ child.recvCap > 0 /\ child.bufCap > 0 /\ child.sendCap > 0

\* An option that is got has the value it was last set to, though the wrapper keeps
\* TCP_NODELAY for -nagle, sets what it calls an error, and writes a mode in three
\* steps; only -backlog may have been lowered since.
ReadsBack ==
  answer # <<>> =>
    IF answer[1] = "acceptCap" THEN answer[2] <= said.acceptCap
    ELSE answer[2] = said[answer[1]]

\* An accepted socket has a mode with the caps of that mode.  Broken by the code: the
\* mode of one setting is copied with the caps of another.
InheritsOneSetting ==
  copying = "no" /\ child.mode # "burst" => child.recvCap = 1 /\ child.bufCap = 1

\* The first receive fits the mode of the socket.  Broken by the code: the listener's
\* mode is read again for it.
FirstReadFits ==
  copying = "no" => (first = "zero" <=> child.mode = "zero")
=============================================================================
