------------------------------ MODULE WsaErrors ------------------------------
(***************************************************************************)
(* The errno of a Winsock error: IocpWinConvertWSAError and its three tables     *)
(* (src/iocpsock_lolevel.c).  Of the errnos only those are told apart that Tcl   *)
(* does not take for a failure: "none" (0) and "retry" (EWOULDBLOCK, EAGAIN).     *)
(***************************************************************************)
EXTENDS Integers

WSAEWOULDBLOCK == 10035
WSAEPROCLIM == 10067
WSAEREMOTE == 10071
WSASYSNOTREADY == 10091
WSAEDISCON == 10101
WSAEREFUSED == 10112
WSAHOST_NOT_FOUND == 11001
WSA_QOS_RESERVED_PETYPE == 11031

wsaErrorTable1 ==
  [i \in 0 .. WSAEREMOTE - WSAEWOULDBLOCK |->
     IF i \in {0, WSAEPROCLIM - WSAEWOULDBLOCK} THEN "retry" ELSE "failure"]

\* Seven zeros fill the gap before WSAEDISCON.
wsaErrorTable2 ==
  [i \in 0 .. WSAEREFUSED - WSASYSNOTREADY |->
     IF i \in 3 .. WSAEDISCON - WSASYSNOTREADY - 1 THEN "none" ELSE "failure"]

wsaErrorTable3 == [i \in 0 .. WSA_QOS_RESERVED_PETYPE - WSAHOST_NOT_FOUND |-> "failure"]

\* Mutant of Errno: the second table is entered at its second row.
ErrnoOneOff(code) ==
  IF code \in WSASYSNOTREADY .. WSAEREFUSED - 1 THEN wsaErrorTable2[code + 1 - WSASYSNOTREADY]
  ELSE "failure"

\* IocpWinConvertWSAError
Errno(code) ==
  IF code \in WSAEWOULDBLOCK .. WSAEREMOTE THEN wsaErrorTable1[code - WSAEWOULDBLOCK]
  ELSE IF code \in WSASYSNOTREADY .. WSAEREFUSED THEN wsaErrorTable2[code - WSASYSNOTREADY]
  ELSE IF code \in WSAHOST_NOT_FOUND .. WSA_QOS_RESERVED_PETYPE
       THEN wsaErrorTable3[code - WSAHOST_NOT_FOUND]
  ELSE "failure"
=============================================================================
