-------------------------------- MODULE Irda --------------------------------
(***************************************************************************)
(* The IrDA commands: Iocp_IrdaDiscovery and Iocp_IrdaIasQuery (src/ws2irda.c),   *)
(* with the commands around them (src/iocpsock_hilevel.c), one step for each      *)
(* system call that may fail.  dllmain.c leaves the commands out of the           *)
(* interpreter; C callers reach the procedures through the stub table.           *)
(*                                                                          *)
(* Commands follow one another in one thread.  A device is its character set, an   *)
(* attribute its type: what it says is not modelled.                            *)
(***************************************************************************)
EXTENDS Integers, WsaErrors

CONSTANTS
  IrdaErrors,    \* the Winsock errors that socket() and getsockopt() may report
  DeviceLimit,   \* the limit Iocp_IrdaDiscoveryCmd gives: 20 in the code
  MaxIrda        \* bound on the commands

VARIABLES
  irda,       \* where the command is; "idle" between two
  ircount,    \* commands so far
  irsocks,    \* open IrDA sockets
  irlost,     \* history: the enumerations that have failed
  devices,    \* DEVICELIST: "none", "held", "freed"
  found,      \* numDevice, of those not converted yet
  encodings,  \* references to Tcl encodings taken and not given back
  irvalue,    \* the caller's Tcl_Obj: "NULL", "new", "set"
  irresult,   \* "none", "ok", "error", or "panic"
  irerrno     \* what the last conversion made of a Winsock error


IrdaInit ==
  /\ irda = "idle" /\ ircount = 0 /\ irsocks = 0 /\ irlost = 0
  /\ devices = "none" /\ found = 0 /\ encodings = 0
  /\ irvalue = "NULL" /\ irresult = "none" /\ irerrno = "failure"

-----------------------------------------------------------------------------
Ends(result) == irda' = "idle" /\ irresult' = result

\* A Winsock error, converted, ends the command.
Reports == \E e \in IrdaErrors : irerrno' = Errno(e) /\ Ends("error")

\* Iocp_IrdaDiscoveryCmd; Iocp_IrdaIasQueryCmd with its argument count; the commands
\* that are not there yet return an error at once.
Call ==
  /\ irda = "idle" /\ irresult # "panic" /\ ircount < MaxIrda /\ ircount' = ircount + 1
  /\ devices' = "none" /\ irvalue' = "NULL" /\ irerrno' = "failure"
  /\ \/ irda' \in {"discovery", "decode"} /\ irresult' = "none"
     \/ Ends("error")
  /\ UNCHANGED <<irsocks, irlost, found, encodings>>

\* WSASocket, and the room for limit devices.
DiscoverySocket ==
  /\ irda = "discovery"
  /\ \/ Reports /\ UNCHANGED <<irsocks, devices>>
     \/ /\ irda' = "enumerate" /\ irsocks' = irsocks + 1 /\ devices' = "held"
        /\ UNCHANGED <<irresult, irerrno>>
  /\ UNCHANGED <<ircount, irlost, found, encodings, irvalue>>

\* IRLMP_ENUMDEVICES.  When it fails the socket stays open.
Enumerate ==
  /\ irda = "enumerate"
  /\ \/ /\ Reports /\ devices' = "freed" /\ irlost' = irlost + 1
        /\ UNCHANGED <<found, irvalue>>
     \/ /\ irda' = "device" /\ found' \in 0 .. DeviceLimit
        /\ irvalue' = IF irvalue = "NULL" THEN "new" ELSE irvalue
        /\ UNCHANGED <<irresult, irerrno, devices, irlost>>
  /\ UNCHANGED <<ircount, irsocks, encodings>>

\* The encoding of the device's name: any character set but 0 and 255 is taken for an
\* ISO 8859 part, which Tcl may not know.
Device ==
  /\ irda = "device" /\ found > 0 /\ irda' = "name"
  /\ \/ encodings' = encodings + 1
     \/ UNCHANGED encodings
  /\ UNCHANGED <<ircount, irsocks, irlost, devices, found, irvalue, irresult, irerrno>>

\* Mutant of Name: the encoding is kept for the next device.
NameKeeps ==
  /\ irda = "name" /\ irda' = "device" /\ found' = found - 1
  /\ irvalue' = "set"
  /\ UNCHANGED <<ircount, irsocks, irlost, devices, encodings, irresult, irerrno>>

\* The name is converted, the encoding given back, the device appended with its hints.
Name ==
  /\ irda = "name" /\ irda' = "device" /\ found' = found - 1
  /\ encodings' = 0 /\ irvalue' = "set"
  /\ UNCHANGED <<ircount, irsocks, irlost, devices, irresult, irerrno>>

DiscoveryEnd ==
  /\ irda = "device" /\ found = 0 /\ Ends("ok")
  /\ devices' = "freed" /\ irsocks' = irsocks - 1 /\ irvalue' = "set"
  /\ UNCHANGED <<ircount, irlost, found, encodings, irerrno>>

-----------------------------------------------------------------------------
\* The device id, before there is a socket.
Decode ==
  /\ irda = "decode"
  /\ \/ irda' = "query" /\ UNCHANGED irresult
     \/ Ends("error")
  /\ UNCHANGED <<ircount, irsocks, irlost, devices, found, encodings, irvalue, irerrno>>

QuerySocket ==
  /\ irda = "query"
  /\ \/ Reports /\ UNCHANGED irsocks
     \/ irda' = "ias" /\ irsocks' = irsocks + 1 /\ UNCHANGED <<irresult, irerrno>>
  /\ UNCHANGED <<ircount, irlost, devices, found, encodings, irvalue>>

\* IRLMP_IAS_QUERY; WSAECONNREFUSED says that there is no such service.
Query ==
  /\ irda = "ias" /\ irsocks' = irsocks - 1
  /\ \/ Reports /\ UNCHANGED irvalue
     \/ Ends("error") /\ UNCHANGED <<irerrno, irvalue>>
     \/ irda' = "attribute" /\ irvalue' = "new" /\ UNCHANGED <<irresult, irerrno>>
  /\ UNCHANGED <<ircount, irlost, devices, found, encodings>>

\* The attribute by its type; one that is not known is a panic.  A string borrows
\* an encoding.
Attribute ==
  /\ irda = "attribute"
  /\ \/ Ends("ok") /\ irvalue' = "set"
     \/ Ends("panic") /\ UNCHANGED irvalue
  /\ UNCHANGED <<ircount, irsocks, irlost, devices, found, encodings, irerrno>>

IrdaNext ==
  \/ Call \/ DiscoverySocket \/ Enumerate \/ Device \/ Name \/ DiscoveryEnd
  \/ Decode \/ QuerySocket \/ Query \/ Attribute

-----------------------------------------------------------------------------
\* What is left between two commands, whichever call failed: no device list and no
\* encoding, and of the sockets exactly one for each enumeration that failed, which
\* Iocp_IrdaDiscovery does not close (ws2irda.c:92-97).
IrdaRemains ==
  irda = "idle" => devices # "held" /\ encodings = 0 /\ irsocks = irlost

\* The caller gets a value if and only if the command succeeds; and an error never
\* looks like success or like one to try again.
IrdaTells ==
  /\ irda = "idle" /\ irresult # "none" => (irvalue = "set" <=> irresult = "ok")
  /\ irresult = "error" => irerrno = "failure"
=============================================================================
