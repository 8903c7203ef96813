----------------------------- MODULE SocketCreate -----------------------------
(***************************************************************************)
(* The socket2 command from its options to a channel, one step for each system  *)
(* call that may fail: Iocp_SocketObjCmd (src/iocpsock_hilevel.c),               *)
(* CreateTcpSocket, Iocp_OpenTcpClient, Iocp_OpenTcpServer and                   *)
(* Iocp_MakeTcpClientChannel (src/ws2tcp.c), with FindProtocolInfo, NewSocketInfo, *)
(* FreeSocketInfo, OurConnectEx and OP_CONNECT of HandleIo                        *)
(* (src/iocpsock_lolevel.c); then the options of the new channel that keep what   *)
(* they read, and its close.                                                   *)
(*                                                                          *)
(* The command is synchronous: before its channel exists only the network and the  *)
(* completions of what it posted run beside it: of its connect, and of the         *)
(* AcceptEx calls of a listener it has freed because a later one failed.           *)
(* One command is followed; what Tcl and the completion thread do to a socket from  *)
(* then on is SocketLifetime's, connections to a listener are AcceptPool's.         *)
(***************************************************************************)
EXTENDS Integers, SequencesExt

CONSTANTS
  AcceptCap,   \* IOCP_ACCEPT_CAP
  Emulations   \* whether Winsock lacks ConnectEx and DisconnectEx, so that
               \* OurConnectEx and OurDisconnectEx stand in

ASSUME CreateAssumption == AcceptCap \in Nat \ {0} /\ Emulations \subseteq BOOLEAN

Options == {"-async", "-server", "-myaddr", "-myport"}
Kinds == {"server", "async", "blocking", "wrap"}

\* Mutant of Steps: ConnectEx is called before the port knows the socket.
StepsAssocLate ==
  [server   |-> <<"host", "protoSize", "protoList", "protoSearch", "socket", "assoc", "bind",
                  "listen", "accept", "channel">>,
   async    |-> <<"host", "my", "protoSize", "protoList", "protoSearch", "socket", "bind",
                  "connectEx", "assoc", "channel">>,
   blocking |-> <<"host", "my", "protoSize", "protoList", "protoSearch", "socket", "bind",
                  "connect", "assoc", "recv", "channel">>,
   wrap     |-> <<"wrap", "assoc", "recv", "channel">>]

\* What is done for each kind of socket, in order; from "protoSize" to "protoSearch" it is
\* FindProtocolInfo, then WSASocket.
Steps ==
  [server   |-> <<"host", "protoSize", "protoList", "protoSearch", "socket", "assoc", "bind",
                  "listen", "accept", "channel">>,
   async    |-> <<"host", "my", "protoSize", "protoList", "protoSearch", "socket", "bind",
                  "assoc", "connectEx", "channel">>,
   blocking |-> <<"host", "my", "protoSize", "protoList", "protoSearch", "socket", "bind",
                  "connect", "assoc", "recv", "channel">>,
   wrap     |-> <<"wrap", "assoc", "recv", "channel">>]

AllSteps == UNION {ToSet(Steps[k]) : k \in Kinds}

\* What a client does between the address it will bind to and bind.
BeforeBind == {"protoSize", "protoList", "protoSearch", "socket"}

VARIABLES
  kind,     \* of socket, once the command is known
  emulated, \* what IocpInitProtocolData found
  at,       \* the next step, or "command", "error2", "error1", "done"
  failedAt, \* history: the step that sent the command to its labels, or "none"
  outcome,  \* of the command: "none", "error", "channel"
  catalog,  \* the buffer of FindProtocolInfo: "none", "held", "freed"
  host, my, \* hostaddr and mysockaddr: "none", "held", "freed"
  sock,     \* "none", "open", "closed"
  info,     \* the SocketInfo: "none", "live", "freed"
  bound,    \* the socket is associated with the completion port
  list,     \* "none", "recv" (llPendingRecv), "accept" (readyAccepts)
  net,      \* the connection: "none", "connecting", "up", "refused"
  buf,      \* the buffer of OP_CONNECT: "none", "held", "posted", "freed"
  job,      \* the ConnectJob of OurConnectEx: "none", "running", "freed", "leaked"
  ops,      \* outstandingOps
  posted,   \* the overlapped calls Winsock has, or whose completion is on the port
  flags,    \* IOCP_CLOSING, IOCP_CLOSABLE
  peer, local, \* remoteAddr and localAddr: "NULL", "zero" or "any", "real"
  fault     \* history: the first release of what is not held ("twice") or use of a freed
            \* SocketInfo ("stale"); "no" until then

request == <<kind, emulated>>
place   == <<at, failedAt>>
addrs   == <<host, my, catalog>>
socket  == <<sock, info, bound, list>>
connect == <<net, buf, job>>
counts  == <<ops, posted>>
caches  == <<peer, local>>
vars == <<request, place, outcome, addrs, socket, connect, counts, flags, caches, fault>>

Calls == {"accept", "recv", "connect", "disconnect"}

TypeOK ==
  /\ kind \in Kinds \cup {"none"} /\ emulated \in BOOLEAN
  /\ at \in AllSteps \cup {"command", "error2", "error1", "done"}
  /\ failedAt \in AllSteps \cup {"none"}
  /\ outcome \in {"none", "error", "channel"}
  /\ {host, my, catalog} \subseteq {"none", "held", "freed"}
  /\ sock \in {"none", "open", "closed"} /\ info \in {"none", "live", "freed"}
  /\ bound \in BOOLEAN /\ list \in {"none", "recv", "accept"}
  /\ net \in {"none", "connecting", "up", "refused"}
  /\ buf \in {"none", "held", "posted", "freed"}
  /\ job \in {"none", "running", "freed", "leaked"}
  /\ ops \in Nat /\ posted \in [Calls -> Nat]
  /\ flags \subseteq {"CLOSING", "CLOSABLE"}
  /\ peer \in {"NULL", "zero", "real"} /\ local \in {"NULL", "any", "real"}
  /\ fault \in {"no", "twice", "stale"}

Init ==
  /\ kind = "none" /\ emulated = FALSE
  /\ at = "command" /\ failedAt = "none" /\ outcome = "none"
  /\ host = "none" /\ my = "none" /\ catalog = "none"
  /\ sock = "none" /\ info = "none" /\ bound = FALSE /\ list = "none"
  /\ net = "none" /\ buf = "none" /\ job = "none"
  /\ ops = 0 /\ posted = [c \in Calls |-> 0]
  /\ flags = {} /\ peer = "NULL" /\ local = "NULL" /\ fault = "no"

-----------------------------------------------------------------------------
(* Helpers                                                                  *)

After(step) ==
  LET S == Steps[kind] n == CHOOSE k \in DOMAIN S : S[k] = step IN S[n + 1]

\* Mutant of Label: a listener that cannot be bound keeps its address list.
LabelTooLate(step) == "error1"

\* Mutant of Label: listen fails as bind does.
LabelTooSoon(step) ==
  IF step \in {"host", "accept", "connectEx", "connect", "recv"}
     \/ (step = "assoc" /\ kind = "blocking")
  THEN "error1" ELSE "error2"

\* Where CreateTcpSocket goes when the step fails: error2 frees hostaddr first.
Label(step) ==
  IF step \in {"host", "listen", "accept", "connectEx", "connect", "recv"}
     \/ (step = "assoc" /\ kind = "blocking")
  THEN "error1" ELSE "error2"

Does(step)  == at = step /\ at' = After(step) /\ UNCHANGED failedAt
Fails(step) == at = step /\ at' = Label(step) /\ failedAt' = step

\* The first fault is kept.
Faults(what, is) == fault' = IF fault = "no" /\ is THEN what ELSE fault

\* CreateSocketAddress for the step: getaddrinfo, for the family of the hints.
CreateSocketAddress(step, x) ==
  \/ Does(step) /\ x' = "held"
  \/ Fails(step) /\ UNCHANGED x

\* FreeSocketAddress
FreeAddress(x) == x' = "freed" /\ Faults("twice", x # "held")

Post(call) == ops' = ops + 1 /\ posted' = [posted EXCEPT ![call] = @ + 1]

\* FreeSocketInfo: NULL is accepted, the lists are drained.
FreeSocketInfo(closes) ==
  /\ info' = IF info = "none" THEN "none" ELSE "freed"
  /\ sock' = IF info # "none" /\ closes THEN "closed" ELSE sock
  /\ list' = "none"
  /\ Faults("twice", info = "freed")
  /\ UNCHANGED bound

-----------------------------------------------------------------------------
(* Iocp_SocketObjCmd and Iocp_MakeTcpClientChannel                           *)

Refused(opts) ==
  \/ {"-async", "-server"} \subseteq opts
  \/ {"-server", "-myport"} \subseteq opts

KindOf(opts) ==
  IF "-server" \in opts THEN "server" ELSE IF "-async" \in opts THEN "async" ELSE "blocking"

\* The extension functions, asked for once for each protocol.
IocpInitProtocolData == emulated' \in Emulations

\* The options, in any order, lead to a kind of socket, or are refused for what they
\* are or for the arguments that follow.
Command(opts) ==
  /\ at = "command" /\ kind' = KindOf(opts)
  /\ \/ ~Refused(opts) /\ at' = Steps[kind'][1] /\ UNCHANGED outcome
     \/ at' = "done" /\ outcome' = "error"
  /\ UNCHANGED <<failedAt, emulated, addrs, socket, connect, counts, flags, caches, fault>>

\* The socket is the caller's, connected: getpeername, IocpInitProtocolData,
\* NewSocketInfo.
Wrap ==
  /\ at = "command" /\ kind' = "wrap" /\ sock' = "open"
  /\ \/ /\ at' = "assoc" /\ info' = "live" /\ net' = "up"
        /\ IocpInitProtocolData /\ UNCHANGED <<outcome, failedAt>>
     \/ /\ at' = "done" /\ outcome' = "error" /\ failedAt' = "wrap"
        /\ UNCHANGED <<emulated, info, net>>
  /\ UNCHANGED <<addrs, bound, list, buf, job, counts, flags, caches, fault>>

\* The port refuses it: the SocketInfo is freed, the socket left to the caller.
WrapFails ==
  /\ at = "assoc" /\ kind = "wrap" /\ at' = "done" /\ outcome' = "error"
  /\ failedAt' = "assoc"
  /\ FreeSocketInfo(FALSE)
  /\ UNCHANGED <<request, addrs, connect, counts, flags, caches>>

-----------------------------------------------------------------------------
(* CreateTcpSocket                                                           *)

HostAddress ==
  /\ CreateSocketAddress("host", host)
  /\ UNCHANGED <<request, outcome, my, catalog, socket, connect, counts, flags, caches, fault>>

MyAddress ==
  /\ CreateSocketAddress("my", my)
  /\ UNCHANGED <<request, outcome, host, catalog, socket, connect, counts, flags, caches, fault>>

\* FindProtocolInfo: the size of the catalog, and the buffer for it.
ProtocolSize ==
  /\ \/ Does("protoSize") /\ catalog' = "held"
     \/ Fails("protoSize") /\ UNCHANGED catalog
  /\ UNCHANGED <<request, outcome, host, my, socket, connect, counts, flags, caches, fault>>

\* The catalog is read; when it cannot be the buffer is freed.
ProtocolList ==
  /\ \/ Does("protoList") /\ UNCHANGED catalog
     \/ Fails("protoList") /\ catalog' = "freed"
  /\ UNCHANGED <<request, outcome, host, my, socket, connect, counts, flags, caches, fault>>

\* It is searched, and freed whether the provider is there or not.
ProtocolSearch ==
  /\ Does("protoSearch") \/ Fails("protoSearch")
  /\ catalog' = "freed"
  /\ UNCHANGED <<request, outcome, host, my, socket, connect, counts, flags, caches, fault>>

\* WSASocket, IocpInitProtocolData, NewSocketInfo.
Socket ==
  /\ \/ Does("socket") /\ sock' = "open" /\ info' = "live" /\ IocpInitProtocolData
     \/ Fails("socket") /\ UNCHANGED <<sock, info, emulated>>
  /\ UNCHANGED <<kind, outcome, addrs, bound, list, connect, counts, flags, caches, fault>>

\* CreateIoCompletionPort.  An asynchronous connect has its buffer by now.
Associate ==
  /\ \/ Does("assoc") /\ bound' = TRUE
     \/ Fails("assoc") /\ kind # "wrap" /\ UNCHANGED bound
  /\ buf' = IF kind = "async" THEN "held" ELSE buf
  /\ UNCHANGED <<request, outcome, addrs, sock, info, list, net, job, counts, flags, caches,
                 fault>>

\* bind.  Both ways a listener has done with hostaddr and a client with mysockaddr,
\* but a listener that cannot bind leaves that to error2.
Bind ==
  /\ \/ Does("bind")
     \/ Fails("bind")
  /\ IF kind # "server" THEN FreeAddress(my) /\ UNCHANGED <<host, catalog>>
     ELSE IF at' = After("bind") THEN FreeAddress(host) /\ UNCHANGED <<my, catalog>>
     ELSE UNCHANGED <<addrs, fault>>
  /\ UNCHANGED <<request, outcome, socket, connect, counts, flags, caches>>

Listen ==
  /\ \/ Does("listen") /\ list' = "accept"
     \/ Fails("listen") /\ UNCHANGED list
  /\ UNCHANGED <<request, outcome, addrs, sock, info, bound, connect, counts, flags, caches,
                 fault>>

\* One turn of the loop; PostOverlappedAccept undoes its counts when it fails.
Accept ==
  /\ \/ /\ at = "accept" /\ Post("accept") /\ UNCHANGED failedAt
        /\ at' = IF posted'.accept = AcceptCap THEN After("accept") ELSE at
     \/ Fails("accept") /\ UNCHANGED counts
  /\ UNCHANGED <<request, outcome, addrs, socket, connect, flags, caches, fault>>

\* OurConnectEx starts a thread with a job, or cannot.
OurConnectEx(pends) ==
  /\ job' = IF pends THEN "running" ELSE "leaked"
  /\ net' = IF pends THEN "connecting" ELSE "refused"

\* _ConnectEx may be connected when it returns.
MsConnectEx(pends) ==
  /\ net' \in IF pends THEN {"connecting", "up"} ELSE {"refused"}
  /\ UNCHANGED job

ConnectEx ==
  /\ FreeAddress(host)
  /\ \E pends \in BOOLEAN :
       /\ IF pends THEN Does("connectEx") /\ Post("connect") /\ buf' = "posted"
          ELSE Fails("connectEx") /\ buf' = "freed" /\ UNCHANGED counts
       /\ IF emulated THEN OurConnectEx(pends) ELSE MsConnectEx(pends)
  /\ UNCHANGED <<request, outcome, my, catalog, socket, flags, caches>>

\* connect
Connect ==
  /\ FreeAddress(host)
  /\ \/ Does("connect") /\ net' = "up"
     \/ Fails("connect") /\ net' = "refused"
  /\ UNCHANGED <<request, outcome, my, catalog, socket, buf, job, counts, flags, caches>>

\* PostOverlappedRecv
FirstRecv ==
  /\ kind = "blocking"
  /\ \/ Does("recv") /\ Post("recv")
     \/ Fails("recv") /\ UNCHANGED counts
  /\ list' = "recv"
  /\ UNCHANGED <<request, outcome, addrs, sock, info, bound, connect, flags, caches, fault>>

\* For a wrapped socket an error is posted to the port by hand, so that it is read.
WrapRecv ==
  /\ kind = "wrap" /\ Does("recv") /\ Post("recv") /\ list' = "recv"
  /\ UNCHANGED <<request, outcome, addrs, sock, info, bound, connect, flags, caches, fault>>

Error2 ==
  /\ at = "error2" /\ at' = "error1"
  /\ FreeAddress(host)
  /\ UNCHANGED <<request, failedAt, outcome, my, catalog, socket, connect, counts, flags,
                 caches>>

Error1 ==
  /\ at = "error1" /\ at' = "done" /\ outcome' = "error"
  /\ FreeSocketInfo(TRUE)
  /\ UNCHANGED <<request, failedAt, addrs, connect, counts, flags, caches>>

-----------------------------------------------------------------------------
(* IocpClose2Proc                                                            *)

\* _DisconnectEx, or OurDisconnectEx, which posts the packet itself.
DisconnectEx == ops' = ops + 2 /\ posted' = [posted EXCEPT !.disconnect = 1]

Closes ==
  IF kind = "server"
  THEN flags' = {"CLOSING", "CLOSABLE"} /\ sock' = "closed" /\ UNCHANGED counts
  ELSE flags' = {"CLOSING"} /\ DisconnectEx /\ UNCHANGED sock

Made  == at = "channel" /\ at' = "done" /\ outcome' = "channel" /\ UNCHANGED <<flags, sock, counts>>
Unset == at = "channel" /\ at' = "done" /\ outcome' = "error" /\ Closes

\* Iocp_OpenTcpClient: Tcl_CreateChannel, and two options that may fail to be set.
ClientChannel ==
  /\ kind \in {"async", "blocking"} /\ (Made \/ Unset)
  /\ UNCHANGED <<request, failedAt, addrs, info, bound, list, connect, caches, fault>>

\* Iocp_OpenTcpServer: the accept procedure, the channel, and one option.
ServerChannel ==
  /\ kind = "server" /\ (Made \/ Unset)
  /\ UNCHANGED <<request, failedAt, addrs, info, bound, list, connect, caches, fault>>

\* The end of Iocp_MakeTcpClientChannel.
WrapChannel ==
  /\ kind = "wrap" /\ Made
  /\ UNCHANGED <<request, failedAt, addrs, info, bound, list, connect, caches, fault>>

IsOpen == outcome = "channel" /\ flags = {}

Close ==
  /\ IsOpen /\ Closes
  /\ UNCHANGED <<request, place, outcome, addrs, info, bound, list, connect, caches, fault>>

-----------------------------------------------------------------------------
(* The network and the completion thread                                     *)

NetDecides ==
  /\ net = "connecting" /\ job # "running" /\ net' \in {"up", "refused"}
  /\ UNCHANGED <<request, place, outcome, addrs, socket, buf, job, counts, flags, caches, fault>>

\* The thread of OurConnectEx connects, posts the packet and frees its job.
ConnectThread ==
  /\ job = "running" /\ net' \in {"up", "refused"} /\ job' = "freed"
  /\ UNCHANGED <<request, place, outcome, addrs, socket, buf, counts, flags, caches, fault>>

\* The end of HandleIo.
Done(lists) ==
  IF ops' = 0 /\ "CLOSABLE" \in flags'
  THEN FreeSocketInfo(TRUE)
  ELSE list' = lists /\ Faults("stale", info # "live") /\ UNCHANGED <<sock, info, bound>>

Returned(call) == posted' = [posted EXCEPT ![call] = @ - 1]
Reported(call) == posted[call] > 0 /\ bound /\ Returned(call)

\* OP_CONNECT: connected, it posts the first receive, unless the socket is closing.
HandleConnect ==
  /\ posted.connect > 0 /\ bound /\ net \in {"up", "refused"}
  /\ IF net = "up" /\ flags = {}
     THEN posted' = [posted EXCEPT !.connect = 0, !.recv = 1] /\ UNCHANGED ops
     ELSE Returned("connect") /\ ops' = ops - 1
  /\ buf' = "freed"
  /\ UNCHANGED flags
  /\ Done("recv")
  /\ UNCHANGED <<request, place, outcome, addrs, net, job, caches>>

\* OP_DISCONNECT
HandleDisconnect ==
  /\ Reported("disconnect") /\ ops' = ops - 2
  /\ flags' = flags \cup {"CLOSABLE"}
  /\ Done(list)
  /\ UNCHANGED <<request, place, outcome, addrs, connect, caches>>

\* A receive or an accept of a socket that is being closed, or that Error1 has freed: the
\* completion key still leads HandleIo to the SocketInfo.
HandleAborted(call) ==
  /\ flags # {} \/ info = "freed"
  /\ Reported(call) /\ ops' = ops - 1
  /\ IF info = "freed"
     THEN Faults("stale", TRUE) /\ UNCHANGED <<flags, socket>>
     ELSE flags' \in {flags, flags \cup {"CLOSABLE"}} /\ Done(list)
  /\ UNCHANGED <<request, place, outcome, addrs, connect, caches>>

-----------------------------------------------------------------------------
(* IocpGetOptionProc: -peername and -sockname ask Winsock once               *)

Connected == net = "up" /\ posted.connect = 0

\* getpeername may fail: the storage for its answer is kept all the same.
GetPeername ==
  /\ IsOpen /\ kind # "server" /\ peer = "NULL"
  /\ peer' = IF Connected THEN "real" ELSE "zero"
  /\ UNCHANGED <<request, place, outcome, addrs, socket, connect, counts, flags, local, fault>>

\* A client that is not connected is bound to the wildcard address.
GetSockname ==
  /\ IsOpen /\ local = "NULL"
  /\ local' = IF kind = "server" \/ Connected THEN "real" ELSE "any"
  /\ UNCHANGED <<request, place, outcome, addrs, socket, connect, counts, flags, peer, fault>>

Create ==
  \/ HostAddress \/ MyAddress \/ ProtocolSize \/ ProtocolList \/ ProtocolSearch
  \/ Socket \/ Associate \/ Bind \/ Listen \/ Accept
  \/ ConnectEx \/ Connect \/ FirstRecv \/ Error2 \/ Error1
  \/ ClientChannel \/ ServerChannel \/ Wrap \/ WrapFails \/ WrapRecv \/ WrapChannel
  \/ \E opts \in SUBSET Options : Command(opts)

CompletionThread ==
  HandleConnect \/ HandleDisconnect \/ \E call \in {"accept", "recv"} : HandleAborted(call)

Next ==
  \/ Create \/ Close \/ GetPeername \/ GetSockname
  \/ NetDecides \/ ConnectThread \/ CompletionThread

Spec == Init /\ [][Next]_vars

-----------------------------------------------------------------------------
(* Properties                                                               *)

\* What is left of a command that has ended, at whichever call it failed: nothing of its
\* host's addresses, of the catalog and of its SocketInfo, but for what an orderly close
\* still frees, and a socket that was the caller's is the caller's again, open.  And
\* exactly what the code loses: the address a client would have bound to, when it fails
\* before bind; the connect's buffer, when the port refuses an asynchronous client; the
\* job of OurConnectEx, when its thread cannot be started.
CommandRemains ==
  at = "done" =>
    /\ host # "held" /\ catalog # "held"
    /\ (my = "held") <=> (kind # "server" /\ failedAt \in BeforeBind)
    /\ (buf = "held") <=> (kind = "async" /\ failedAt = "assoc")
    /\ (job = "leaked") <=> (emulated /\ failedAt = "connectEx")
    /\ outcome = "error" =>
         /\ info = "live" => flags # {}
         /\ IF kind = "wrap" THEN sock # "closed" ELSE sock = "open" => info = "live"

\* No address list is freed twice or before it exists and no SocketInfo is freed twice,
\* whichever label of CreateTcpSocket a failure jumps to; and a SocketInfo that is freed
\* is used again only by the AcceptEx calls of a listener that were posted before a later
\* one failed (ws2tcp.c:580-583), which the completion thread still handles.
NothingTwice == fault # "no" => fault = "stale" /\ failedAt = "accept"

\* What Winsock has of a client will be reported, to a SocketInfo that still lives.
\* (A listener whose nth AcceptEx fails breaks it: Error1 frees with n-1 posted.)
PostsAreHeard ==
  kind # "server" /\ (\E call \in Calls : posted[call] > 0) => info = "live" /\ bound

\* As PostsAreHeard for listeners.  Broken by the code.
AcceptsAreHeard ==
  posted.accept > 0 => info = "live" /\ bound

\* A command leaves neither its local address list nor a buffer nor a job behind.
\* Broken by the code, in the ways CommandRemains names.
NothingLeaks ==
  at = "done" => my # "held" /\ buf # "held" /\ job # "leaked"

\* -peername and -sockname answer for the connection that is there.  Broken by the
\* code when asked before an asynchronous connect has ended: the answer stays.
NamesAreCurrent ==
  Connected /\ IsOpen => peer # "zero" /\ local # "any"
=============================================================================
