--------------------------- MODULE CommandsProofs ---------------------------
(***************************************************************************)
(* Proofs about Commands, for every set of errors, caps and bounds: socket2       *)
(* (CreateInv), the options of a listener (OptionsInv), the IrDA commands          *)
(* (IrdaInv) and the resolver (NameInv), and then all of them together.            *)
(*                                                                          *)
(* What the properties say holds when a command ends, or between two requests;     *)
(* the invariants say what is held at each place on the way there.  For socket2     *)
(* that is which label of CreateTcpSocket a failing call may jump to               *)
(* (AddressesOK, SocketOK), what it loses by that (FailedOK, LeaksOK), and that     *)
(* outstandingOps counts what Winsock has (PostsOK), so that the SocketInfo goes    *)
(* with the last completion and not before, unless an AcceptEx fails behind others.  *)
(* For the options it is which of the three writes of IocpSetRecvMode are done      *)
(* (SaidIsSet), and which fields of the accepted socket are copied (ChildOK).       *)
(***************************************************************************)
EXTENDS Commands, SequenceTheorems, TLAPS

-----------------------------------------------------------------------------
(* socket2: what follows each step                                           *)

\* After, for each step of each kind of socket.
LEMMA AfterServer ==
  ASSUME kind = "server"
  PROVE  /\ After("host") = "protoSize" /\ After("protoSize") = "protoList"
         /\ After("protoList") = "protoSearch" /\ After("protoSearch") = "socket"
         /\ After("socket") = "assoc" /\ After("assoc") = "bind" /\ After("bind") = "listen"
         /\ After("listen") = "accept" /\ After("accept") = "channel"
BY DEF After, Steps

LEMMA AfterAsync ==
  ASSUME kind = "async"
  PROVE  /\ After("host") = "my" /\ After("my") = "protoSize" /\ After("protoSize") = "protoList"
         /\ After("protoList") = "protoSearch" /\ After("protoSearch") = "socket"
         /\ After("socket") = "bind" /\ After("bind") = "assoc"
         /\ After("assoc") = "connectEx" /\ After("connectEx") = "channel"
BY DEF After, Steps

LEMMA AfterBlocking ==
  ASSUME kind = "blocking"
  PROVE  /\ After("host") = "my" /\ After("my") = "protoSize" /\ After("protoSize") = "protoList"
         /\ After("protoList") = "protoSearch" /\ After("protoSearch") = "socket"
         /\ After("socket") = "bind" /\ After("bind") = "connect"
         /\ After("connect") = "assoc" /\ After("assoc") = "recv" /\ After("recv") = "channel"
BY DEF After, Steps

LEMMA AfterWrap ==
  ASSUME kind = "wrap"
  PROVE  After("assoc") = "recv" /\ After("recv") = "channel"
BY DEF After, Steps

-----------------------------------------------------------------------------
(* The invariant of socket2                                                  *)

Opening == {"host", "my", "protoSize", "protoList", "protoSearch", "socket"}
Refusal == {"error2", "error1", "done"}

\* The command is at a step of its kind of socket, at a label, or done.
PlaceOK ==
  /\ \/ kind = "none" /\ at = "command"
     \/ kind = "server"
        /\ at \in (Opening \ {"my"}) \cup {"assoc", "bind", "listen", "accept", "channel"}
                 \cup Refusal
     \/ kind = "async"
        /\ at \in Opening \cup {"bind", "assoc", "connectEx", "channel"} \cup Refusal
     \/ kind = "blocking"
        /\ at \in Opening \cup {"bind", "connect", "assoc", "recv", "channel"} \cup Refusal
     \/ kind = "wrap" /\ at \in {"assoc", "recv", "channel", "done"}
  /\ outcome # "none" <=> at = "done"
  /\ at # "done" => flags = {}

\* Which label frees hostaddr: it is held wherever a failure leads to error2 or the
\* next call will free it, and nowhere else at error1.
AddressesOK ==
  /\ host = "held" <=>
       \/ at \in {"my", "protoSize", "protoList", "protoSearch", "socket", "bind", "connect",
                 "connectEx", "error2"}
       \/ at = "assoc" /\ kind \in {"server", "async"}
  /\ catalog = "held" <=> at \in {"protoList", "protoSearch"}

NoSocket == sock = "none" /\ info = "none"
HasSocket == sock = "open" /\ info = "live"

\* There is a socket and its SocketInfo, or neither, until the command has ended.
SocketOK ==
  /\ at \in Opening \cup {"command"} => NoSocket
  /\ at \notin Opening \cup Refusal \cup {"command"} => HasSocket
  /\ at \in {"error1", "error2"} => NoSocket \/ HasSocket
  /\ outcome = "channel" \/ flags # {} => bound /\ info # "none"
  /\ outcome = "channel" /\ flags = {} => info = "live"
  /\ at = "done" /\ kind # "wrap" /\ info # "live" => sock # "open"
  /\ kind = "wrap" /\ outcome = "error" => flags = {} /\ sock = "open"
  /\ outcome = "error" /\ flags = {} => info # "live"

\* The steps that come when the port knows the socket.
BoundOK ==
  /\ kind = "server" /\ at \in {"bind", "listen", "accept", "channel"} => bound
  /\ kind = "async" /\ at \in {"connectEx", "channel"} => bound
  /\ kind \in {"blocking", "wrap"} /\ at \in {"recv", "channel"} => bound

\* A step that failed led to a label, and nothing is open or closing after it.
FailedOK ==
  /\ failedAt # "none" => at \in Refusal /\ flags = {} /\ outcome # "channel"
  /\ kind = "wrap" => failedAt \in {"none", "wrap", "assoc"}

\* A client's own address is held until bind and no longer, the buffer of its connect until
\* ConnectEx; a label frees neither, nor the job of a thread that could not be started.
LeaksOK ==
  /\ my = "held" <=>
       /\ kind \in {"async", "blocking"}
       /\ \/ at \in BeforeBind \cup {"bind"}
          \/ at \in Refusal /\ failedAt \in BeforeBind
  /\ buf = "held" <=> (kind = "async" /\ (at = "connectEx" \/ failedAt = "assoc"))
  /\ job = "leaked" <=> (emulated /\ failedAt = "connectEx")

\* outstandingOps counts what Winsock has, a disconnect for two; and what it counts keeps
\* the SocketInfo alive, but for the AcceptEx calls posted before one that failed.
PostsOK ==
  /\ ops = posted.accept + posted.recv + posted.connect + 2 * posted.disconnect
  /\ flags = {} => posted.disconnect = 0
  /\ at \notin {"accept", "channel", "done"} /\ (kind # "server" \/ at # "error1") => ops = 0
  /\ ops > 0 /\ (kind # "server" \/ flags # {}) => info = "live" /\ bound
  /\ posted.connect > 0 => kind = "async" /\ posted.connect = 1 /\ posted.recv = 0
  /\ ops > 0 /\ (at = "error1" \/ info = "freed") => failedAt = "accept"
  /\ ops > 0 /\ failedAt # "none" => kind = "server" /\ failedAt = "accept"

CreateInv == TypeOK /\ PlaceOK /\ AddressesOK /\ SocketOK /\ BoundOK /\ FailedOK /\ LeaksOK /\ PostsOK
             /\ NothingTwice

LEMMA PlacesAre ==
  AllSteps = {"host", "my", "protoSize", "protoList", "protoSearch", "socket", "assoc", "bind",
              "connectEx", "connect", "listen", "accept", "recv", "channel", "wrap"}
<1>1. DOMAIN Steps = Kinds
  BY DEF Steps, Kinds
<1>2. AllSteps = ToSet(Steps["server"]) \cup ToSet(Steps["async"]) \cup ToSet(Steps["blocking"])
                 \cup ToSet(Steps["wrap"])
  BY DEF AllSteps, Kinds
<1>3. ToSet(Steps["server"]) = {"host", "protoSize", "protoList", "protoSearch", "socket", "assoc",
                                "bind", "listen", "accept", "channel"}
  BY DEF ToSet, Steps
<1>4. ToSet(Steps["async"]) = {"host", "my", "protoSize", "protoList", "protoSearch", "socket",
                               "bind", "assoc", "connectEx", "channel"}
  BY DEF ToSet, Steps
<1>5. ToSet(Steps["blocking"]) = {"host", "my", "protoSize", "protoList", "protoSearch", "socket",
                                  "bind", "connect", "assoc", "recv", "channel"}
  BY DEF ToSet, Steps
<1>6. ToSet(Steps["wrap"]) = {"wrap", "assoc", "recv", "channel"}
  BY DEF ToSet, Steps
<1>7. QED BY <1>2, <1>3, <1>4, <1>5, <1>6

LEMMA AfterIs ==
  ASSUME PlaceOK
  PROVE  /\ at = "host" => After("host") = IF kind = "server" THEN "protoSize" ELSE "my"
         /\ at = "my" => After("my") = "protoSize"
         /\ at = "protoSize" => After("protoSize") = "protoList"
         /\ at = "protoList" => After("protoList") = "protoSearch"
         /\ at = "protoSearch" => After("protoSearch") = "socket"
         /\ at = "socket" => After("socket") = IF kind = "server" THEN "assoc" ELSE "bind"
         /\ at = "assoc" => After("assoc") = IF kind = "server" THEN "bind"
                                            ELSE IF kind = "async" THEN "connectEx" ELSE "recv"
         /\ at = "bind" => After("bind") = IF kind = "server" THEN "listen"
                                          ELSE IF kind = "async" THEN "assoc" ELSE "connect"
         /\ at = "listen" => After("listen") = "accept"
         /\ at = "accept" => After("accept") = "channel"
         /\ at = "connectEx" => After("connectEx") = "channel"
         /\ at = "connect" => After("connect") = "assoc"
         /\ at = "recv" => After("recv") = "channel"
BY AfterServer, AfterAsync, AfterBlocking, AfterWrap DEF PlaceOK, Opening, Refusal

LEMMA PostIs ==
  ASSUME TypeOK, NEW call \in Calls, Post(call)
  PROVE  /\ ops' = ops + 1 /\ posted' \in [Calls -> Nat]
         /\ posted'[call] = posted[call] + 1
         /\ \A other \in Calls \ {call} : posted'[other] = posted[other]
BY DEF Post, TypeOK

LEMMA ReturnedIs ==
  ASSUME TypeOK, NEW call \in Calls, Returned(call), posted[call] > 0
  PROVE  /\ posted' \in [Calls -> Nat]
         /\ posted'[call] = posted[call] - 1
         /\ \A other \in Calls \ {call} : posted'[other] = posted[other]
BY DEF Returned, TypeOK

LEMMA CreateInvInit ==
  ASSUME Init
  PROVE  CreateInv
<1> USE DEF Init, NoSocket, Opening, Refusal, BeforeBind, Calls, Kinds
<1>1. TypeOK
  BY DEF TypeOK
<1>2. PlaceOK /\ AddressesOK
  BY DEF PlaceOK, AddressesOK
<1>3. SocketOK
  BY DEF SocketOK
<1>4. BoundOK
  BY DEF BoundOK
<1>5. FailedOK /\ LeaksOK
  BY DEF FailedOK, LeaksOK
<1>6. PostsOK
  BY DEF PostsOK
<1>7. NothingTwice
  BY DEF NothingTwice
<1>8. QED BY <1>1, <1>2, <1>3, <1>4, <1>5, <1>6, <1>7 DEF CreateInv

-----------------------------------------------------------------------------
(* The steps of socket2, one by one                                           *)

USE DEF request, place, addrs, socket, connect, counts, caches

\* getaddrinfo for the host.
LEMMA HostAddressKeeps ==
  ASSUME CreateInv, HostAddress
  PROVE  CreateInv'
<1> USE AfterIs DEF CreateInv, HostAddress, CreateSocketAddress, Does, Fails, Label
<1>1. TypeOK'
  BY PlacesAre, CreateAssumption DEF TypeOK, PlaceOK, Opening, Refusal, Calls, Kinds
<1>2. PlaceOK'
  BY DEF PlaceOK, Opening, Refusal
<1>3. AddressesOK'
  BY DEF PlaceOK, AddressesOK, Opening, Refusal
<1>4. SocketOK'
  BY DEF PlaceOK, SocketOK, BoundOK, NoSocket, HasSocket, Opening, Refusal
<1>5. BoundOK'
  BY DEF PlaceOK, BoundOK, Opening, Refusal
<1>6. PostsOK'
  BY DEF TypeOK, PlaceOK, SocketOK, BoundOK, FailedOK, PostsOK, NoSocket, HasSocket, Calls,
     Opening, Refusal
<1>7. FailedOK' /\ LeaksOK'
  BY DEF PlaceOK, SocketOK, FailedOK, LeaksOK, PostsOK, BeforeBind, Opening, Refusal
<1>8. NothingTwice'
  BY DEF PlaceOK, AddressesOK, SocketOK, FailedOK, LeaksOK, NothingTwice, Faults, NoSocket, HasSocket,
     BeforeBind, Opening, Refusal
<1>9. QED BY <1>1, <1>2, <1>3, <1>4, <1>5, <1>6, <1>7, <1>8

\* getaddrinfo for -myaddr and -myport.
LEMMA MyAddressKeeps ==
  ASSUME CreateInv, MyAddress
  PROVE  CreateInv'
<1> USE AfterIs DEF CreateInv, MyAddress, CreateSocketAddress, Does, Fails, Label
<1>1. TypeOK'
  BY PlacesAre, CreateAssumption DEF TypeOK, PlaceOK, Opening, Refusal, Calls, Kinds
<1>2. PlaceOK'
  BY DEF PlaceOK, Opening, Refusal
<1>3. AddressesOK'
  BY DEF PlaceOK, AddressesOK, Opening, Refusal
<1>4. SocketOK'
  BY DEF PlaceOK, SocketOK, BoundOK, NoSocket, HasSocket, Opening, Refusal
<1>5. BoundOK'
  BY DEF PlaceOK, BoundOK, Opening, Refusal
<1>6. PostsOK'
  BY DEF TypeOK, PlaceOK, SocketOK, BoundOK, FailedOK, PostsOK, NoSocket, HasSocket, Calls,
     Opening, Refusal
<1>7. FailedOK' /\ LeaksOK'
  BY DEF PlaceOK, SocketOK, FailedOK, LeaksOK, PostsOK, BeforeBind, Opening, Refusal
<1>8. NothingTwice'
  BY DEF PlaceOK, AddressesOK, SocketOK, FailedOK, LeaksOK, NothingTwice, Faults, NoSocket, HasSocket,
     BeforeBind, Opening, Refusal
<1>9. QED BY <1>1, <1>2, <1>3, <1>4, <1>5, <1>6, <1>7, <1>8

\* FindProtocolInfo.
LEMMA ProtocolSizeKeeps ==
  ASSUME CreateInv, ProtocolSize
  PROVE  CreateInv'
<1> USE AfterIs DEF CreateInv, ProtocolSize, Does, Fails, Label
<1>1. TypeOK'
  BY PlacesAre, CreateAssumption DEF TypeOK, PlaceOK, Opening, Refusal, Calls, Kinds
<1>2. PlaceOK'
  BY DEF PlaceOK, Opening, Refusal
<1>3. AddressesOK'
  BY DEF PlaceOK, AddressesOK, Opening, Refusal
<1>4. SocketOK'
  BY DEF PlaceOK, SocketOK, BoundOK, NoSocket, HasSocket, Opening, Refusal
<1>5. BoundOK'
  BY DEF PlaceOK, BoundOK, Opening, Refusal
<1>6. PostsOK'
  BY DEF TypeOK, PlaceOK, SocketOK, BoundOK, FailedOK, PostsOK, NoSocket, HasSocket, Calls,
     Opening, Refusal
<1>7. FailedOK' /\ LeaksOK'
  BY DEF PlaceOK, SocketOK, FailedOK, LeaksOK, PostsOK, BeforeBind, Opening, Refusal
<1>8. NothingTwice'
  BY DEF PlaceOK, AddressesOK, SocketOK, FailedOK, LeaksOK, NothingTwice, Faults, NoSocket, HasSocket,
     BeforeBind, Opening, Refusal
<1>9. QED BY <1>1, <1>2, <1>3, <1>4, <1>5, <1>6, <1>7, <1>8

LEMMA ProtocolListKeeps ==
  ASSUME CreateInv, ProtocolList
  PROVE  CreateInv'
<1> USE AfterIs DEF CreateInv, ProtocolList, Does, Fails, Label
<1>1. TypeOK'
  BY PlacesAre, CreateAssumption DEF TypeOK, PlaceOK, Opening, Refusal, Calls, Kinds
<1>2. PlaceOK'
  BY DEF PlaceOK, Opening, Refusal
<1>3. AddressesOK'
  BY DEF PlaceOK, AddressesOK, Opening, Refusal
<1>4. SocketOK'
  BY DEF PlaceOK, SocketOK, BoundOK, NoSocket, HasSocket, Opening, Refusal
<1>5. BoundOK'
  BY DEF PlaceOK, BoundOK, Opening, Refusal
<1>6. PostsOK'
  BY DEF TypeOK, PlaceOK, SocketOK, BoundOK, FailedOK, PostsOK, NoSocket, HasSocket, Calls,
     Opening, Refusal
<1>7. FailedOK' /\ LeaksOK'
  BY DEF PlaceOK, SocketOK, FailedOK, LeaksOK, PostsOK, BeforeBind, Opening, Refusal
<1>8. NothingTwice'
  BY DEF PlaceOK, AddressesOK, SocketOK, FailedOK, LeaksOK, NothingTwice, Faults, NoSocket, HasSocket,
     BeforeBind, Opening, Refusal
<1>9. QED BY <1>1, <1>2, <1>3, <1>4, <1>5, <1>6, <1>7, <1>8

LEMMA ProtocolSearchKeeps ==
  ASSUME CreateInv, ProtocolSearch
  PROVE  CreateInv'
<1> USE AfterIs DEF CreateInv, ProtocolSearch, Does, Fails, Label
<1>1. TypeOK'
  BY PlacesAre, CreateAssumption DEF TypeOK, PlaceOK, Opening, Refusal, Calls, Kinds
<1>2. PlaceOK'
  BY DEF PlaceOK, Opening, Refusal
<1>3. AddressesOK'
  BY DEF PlaceOK, AddressesOK, Opening, Refusal
<1>4. SocketOK'
  BY DEF PlaceOK, SocketOK, BoundOK, NoSocket, HasSocket, Opening, Refusal
<1>5. BoundOK'
  BY DEF PlaceOK, BoundOK, Opening, Refusal
<1>6. PostsOK'
  BY DEF TypeOK, PlaceOK, SocketOK, BoundOK, FailedOK, PostsOK, NoSocket, HasSocket, Calls,
     Opening, Refusal
<1>7. FailedOK' /\ LeaksOK'
  BY DEF PlaceOK, SocketOK, FailedOK, LeaksOK, PostsOK, BeforeBind, Opening, Refusal
<1>8. NothingTwice'
  BY DEF PlaceOK, AddressesOK, SocketOK, FailedOK, LeaksOK, NothingTwice, Faults, NoSocket, HasSocket,
     BeforeBind, Opening, Refusal
<1>9. QED BY <1>1, <1>2, <1>3, <1>4, <1>5, <1>6, <1>7, <1>8

\* WSASocket and NewSocketInfo.
LEMMA SocketKeeps ==
  ASSUME CreateInv, Socket
  PROVE  CreateInv'
<1> USE AfterIs DEF CreateInv, Socket, Does, IocpInitProtocolData, Fails, Label
<1>1. TypeOK'
  <2>1. emulated' \in BOOLEAN /\ bound' \in BOOLEAN /\ fault' \in {"no", "twice", "stale"}
    BY CreateAssumption DEF TypeOK, Faults
  <2>2. QED BY <2>1, PlacesAre DEF TypeOK, PlaceOK, Opening, Refusal, Calls, Kinds
<1>2. PlaceOK'
  BY DEF PlaceOK, Opening, Refusal
<1>3. AddressesOK'
  BY DEF PlaceOK, AddressesOK, Opening, Refusal
<1>4. SocketOK'
  BY DEF PlaceOK, SocketOK, BoundOK, NoSocket, HasSocket, Opening, Refusal
<1>5. BoundOK'
  BY DEF PlaceOK, BoundOK, Opening, Refusal
<1>6. PostsOK'
  BY DEF TypeOK, PlaceOK, SocketOK, BoundOK, FailedOK, PostsOK, NoSocket, HasSocket, Calls,
     Opening, Refusal
<1>7. FailedOK' /\ LeaksOK'
  BY DEF PlaceOK, SocketOK, FailedOK, LeaksOK, PostsOK, BeforeBind, Opening, Refusal
<1>8. NothingTwice'
  BY DEF PlaceOK, AddressesOK, SocketOK, FailedOK, LeaksOK, NothingTwice, Faults, NoSocket, HasSocket,
     BeforeBind, Opening, Refusal
<1>9. QED BY <1>1, <1>2, <1>3, <1>4, <1>5, <1>6, <1>7, <1>8

\* CreateIoCompletionPort.
LEMMA AssociateKeeps ==
  ASSUME CreateInv, Associate
  PROVE  CreateInv'
<1> USE AfterIs DEF CreateInv, Associate, Does, Fails, Label
<1>1. TypeOK'
  <2>1. emulated' \in BOOLEAN /\ bound' \in BOOLEAN /\ fault' \in {"no", "twice", "stale"}
    BY CreateAssumption DEF TypeOK, Faults
  <2>2. QED BY <2>1, PlacesAre DEF TypeOK, PlaceOK, Opening, Refusal, Calls, Kinds
<1>2. PlaceOK'
  BY DEF PlaceOK, Opening, Refusal
<1>3. AddressesOK'
  BY DEF PlaceOK, AddressesOK, Opening, Refusal
<1>4. SocketOK'
  BY DEF PlaceOK, SocketOK, BoundOK, NoSocket, HasSocket, Opening, Refusal
<1>5. BoundOK'
  BY DEF PlaceOK, BoundOK, Opening, Refusal
<1>6. PostsOK'
  BY DEF TypeOK, PlaceOK, SocketOK, BoundOK, FailedOK, PostsOK, NoSocket, HasSocket, Calls,
     Opening, Refusal
<1>7. FailedOK' /\ LeaksOK'
  BY DEF PlaceOK, SocketOK, FailedOK, LeaksOK, PostsOK, BeforeBind, Opening, Refusal
<1>8. NothingTwice'
  BY DEF PlaceOK, AddressesOK, SocketOK, FailedOK, LeaksOK, NothingTwice, Faults, NoSocket, HasSocket,
     BeforeBind, Opening, Refusal
<1>9. QED BY <1>1, <1>2, <1>3, <1>4, <1>5, <1>6, <1>7, <1>8

\* bind.
LEMMA BindKeeps ==
  ASSUME CreateInv, Bind
  PROVE  CreateInv'
<1> USE AfterIs DEF CreateInv, Bind, Does, Fails, Label, FreeAddress, Faults
<1>1. TypeOK'
  <2>1. emulated' \in BOOLEAN /\ bound' \in BOOLEAN /\ fault' \in {"no", "twice", "stale"}
    BY CreateAssumption DEF TypeOK, Faults
  <2>2. QED BY <2>1, PlacesAre DEF TypeOK, PlaceOK, Opening, Refusal, Calls, Kinds
<1>2. PlaceOK'
  BY DEF PlaceOK, Opening, Refusal
<1>3. AddressesOK'
  BY DEF PlaceOK, AddressesOK, Opening, Refusal
<1>4. SocketOK'
  BY DEF PlaceOK, SocketOK, BoundOK, NoSocket, HasSocket, Opening, Refusal
<1>5. BoundOK'
  BY DEF PlaceOK, BoundOK, Opening, Refusal
<1>6. PostsOK'
  BY DEF TypeOK, PlaceOK, SocketOK, BoundOK, FailedOK, PostsOK, NoSocket, HasSocket, Calls,
     Opening, Refusal
<1>7. FailedOK' /\ LeaksOK'
  BY DEF PlaceOK, SocketOK, FailedOK, LeaksOK, PostsOK, BeforeBind, Opening, Refusal
<1>8. NothingTwice'
  BY DEF PlaceOK, AddressesOK, SocketOK, FailedOK, LeaksOK, NothingTwice, Faults, NoSocket, HasSocket,
     BeforeBind, Opening, Refusal
<1>9. QED BY <1>1, <1>2, <1>3, <1>4, <1>5, <1>6, <1>7, <1>8

\* listen.
LEMMA ListenKeeps ==
  ASSUME CreateInv, Listen
  PROVE  CreateInv'
<1> USE AfterIs DEF CreateInv, Listen, Does, Fails, Label
<1>1. TypeOK'
  BY PlacesAre, CreateAssumption DEF TypeOK, PlaceOK, Opening, Refusal, Calls, Kinds
<1>2. PlaceOK'
  BY DEF PlaceOK, Opening, Refusal
<1>3. AddressesOK'
  BY DEF PlaceOK, AddressesOK, Opening, Refusal
<1>4. SocketOK'
  BY DEF PlaceOK, SocketOK, BoundOK, NoSocket, HasSocket, Opening, Refusal
<1>5. BoundOK'
  BY DEF PlaceOK, BoundOK, Opening, Refusal
<1>6. PostsOK'
  BY DEF TypeOK, PlaceOK, SocketOK, BoundOK, FailedOK, PostsOK, NoSocket, HasSocket, Calls,
     Opening, Refusal
<1>7. FailedOK' /\ LeaksOK'
  BY DEF PlaceOK, SocketOK, FailedOK, LeaksOK, PostsOK, BeforeBind, Opening, Refusal
<1>8. NothingTwice'
  BY DEF PlaceOK, AddressesOK, SocketOK, FailedOK, LeaksOK, NothingTwice, Faults, NoSocket, HasSocket,
     BeforeBind, Opening, Refusal
<1>9. QED BY <1>1, <1>2, <1>3, <1>4, <1>5, <1>6, <1>7, <1>8

\* The AcceptEx loop.
LEMMA AcceptKeeps ==
  ASSUME CreateInv, Accept
  PROVE  CreateInv'
<1> USE AfterIs DEF CreateInv, Accept, Fails, Label
<1>1. TypeOK'
  <2>1. CASE Post("accept")
    BY <2>1, PostIs, PlacesAre DEF TypeOK, PlaceOK, Opening, Refusal, Calls, Kinds
  <2>2. CASE UNCHANGED counts
    BY <2>2, PlacesAre DEF TypeOK, PlaceOK, Opening, Refusal, Calls, Kinds
  <2>3. QED BY <2>1, <2>2
<1>2. PlaceOK'
  BY DEF PlaceOK, Opening, Refusal
<1>3. AddressesOK'
  BY DEF PlaceOK, AddressesOK, Opening, Refusal
<1>4. SocketOK'
  BY DEF PlaceOK, SocketOK, BoundOK, NoSocket, HasSocket, Opening, Refusal
<1>5. BoundOK'
  BY DEF PlaceOK, BoundOK, Opening, Refusal
<1>6. PostsOK'
  <2>1. /\ at = "accept" /\ kind = "server" /\ flags = {} /\ info = "live" /\ failedAt = "none"
        /\ UNCHANGED <<kind, flags, info>>
        /\ \/ at' \in {"accept", "channel"} /\ failedAt' = "none"
           \/ at' = "error1" /\ failedAt' = "accept"
    BY DEF PlaceOK, SocketOK, HasSocket, FailedOK, Opening, Refusal
  <2>2. posted.accept \in Nat /\ posted.recv \in Nat /\ posted.connect \in Nat
        /\ posted.disconnect \in Nat /\ ops \in Nat
    BY DEF TypeOK, Calls
  <2>3. CASE Post("accept")
    <3>1. /\ ops' = ops + 1 /\ posted'.accept = posted.accept + 1
          /\ posted'.recv = posted.recv /\ posted'.connect = posted.connect
          /\ posted'.disconnect = posted.disconnect
      BY <2>3, PostIs DEF Calls
    <3>2. QED BY <2>1, <2>2, <3>1 DEF PostsOK
  <2>4. CASE UNCHANGED counts
    BY <2>1, <2>2, <2>4 DEF PostsOK
  <2>5. QED BY <2>3, <2>4
<1>7. FailedOK' /\ LeaksOK'
  BY DEF PlaceOK, SocketOK, FailedOK, LeaksOK, PostsOK, BeforeBind, Opening, Refusal
<1>8. NothingTwice'
  BY DEF PlaceOK, AddressesOK, SocketOK, FailedOK, LeaksOK, NothingTwice, Faults, NoSocket, HasSocket,
     BeforeBind, Opening, Refusal
<1>9. QED BY <1>1, <1>2, <1>3, <1>4, <1>5, <1>6, <1>7, <1>8

\* ConnectEx, or what stands in for it.
LEMMA ConnectExKeeps ==
  ASSUME CreateInv, ConnectEx
  PROVE  CreateInv'
<1> USE AfterIs DEF CreateInv, ConnectEx, FreeAddress, Faults, Does, Fails, Label, OurConnectEx,
    MsConnectEx
<1>1. TypeOK'
  <2>1. CASE Post("connect")
    BY <2>1, PostIs, PlacesAre DEF TypeOK, PlaceOK, Opening, Refusal, Calls, Kinds
  <2>2. CASE UNCHANGED counts
    BY <2>2, PlacesAre DEF TypeOK, PlaceOK, Opening, Refusal, Calls, Kinds
  <2>3. QED BY <2>1, <2>2
<1>2. PlaceOK'
  BY DEF PlaceOK, Opening, Refusal
<1>3. AddressesOK'
  BY DEF PlaceOK, AddressesOK, Opening, Refusal
<1>4. SocketOK'
  BY DEF PlaceOK, SocketOK, BoundOK, NoSocket, HasSocket, Opening, Refusal
<1>5. BoundOK'
  BY DEF PlaceOK, BoundOK, Opening, Refusal
<1>6. PostsOK'
  <2>1. at = "connectEx" /\ kind = "async" /\ flags = {} /\ ops = 0 /\ HasSocket /\ bound
        /\ failedAt = "none" /\ UNCHANGED <<kind, flags, info, bound>>
    BY DEF PlaceOK, SocketOK, BoundOK, FailedOK, PostsOK, Opening, Refusal
  <2>2. posted.accept \in Nat /\ posted.recv \in Nat /\ posted.connect \in Nat
        /\ posted.disconnect \in Nat
    BY DEF TypeOK, Calls
  <2>3. CASE Post("connect") /\ at' = "channel" /\ failedAt' = failedAt
    <3>1. /\ ops' = ops + 1 /\ posted'.connect = posted.connect + 1
          /\ posted'.accept = posted.accept /\ posted'.recv = posted.recv
          /\ posted'.disconnect = posted.disconnect
      BY <2>3, PostIs DEF Calls
    <3>2. ops = posted.accept + posted.recv + posted.connect + 2 * posted.disconnect
          /\ posted.disconnect = 0
      BY <2>1 DEF PostsOK
    <3>3. posted.recv = 0 /\ posted.connect = 0
      <4>1. \A a, r, c \in Nat : 0 = a + r + c => r = 0 /\ c = 0
        OBVIOUS
      <4>2. 0 = posted.accept + posted.recv + posted.connect
        BY <2>1, <2>2, <3>2
      <4>3. QED BY <2>2, <4>1, <4>2
    <3>4. ops' = posted'.accept + posted'.recv + posted'.connect + 2 * posted'.disconnect
      BY <2>1, <2>2, <3>1, <3>2
    <3>5. QED BY <2>1, <2>3, <3>1, <3>2, <3>3, <3>4 DEF PostsOK, HasSocket
  <2>4. CASE UNCHANGED counts /\ at' = "error1"
    BY <2>1, <2>2, <2>4 DEF PostsOK
  <2>5. QED BY <2>3, <2>4 DEF PlaceOK, Opening, Refusal
<1>7. FailedOK' /\ LeaksOK'
  BY DEF PlaceOK, SocketOK, FailedOK, LeaksOK, PostsOK, BeforeBind, Opening, Refusal
<1>8. NothingTwice'
  BY DEF PlaceOK, AddressesOK, SocketOK, FailedOK, LeaksOK, NothingTwice, Faults, NoSocket, HasSocket,
     BeforeBind, Opening, Refusal
<1>9. QED BY <1>1, <1>2, <1>3, <1>4, <1>5, <1>6, <1>7, <1>8

\* connect.
LEMMA ConnectKeeps ==
  ASSUME CreateInv, Connect
  PROVE  CreateInv'
<1> USE AfterIs DEF CreateInv, Connect, FreeAddress, Faults, Does, Fails, Label
<1>1. TypeOK'
  BY PlacesAre, CreateAssumption DEF TypeOK, PlaceOK, Opening, Refusal, Calls, Kinds
<1>2. PlaceOK'
  BY DEF PlaceOK, Opening, Refusal
<1>3. AddressesOK'
  BY DEF PlaceOK, AddressesOK, Opening, Refusal
<1>4. SocketOK'
  BY DEF PlaceOK, SocketOK, BoundOK, NoSocket, HasSocket, Opening, Refusal
<1>5. BoundOK'
  BY DEF PlaceOK, BoundOK, Opening, Refusal
<1>6. PostsOK'
  BY DEF TypeOK, PlaceOK, SocketOK, BoundOK, FailedOK, PostsOK, NoSocket, HasSocket, Calls,
     Opening, Refusal
<1>7. FailedOK' /\ LeaksOK'
  BY DEF PlaceOK, SocketOK, FailedOK, LeaksOK, PostsOK, BeforeBind, Opening, Refusal
<1>8. NothingTwice'
  BY DEF PlaceOK, AddressesOK, SocketOK, FailedOK, LeaksOK, NothingTwice, Faults, NoSocket, HasSocket,
     BeforeBind, Opening, Refusal
<1>9. QED BY <1>1, <1>2, <1>3, <1>4, <1>5, <1>6, <1>7, <1>8

\* The first receive.
LEMMA FirstRecvKeeps ==
  ASSUME CreateInv, FirstRecv
  PROVE  CreateInv'
<1> USE AfterIs DEF CreateInv, FirstRecv, Does, Fails, Label
<1>1. TypeOK'
  <2>1. CASE Post("recv")
    BY <2>1, PostIs, PlacesAre DEF TypeOK, PlaceOK, Opening, Refusal, Calls, Kinds
  <2>2. CASE UNCHANGED counts
    BY <2>2, PlacesAre DEF TypeOK, PlaceOK, Opening, Refusal, Calls, Kinds
  <2>3. QED BY <2>1, <2>2
<1>2. PlaceOK'
  BY DEF PlaceOK, Opening, Refusal
<1>3. AddressesOK'
  BY DEF PlaceOK, AddressesOK, Opening, Refusal
<1>4. SocketOK'
  BY DEF PlaceOK, SocketOK, BoundOK, NoSocket, HasSocket, Opening, Refusal
<1>5. BoundOK'
  BY DEF PlaceOK, BoundOK, Opening, Refusal
<1>6. PostsOK'
  <2>1. at = "recv" /\ kind = "blocking" /\ flags = {} /\ ops = 0 /\ HasSocket /\ bound
        /\ failedAt = "none" /\ UNCHANGED <<kind, flags, info, bound>>
    BY DEF PlaceOK, SocketOK, BoundOK, FailedOK, PostsOK, Opening, Refusal
  <2>2. posted.accept \in Nat /\ posted.recv \in Nat /\ posted.connect \in Nat
        /\ posted.disconnect \in Nat
    BY DEF TypeOK, Calls
  <2>3. CASE Post("recv") /\ at' = "channel" /\ failedAt' = failedAt
    <3>1. /\ ops' = ops + 1 /\ posted'.recv = posted.recv + 1
          /\ posted'.accept = posted.accept /\ posted'.connect = posted.connect
          /\ posted'.disconnect = posted.disconnect
      BY <2>3, PostIs DEF Calls
    <3>2. QED BY <2>1, <2>2, <2>3, <3>1 DEF PostsOK, HasSocket
  <2>4. CASE UNCHANGED counts /\ at' = "error1"
    BY <2>1, <2>2, <2>4 DEF PostsOK
  <2>5. QED BY <2>3, <2>4 DEF PlaceOK, Opening, Refusal
<1>7. FailedOK' /\ LeaksOK'
  BY DEF PlaceOK, SocketOK, FailedOK, LeaksOK, PostsOK, BeforeBind, Opening, Refusal
<1>8. NothingTwice'
  BY DEF PlaceOK, AddressesOK, SocketOK, FailedOK, LeaksOK, NothingTwice, Faults, NoSocket, HasSocket,
     BeforeBind, Opening, Refusal
<1>9. QED BY <1>1, <1>2, <1>3, <1>4, <1>5, <1>6, <1>7, <1>8

\* The labels.
LEMMA Error2Keeps ==
  ASSUME CreateInv, Error2
  PROVE  CreateInv'
<1> USE AfterIs DEF CreateInv, Error2, FreeAddress, Faults
<1>1. TypeOK'
  BY PlacesAre, CreateAssumption DEF TypeOK, PlaceOK, Opening, Refusal, Calls, Kinds
<1>2. PlaceOK'
  BY DEF PlaceOK, Opening, Refusal
<1>3. AddressesOK'
  BY DEF PlaceOK, AddressesOK, Opening, Refusal
<1>4. SocketOK'
  BY DEF PlaceOK, SocketOK, BoundOK, NoSocket, HasSocket, Opening, Refusal
<1>5. BoundOK'
  BY DEF PlaceOK, BoundOK, Opening, Refusal
<1>6. PostsOK'
  <2>1. at = "error2" /\ at' = "error1" /\ ops = 0
        /\ UNCHANGED <<kind, flags, ops, posted, failedAt, info, bound>>
    BY DEF PostsOK
  <2>2. QED BY <2>1 DEF PostsOK
<1>7. FailedOK' /\ LeaksOK'
  BY DEF PlaceOK, SocketOK, FailedOK, LeaksOK, PostsOK, BeforeBind, Opening, Refusal
<1>8. NothingTwice'
  BY DEF PlaceOK, AddressesOK, SocketOK, FailedOK, LeaksOK, NothingTwice, Faults, NoSocket, HasSocket,
     BeforeBind, Opening, Refusal
<1>9. QED BY <1>1, <1>2, <1>3, <1>4, <1>5, <1>6, <1>7, <1>8

LEMMA Error1Keeps ==
  ASSUME CreateInv, Error1
  PROVE  CreateInv'
<1> USE AfterIs DEF CreateInv, Error1, FreeSocketInfo, Faults
<1>1. TypeOK'
  BY PlacesAre, CreateAssumption DEF TypeOK, PlaceOK, Opening, Refusal, Calls, Kinds
<1>2. PlaceOK'
  BY DEF PlaceOK, Opening, Refusal
<1>3. AddressesOK'
  BY DEF PlaceOK, AddressesOK, Opening, Refusal
<1>4. SocketOK'
  BY DEF PlaceOK, SocketOK, BoundOK, NoSocket, HasSocket, Opening, Refusal
<1>5. BoundOK'
  BY DEF PlaceOK, BoundOK, Opening, Refusal
<1>6. PostsOK'
  <2>1. at = "error1" /\ at' = "done" /\ flags = {} /\ UNCHANGED <<kind, flags, ops, posted, failedAt>>
    BY DEF PlaceOK
  <2>2. kind # "server" => ops = 0
    BY <2>1 DEF PostsOK
  <2>3. QED BY <2>1, <2>2 DEF PostsOK
<1>7. FailedOK' /\ LeaksOK'
  BY DEF PlaceOK, SocketOK, FailedOK, LeaksOK, PostsOK, BeforeBind, Opening, Refusal
<1>8. NothingTwice'
  BY DEF PlaceOK, AddressesOK, SocketOK, FailedOK, LeaksOK, NothingTwice, Faults, NoSocket, HasSocket,
     BeforeBind, Opening, Refusal
<1>9. QED BY <1>1, <1>2, <1>3, <1>4, <1>5, <1>6, <1>7, <1>8

\* The channels.
LEMMA ClientChannelKeeps ==
  ASSUME CreateInv, ClientChannel
  PROVE  CreateInv'
<1> USE AfterIs DEF CreateInv, ClientChannel, Made, Unset, Closes, DisconnectEx
<1>1. TypeOK'
  BY PlacesAre, CreateAssumption DEF TypeOK, PlaceOK, Opening, Refusal, Calls, Kinds
<1>2. PlaceOK'
  BY DEF PlaceOK, Opening, Refusal
<1>3. AddressesOK'
  BY DEF PlaceOK, AddressesOK, Opening, Refusal
<1>4. SocketOK'
  BY DEF PlaceOK, SocketOK, BoundOK, NoSocket, HasSocket, Opening, Refusal
<1>5. BoundOK'
  BY DEF PlaceOK, BoundOK, Opening, Refusal
<1>6. PostsOK'
  <2>1. at = "channel" /\ at' = "done" /\ kind # "server" /\ flags = {} /\ info = "live" /\ bound
        /\ failedAt = "none" /\ UNCHANGED <<kind, info, bound, failedAt>>
    BY DEF PlaceOK, SocketOK, BoundOK, FailedOK, HasSocket, Opening, Refusal
  <2>2. posted.accept \in Nat /\ posted.recv \in Nat /\ posted.connect \in Nat
        /\ posted.disconnect \in Nat /\ ops \in Nat
    BY DEF TypeOK, Calls
  <2>3. CASE Closes /\ kind # "server"
    <3>1. ops' = ops + 2 /\ posted' = [posted EXCEPT !.disconnect = 1] /\ flags' = {"CLOSING"}
      BY <2>3
    <3>2. /\ posted'.disconnect = 1 /\ posted'.accept = posted.accept
          /\ posted'.recv = posted.recv /\ posted'.connect = posted.connect
      BY <2>2, <3>1 DEF TypeOK, Calls
    <3>3. ops = posted.accept + posted.recv + posted.connect + 2 * posted.disconnect
          /\ posted.disconnect = 0
      BY <2>1 DEF PostsOK
    <3>4. ops' = posted'.accept + posted'.recv + posted'.connect + 2 * posted'.disconnect
      BY <2>2, <3>1, <3>2, <3>3
    <3>5. posted.connect > 0 => kind = "async" /\ posted.connect = 1 /\ posted.recv = 0
      BY DEF PostsOK
    <3>6. QED BY <2>1, <3>1, <3>2, <3>4, <3>5 DEF PostsOK
  <2>4. CASE UNCHANGED <<flags, ops, posted>>
    BY <2>1, <2>4 DEF PostsOK
  <2>5. QED BY <2>1, <2>3, <2>4
<1>7. FailedOK' /\ LeaksOK'
  BY DEF PlaceOK, SocketOK, FailedOK, LeaksOK, PostsOK, BeforeBind, Opening, Refusal
<1>8. NothingTwice'
  BY DEF PlaceOK, AddressesOK, SocketOK, FailedOK, LeaksOK, NothingTwice, Faults, NoSocket, HasSocket,
     BeforeBind, Opening, Refusal
<1>9. QED BY <1>1, <1>2, <1>3, <1>4, <1>5, <1>6, <1>7, <1>8

LEMMA ServerChannelKeeps ==
  ASSUME CreateInv, ServerChannel
  PROVE  CreateInv'
<1> USE AfterIs DEF CreateInv, ServerChannel, Made, Unset, Closes, DisconnectEx
<1>1. TypeOK'
  BY PlacesAre, CreateAssumption DEF TypeOK, PlaceOK, Opening, Refusal, Calls, Kinds
<1>2. PlaceOK'
  BY DEF PlaceOK, Opening, Refusal
<1>3. AddressesOK'
  BY DEF PlaceOK, AddressesOK, Opening, Refusal
<1>4. SocketOK'
  BY DEF PlaceOK, SocketOK, BoundOK, NoSocket, HasSocket, Opening, Refusal
<1>5. BoundOK'
  BY DEF PlaceOK, BoundOK, Opening, Refusal
<1>6. PostsOK'
  BY DEF TypeOK, PlaceOK, SocketOK, BoundOK, FailedOK, PostsOK, NoSocket, HasSocket, Calls,
     Opening, Refusal
<1>7. FailedOK' /\ LeaksOK'
  BY DEF PlaceOK, SocketOK, FailedOK, LeaksOK, PostsOK, BeforeBind, Opening, Refusal
<1>8. NothingTwice'
  BY DEF PlaceOK, AddressesOK, SocketOK, FailedOK, LeaksOK, NothingTwice, Faults, NoSocket, HasSocket,
     BeforeBind, Opening, Refusal
<1>9. QED BY <1>1, <1>2, <1>3, <1>4, <1>5, <1>6, <1>7, <1>8

\* Iocp_MakeTcpClientChannel.
LEMMA WrapKeeps ==
  ASSUME CreateInv, Wrap
  PROVE  CreateInv'
<1> USE AfterIs DEF CreateInv, Wrap, IocpInitProtocolData
<1>1. TypeOK'
  <2>1. emulated' \in BOOLEAN /\ bound' \in BOOLEAN /\ fault' \in {"no", "twice", "stale"}
    BY CreateAssumption DEF TypeOK, Faults
  <2>2. QED BY <2>1, PlacesAre DEF TypeOK, PlaceOK, Opening, Refusal, Calls, Kinds
<1>2. PlaceOK'
  BY DEF PlaceOK, Opening, Refusal
<1>3. AddressesOK'
  BY DEF PlaceOK, AddressesOK, Opening, Refusal
<1>4. SocketOK'
  BY DEF PlaceOK, SocketOK, BoundOK, NoSocket, HasSocket, Opening, Refusal
<1>5. BoundOK'
  BY DEF PlaceOK, BoundOK, Opening, Refusal
<1>6. PostsOK'
  BY DEF TypeOK, PlaceOK, SocketOK, BoundOK, FailedOK, PostsOK, NoSocket, HasSocket, Calls,
     Opening, Refusal
<1>7. FailedOK' /\ LeaksOK'
  BY DEF PlaceOK, SocketOK, FailedOK, LeaksOK, PostsOK, BeforeBind, Opening, Refusal
<1>8. NothingTwice'
  BY DEF PlaceOK, AddressesOK, SocketOK, FailedOK, LeaksOK, NothingTwice, Faults, NoSocket, HasSocket,
     BeforeBind, Opening, Refusal
<1>9. QED BY <1>1, <1>2, <1>3, <1>4, <1>5, <1>6, <1>7, <1>8

LEMMA WrapFailsKeeps ==
  ASSUME CreateInv, WrapFails
  PROVE  CreateInv'
<1> USE AfterIs DEF CreateInv, WrapFails, FreeSocketInfo, Faults
<1>1. TypeOK'
  BY PlacesAre, CreateAssumption DEF TypeOK, PlaceOK, Opening, Refusal, Calls, Kinds
<1>2. PlaceOK'
  BY DEF PlaceOK, Opening, Refusal
<1>3. AddressesOK'
  BY DEF PlaceOK, AddressesOK, Opening, Refusal
<1>4. SocketOK'
  BY DEF PlaceOK, SocketOK, BoundOK, NoSocket, HasSocket, Opening, Refusal
<1>5. BoundOK'
  BY DEF PlaceOK, BoundOK, Opening, Refusal
<1>6. PostsOK'
  BY DEF TypeOK, PlaceOK, SocketOK, BoundOK, FailedOK, PostsOK, NoSocket, HasSocket, Calls,
     Opening, Refusal
<1>7. FailedOK' /\ LeaksOK'
  BY DEF PlaceOK, SocketOK, FailedOK, LeaksOK, PostsOK, BeforeBind, Opening, Refusal
<1>8. NothingTwice'
  BY DEF PlaceOK, AddressesOK, SocketOK, FailedOK, LeaksOK, NothingTwice, Faults, NoSocket, HasSocket,
     BeforeBind, Opening, Refusal
<1>9. QED BY <1>1, <1>2, <1>3, <1>4, <1>5, <1>6, <1>7, <1>8

LEMMA WrapRecvKeeps ==
  ASSUME CreateInv, WrapRecv
  PROVE  CreateInv'
<1> USE AfterIs DEF CreateInv, WrapRecv, Does
<1>1. TypeOK'
  <2>1. Post("recv")
    OBVIOUS
  <2>2. QED BY <2>1, PostIs, PlacesAre DEF TypeOK, PlaceOK, Opening, Refusal, Calls, Kinds
<1>2. PlaceOK'
  BY DEF PlaceOK, Opening, Refusal
<1>3. AddressesOK'
  BY DEF PlaceOK, AddressesOK, Opening, Refusal
<1>4. SocketOK'
  BY DEF PlaceOK, SocketOK, BoundOK, NoSocket, HasSocket, Opening, Refusal
<1>5. BoundOK'
  BY DEF PlaceOK, BoundOK, Opening, Refusal
<1>6. PostsOK'
  <2>1. at = "recv" /\ kind = "wrap" /\ flags = {} /\ ops = 0 /\ HasSocket /\ bound
        /\ failedAt = "none" /\ UNCHANGED <<kind, flags, info, bound>>
    BY DEF PlaceOK, SocketOK, BoundOK, FailedOK, PostsOK, Opening, Refusal
  <2>2. posted.accept \in Nat /\ posted.recv \in Nat /\ posted.connect \in Nat
        /\ posted.disconnect \in Nat
    BY DEF TypeOK, Calls
  <2>3. CASE Post("recv") /\ at' = "channel" /\ failedAt' = failedAt
    <3>1. /\ ops' = ops + 1 /\ posted'.recv = posted.recv + 1
          /\ posted'.accept = posted.accept /\ posted'.connect = posted.connect
          /\ posted'.disconnect = posted.disconnect
      BY <2>3, PostIs DEF Calls
    <3>2. QED BY <2>1, <2>2, <2>3, <3>1 DEF PostsOK, HasSocket
  <2>4. QED BY <2>3 DEF PlaceOK, Opening, Refusal
<1>7. FailedOK' /\ LeaksOK'
  BY DEF PlaceOK, SocketOK, FailedOK, LeaksOK, PostsOK, BeforeBind, Opening, Refusal
<1>8. NothingTwice'
  BY DEF PlaceOK, AddressesOK, SocketOK, FailedOK, LeaksOK, NothingTwice, Faults, NoSocket, HasSocket,
     BeforeBind, Opening, Refusal
<1>9. QED BY <1>1, <1>2, <1>3, <1>4, <1>5, <1>6, <1>7, <1>8

LEMMA WrapChannelKeeps ==
  ASSUME CreateInv, WrapChannel
  PROVE  CreateInv'
<1> USE AfterIs DEF CreateInv, WrapChannel, Made
<1>1. TypeOK'
  BY PlacesAre, CreateAssumption DEF TypeOK, PlaceOK, Opening, Refusal, Calls, Kinds
<1>2. PlaceOK'
  BY DEF PlaceOK, Opening, Refusal
<1>3. AddressesOK'
  BY DEF PlaceOK, AddressesOK, Opening, Refusal
<1>4. SocketOK'
  BY DEF PlaceOK, SocketOK, BoundOK, NoSocket, HasSocket, Opening, Refusal
<1>5. BoundOK'
  BY DEF PlaceOK, BoundOK, Opening, Refusal
<1>6. PostsOK'
  BY DEF TypeOK, PlaceOK, SocketOK, BoundOK, FailedOK, PostsOK, NoSocket, HasSocket, Calls,
     Opening, Refusal
<1>7. FailedOK' /\ LeaksOK'
  BY DEF PlaceOK, SocketOK, FailedOK, LeaksOK, PostsOK, BeforeBind, Opening, Refusal
<1>8. NothingTwice'
  BY DEF PlaceOK, AddressesOK, SocketOK, FailedOK, LeaksOK, NothingTwice, Faults, NoSocket, HasSocket,
     BeforeBind, Opening, Refusal
<1>9. QED BY <1>1, <1>2, <1>3, <1>4, <1>5, <1>6, <1>7, <1>8

\* IocpClose2Proc.
LEMMA CloseKeeps ==
  ASSUME CreateInv, Close
  PROVE  CreateInv'
<1> USE AfterIs DEF CreateInv, Close, IsOpen, Closes, DisconnectEx
<1>1. TypeOK'
  BY PlacesAre, CreateAssumption DEF TypeOK, PlaceOK, Opening, Refusal, Calls, Kinds
<1>2. PlaceOK'
  BY DEF PlaceOK, Opening, Refusal
<1>3. AddressesOK'
  BY DEF PlaceOK, AddressesOK, Opening, Refusal
<1>4. SocketOK'
  BY DEF PlaceOK, SocketOK, BoundOK, NoSocket, HasSocket, Opening, Refusal
<1>5. BoundOK'
  BY DEF PlaceOK, BoundOK, Opening, Refusal
<1>6. PostsOK'
  <2>1. at = "done" /\ at' = "done" /\ flags = {} /\ info = "live" /\ bound
        /\ failedAt = "none" /\ UNCHANGED <<kind, info, bound, failedAt>>
    BY DEF PlaceOK, SocketOK, FailedOK
  <2>2. posted.accept \in Nat /\ posted.recv \in Nat /\ posted.connect \in Nat
        /\ posted.disconnect \in Nat /\ ops \in Nat
    BY DEF TypeOK, Calls
  <2>3. CASE Closes /\ kind # "server"
    <3>1. ops' = ops + 2 /\ posted' = [posted EXCEPT !.disconnect = 1] /\ flags' = {"CLOSING"}
      BY <2>3
    <3>2. /\ posted'.disconnect = 1 /\ posted'.accept = posted.accept
          /\ posted'.recv = posted.recv /\ posted'.connect = posted.connect
      BY <2>2, <3>1 DEF TypeOK, Calls
    <3>3. ops = posted.accept + posted.recv + posted.connect + 2 * posted.disconnect
          /\ posted.disconnect = 0
      BY <2>1 DEF PostsOK
    <3>4. ops' = posted'.accept + posted'.recv + posted'.connect + 2 * posted'.disconnect
      BY <2>2, <3>1, <3>2, <3>3
    <3>5. posted.connect > 0 => kind = "async" /\ posted.connect = 1 /\ posted.recv = 0
      BY DEF PostsOK
    <3>6. QED BY <2>1, <3>1, <3>2, <3>4, <3>5 DEF PostsOK
  <2>4. CASE kind = "server"
    BY <2>1, <2>4 DEF PostsOK
  <2>5. QED BY <2>3, <2>4
<1>7. FailedOK' /\ LeaksOK'
  BY DEF PlaceOK, SocketOK, FailedOK, LeaksOK, PostsOK, BeforeBind, Opening, Refusal
<1>8. NothingTwice'
  BY DEF PlaceOK, AddressesOK, SocketOK, FailedOK, LeaksOK, NothingTwice, Faults, NoSocket, HasSocket,
     BeforeBind, Opening, Refusal
<1>9. QED BY <1>1, <1>2, <1>3, <1>4, <1>5, <1>6, <1>7, <1>8

\* The names, and the network.
LEMMA GetPeernameKeeps ==
  ASSUME CreateInv, GetPeername
  PROVE  CreateInv'
<1> USE AfterIs DEF CreateInv, GetPeername, IsOpen, Connected
<1>1. TypeOK'
  BY PlacesAre, CreateAssumption DEF TypeOK, PlaceOK, Opening, Refusal, Calls, Kinds
<1>2. PlaceOK'
  BY DEF PlaceOK, Opening, Refusal
<1>3. AddressesOK'
  BY DEF PlaceOK, AddressesOK, Opening, Refusal
<1>4. SocketOK'
  BY DEF PlaceOK, SocketOK, BoundOK, NoSocket, HasSocket, Opening, Refusal
<1>5. BoundOK'
  BY DEF PlaceOK, BoundOK, Opening, Refusal
<1>6. PostsOK'
  BY DEF TypeOK, PlaceOK, SocketOK, BoundOK, FailedOK, PostsOK, NoSocket, HasSocket, Calls,
     Opening, Refusal
<1>7. FailedOK' /\ LeaksOK'
  BY DEF PlaceOK, SocketOK, FailedOK, LeaksOK, PostsOK, BeforeBind, Opening, Refusal
<1>8. NothingTwice'
  BY DEF PlaceOK, AddressesOK, SocketOK, FailedOK, LeaksOK, NothingTwice, Faults, NoSocket, HasSocket,
     BeforeBind, Opening, Refusal
<1>9. QED BY <1>1, <1>2, <1>3, <1>4, <1>5, <1>6, <1>7, <1>8

LEMMA GetSocknameKeeps ==
  ASSUME CreateInv, GetSockname
  PROVE  CreateInv'
<1> USE AfterIs DEF CreateInv, GetSockname, IsOpen, Connected
<1>1. TypeOK'
  BY PlacesAre, CreateAssumption DEF TypeOK, PlaceOK, Opening, Refusal, Calls, Kinds
<1>2. PlaceOK'
  BY DEF PlaceOK, Opening, Refusal
<1>3. AddressesOK'
  BY DEF PlaceOK, AddressesOK, Opening, Refusal
<1>4. SocketOK'
  BY DEF PlaceOK, SocketOK, BoundOK, NoSocket, HasSocket, Opening, Refusal
<1>5. BoundOK'
  BY DEF PlaceOK, BoundOK, Opening, Refusal
<1>6. PostsOK'
  BY DEF TypeOK, PlaceOK, SocketOK, BoundOK, FailedOK, PostsOK, NoSocket, HasSocket, Calls,
     Opening, Refusal
<1>7. FailedOK' /\ LeaksOK'
  BY DEF PlaceOK, SocketOK, FailedOK, LeaksOK, PostsOK, BeforeBind, Opening, Refusal
<1>8. NothingTwice'
  BY DEF PlaceOK, AddressesOK, SocketOK, FailedOK, LeaksOK, NothingTwice, Faults, NoSocket, HasSocket,
     BeforeBind, Opening, Refusal
<1>9. QED BY <1>1, <1>2, <1>3, <1>4, <1>5, <1>6, <1>7, <1>8

LEMMA NetDecidesKeeps ==
  ASSUME CreateInv, NetDecides
  PROVE  CreateInv'
<1> USE AfterIs DEF CreateInv, NetDecides
<1>1. TypeOK'
  BY PlacesAre, CreateAssumption DEF TypeOK, PlaceOK, Opening, Refusal, Calls, Kinds
<1>2. PlaceOK'
  BY DEF PlaceOK, Opening, Refusal
<1>3. AddressesOK'
  BY DEF PlaceOK, AddressesOK, Opening, Refusal
<1>4. SocketOK'
  BY DEF PlaceOK, SocketOK, BoundOK, NoSocket, HasSocket, Opening, Refusal
<1>5. BoundOK'
  BY DEF PlaceOK, BoundOK, Opening, Refusal
<1>6. PostsOK'
  BY DEF TypeOK, PlaceOK, SocketOK, BoundOK, FailedOK, PostsOK, NoSocket, HasSocket, Calls,
     Opening, Refusal
<1>7. FailedOK' /\ LeaksOK'
  BY DEF PlaceOK, SocketOK, FailedOK, LeaksOK, PostsOK, BeforeBind, Opening, Refusal
<1>8. NothingTwice'
  BY DEF PlaceOK, AddressesOK, SocketOK, FailedOK, LeaksOK, NothingTwice, Faults, NoSocket, HasSocket,
     BeforeBind, Opening, Refusal
<1>9. QED BY <1>1, <1>2, <1>3, <1>4, <1>5, <1>6, <1>7, <1>8

LEMMA ConnectThreadKeeps ==
  ASSUME CreateInv, ConnectThread
  PROVE  CreateInv'
<1> USE AfterIs DEF CreateInv, ConnectThread
<1>1. TypeOK'
  BY PlacesAre, CreateAssumption DEF TypeOK, PlaceOK, Opening, Refusal, Calls, Kinds
<1>2. PlaceOK'
  BY DEF PlaceOK, Opening, Refusal
<1>3. AddressesOK'
  BY DEF PlaceOK, AddressesOK, Opening, Refusal
<1>4. SocketOK'
  BY DEF PlaceOK, SocketOK, BoundOK, NoSocket, HasSocket, Opening, Refusal
<1>5. BoundOK'
  BY DEF PlaceOK, BoundOK, Opening, Refusal
<1>6. PostsOK'
  BY DEF TypeOK, PlaceOK, SocketOK, BoundOK, FailedOK, PostsOK, NoSocket, HasSocket, Calls,
     Opening, Refusal
<1>7. FailedOK' /\ LeaksOK'
  BY DEF PlaceOK, SocketOK, FailedOK, LeaksOK, PostsOK, BeforeBind, Opening, Refusal
<1>8. NothingTwice'
  BY DEF PlaceOK, AddressesOK, SocketOK, FailedOK, LeaksOK, NothingTwice, Faults, NoSocket, HasSocket,
     BeforeBind, Opening, Refusal
<1>9. QED BY <1>1, <1>2, <1>3, <1>4, <1>5, <1>6, <1>7, <1>8

\* The options lead to the first step, or the command is refused.
LEMMA CommandKeeps ==
  ASSUME CreateInv, NEW opts \in SUBSET Options, Command(opts)
  PROVE  CreateInv'
<1>1. /\ at = "command" /\ kind = "none" /\ kind' \in {"server", "async", "blocking"}
      /\ UNCHANGED <<failedAt, emulated, addrs, socket, connect, counts, flags, caches, fault>>
      /\ \/ at' = "host" /\ UNCHANGED outcome
         \/ at' = "done" /\ outcome' = "error"
  BY DEF Command, KindOf, Steps, CreateInv, PlaceOK, Opening, Refusal
<1>2. /\ NoSocket /\ flags = {} /\ ops = 0 /\ outcome = "none" /\ failedAt = "none"
      /\ posted.connect = 0 /\ posted.disconnect = 0
      /\ my # "held" /\ buf # "held" /\ job # "leaked"
  BY <1>1 DEF CreateInv, TypeOK, PlaceOK, SocketOK, FailedOK, LeaksOK, PostsOK, Calls,
     BeforeBind, Refusal
<1>3. TypeOK'
  BY <1>1, PlacesAre DEF CreateInv, TypeOK, Kinds
<1>4. PlaceOK'
  BY <1>1, <1>2 DEF PlaceOK, Opening, Refusal
<1>5. AddressesOK'
  BY <1>1 DEF CreateInv, AddressesOK
<1>6. SocketOK'
  BY <1>1, <1>2 DEF CreateInv, SocketOK, NoSocket, Opening, Refusal
<1>7. BoundOK'
  BY <1>1 DEF BoundOK
<1>8. PostsOK'
  BY <1>1, <1>2 DEF CreateInv, PostsOK
<1>9. FailedOK' /\ LeaksOK'
  BY <1>1, <1>2 DEF FailedOK, LeaksOK, BeforeBind, Refusal
<1>10. NothingTwice'
  BY <1>1 DEF CreateInv, NothingTwice
<1>11. QED BY <1>3, <1>4, <1>5, <1>6, <1>7, <1>8, <1>9, <1>10 DEF CreateInv

-----------------------------------------------------------------------------
(* The completion thread                                                     *)

\* The end of HandleIo: the SocketInfo is live, and freed with the last operation.
LEMMA DoneIs ==
  ASSUME info = "live", NEW lists \in {"none", "recv", "accept"}, Done(lists)
  PROVE  /\ fault' = fault /\ bound' = bound /\ list' \in {"none", "recv", "accept"}
         /\ IF ops' = 0 /\ "CLOSABLE" \in flags' THEN info' = "freed" /\ sock' = "closed"
            ELSE info' = "live" /\ sock' = sock
BY DEF Done, FreeSocketInfo, Faults

\* Whatever is reported, the socket is as PostsOK says when HandleIo ends.
LEMMA ReportKeeps ==
  ASSUME CreateInv, NEW lists \in {"none", "recv", "accept"}, Done(lists),
         info = "live", bound, flags \subseteq flags', flags' \subseteq flags \cup {"CLOSABLE"},
         flags = {} => flags' = {},
         at \in {"channel", "done"}, failedAt = "none",
         UNCHANGED <<request, place, outcome, addrs, net, job, caches>>,
         buf' = buf \/ (buf # "held" /\ buf' = "freed"),
         ops' \in Nat, posted' \in [Calls -> Nat],
         ops' = posted'.accept + posted'.recv + posted'.connect + 2 * posted'.disconnect,
         flags = {} => posted'.disconnect = 0,
         posted'.connect > 0 => kind = "async" /\ posted'.connect = 1 /\ posted'.recv = 0
  PROVE  CreateInv'
<1>1. /\ fault' = fault /\ bound' = bound /\ list' \in {"none", "recv", "accept"}
      /\ IF ops' = 0 /\ "CLOSABLE" \in flags' THEN info' = "freed" /\ sock' = "closed"
         ELSE info' = "live" /\ sock' = sock
  BY DoneIs DEF CreateInv
<1>2. flags' \subseteq {"CLOSING", "CLOSABLE"}
  BY DEF CreateInv, TypeOK
<1>3. TypeOK'
  <2>1. /\ emulated' \in BOOLEAN /\ bound' \in BOOLEAN /\ fault' \in {"no", "twice", "stale"}
        /\ buf' \in {"none", "held", "posted", "freed"}
    <3>1. fault' = fault /\ bound' = bound /\ emulated' = emulated
      BY <1>1
    <3>2. QED BY <3>1 DEF CreateInv, TypeOK
  <2>2. sock' \in {"none", "open", "closed"} /\ info' \in {"none", "live", "freed"}
    BY <1>1 DEF CreateInv, TypeOK
  <2>3. QED BY <1>1, <1>2, <2>1, <2>2 DEF CreateInv, TypeOK
<1>4. PlaceOK'
  BY DEF CreateInv, PlaceOK
<1>5. AddressesOK'
  BY DEF CreateInv, AddressesOK
<1>6. SocketOK'
  <2>1. at = "channel" => flags = {} /\ HasSocket
    BY DEF CreateInv, PlaceOK, SocketOK, Opening, Refusal
  <2>2. kind = "wrap" /\ outcome = "error" => flags = {} /\ sock = "open"
    BY DEF CreateInv, SocketOK
  <2>3. outcome = "error" /\ flags = {} => FALSE
    BY DEF CreateInv, SocketOK
  <2>4. QED BY <1>1, <2>1, <2>2, <2>3 DEF CreateInv, SocketOK, HasSocket, Opening, Refusal
<1>7. BoundOK'
  BY <1>1 DEF CreateInv, BoundOK
<1>8. PostsOK'
  <2>1. ops' > 0 => info' = "live" /\ bound'
    BY <1>1
  <2>2. flags' = {} => posted'.disconnect = 0
    OBVIOUS
  <2>3. at' \in {"channel", "done"}
    OBVIOUS
  <2>4. QED BY <2>1, <2>2, <2>3 DEF PostsOK
<1>9. FailedOK' /\ LeaksOK'
  BY DEF CreateInv, FailedOK, LeaksOK, BeforeBind, Refusal
<1>10. NothingTwice'
  BY <1>1 DEF CreateInv, NothingTwice
<1>11. QED BY <1>3, <1>4, <1>5, <1>6, <1>7, <1>8, <1>9, <1>10 DEF CreateInv

\* What is reported is counted, and keeps the SocketInfo.
LEMMA PostedLives ==
  ASSUME CreateInv, NEW call \in Calls, posted[call] > 0, kind # "server" \/ flags # {}
  PROVE  /\ info = "live" /\ bound /\ ops >= 1 /\ (call = "disconnect" => ops >= 2)
         /\ at \in {"channel", "done"} /\ failedAt = "none"
<1>1. posted.accept \in Nat /\ posted.recv \in Nat /\ posted.connect \in Nat
      /\ posted.disconnect \in Nat /\ ops \in Nat
  BY DEF CreateInv, TypeOK, Calls
<1>2. ops = posted.accept + posted.recv + posted.connect + 2 * posted.disconnect
  BY DEF CreateInv, PostsOK
<1>3. /\ posted.accept > 0 \/ posted.recv > 0 \/ posted.connect > 0 \/ posted.disconnect > 0
      /\ call = "disconnect" => posted.disconnect > 0
  BY DEF Calls
<1>4. ops >= 1 /\ (call = "disconnect" => ops >= 2)
  BY <1>1, <1>2, <1>3
<1>5. info = "live" /\ bound
  BY <1>1, <1>4 DEF CreateInv, PostsOK
<1>6. at \in {"channel", "done"}
  BY <1>1, <1>4 DEF CreateInv, PostsOK, PlaceOK, Opening, Refusal
<1>7. failedAt = "none"
  BY <1>1, <1>4 DEF CreateInv, FailedOK, PostsOK
<1>8. QED BY <1>4, <1>5, <1>6, <1>7

LEMMA HandleConnectKeeps ==
  ASSUME CreateInv, HandleConnect
  PROVE  CreateInv'
<1>1. /\ posted.connect > 0 /\ kind = "async" /\ posted.connect = 1 /\ posted.recv = 0
      /\ UNCHANGED <<request, place, outcome, addrs, net, job, caches, flags>>
      /\ buf' = "freed" /\ Done("recv")
  BY DEF HandleConnect, CreateInv, PostsOK
<1>2. /\ info = "live" /\ bound /\ ops >= 1 /\ at \in {"channel", "done"}
      /\ failedAt = "none" /\ buf # "held"
  <2>1. info = "live" /\ bound /\ ops >= 1 /\ at \in {"channel", "done"} /\ failedAt = "none"
    BY <1>1, PostedLives DEF Calls
  <2>2. QED BY <2>1 DEF CreateInv, LeaksOK
<1>3. posted.accept \in Nat /\ posted.disconnect \in Nat /\ ops \in Nat
      /\ posted \in [Calls -> Nat]
  BY DEF CreateInv, TypeOK, Calls
<1>4. ops = posted.accept + posted.recv + posted.connect + 2 * posted.disconnect
      /\ (flags = {} => posted.disconnect = 0)
  BY DEF CreateInv, PostsOK
<1>5. /\ posted' \in [Calls -> Nat] /\ posted'.connect = 0
      /\ posted'.accept = posted.accept /\ posted'.disconnect = posted.disconnect
      /\ \/ ops' = ops /\ posted'.recv = 1
         \/ ops' = ops - 1 /\ posted'.recv = posted.recv
  <2>1. CASE net = "up" /\ flags = {}
    <3>1. posted' = [posted EXCEPT !.connect = 0, !.recv = 1] /\ ops' = ops
      BY <2>1 DEF HandleConnect
    <3>2. QED BY <1>3, <3>1 DEF Calls
  <2>2. CASE ~(net = "up" /\ flags = {})
    <3>1. Returned("connect") /\ ops' = ops - 1
      BY <2>2 DEF HandleConnect
    <3>2. QED BY <1>1, <1>3, <3>1 DEF Returned, Calls
  <2>3. QED BY <2>1, <2>2
<1>6. ops' \in Nat
      /\ ops' = posted'.accept + posted'.recv + posted'.connect + 2 * posted'.disconnect
  BY <1>1, <1>2, <1>3, <1>4, <1>5
<1>7. QED BY <1>1, <1>2, <1>4, <1>5, <1>6, ReportKeeps

\* OP_DISCONNECT, and a receive or an accept of a socket that is being closed.
LEMMA ClosingKeeps ==
  ASSUME CreateInv, NEW call \in Calls \ {"connect"}, flags # {}, Reported(call),
         ops' = IF call = "disconnect" THEN ops - 2 ELSE ops - 1,
         flags' \in {flags, flags \cup {"CLOSABLE"}}, Done(list),
         UNCHANGED <<request, place, outcome, addrs, connect, caches>>
  PROVE  CreateInv'
<1>1. posted[call] > 0 /\ Returned(call)
  BY DEF Reported
<1>2. info = "live" /\ bound /\ ops >= 1 /\ (call = "disconnect" => ops >= 2)
      /\ at \in {"channel", "done"} /\ failedAt = "none"
  BY <1>1, PostedLives
<1>3. posted.accept \in Nat /\ posted.recv \in Nat /\ posted.connect \in Nat
      /\ posted.disconnect \in Nat /\ ops \in Nat
  BY DEF CreateInv, TypeOK, Calls
<1>4. ops = posted.accept + posted.recv + posted.connect + 2 * posted.disconnect
      /\ (posted.connect > 0 => kind = "async" /\ posted.connect = 1 /\ posted.recv = 0)
  BY DEF CreateInv, PostsOK
<1>5. /\ posted' \in [Calls -> Nat] /\ posted'[call] = posted[call] - 1
      /\ \A other \in Calls \ {call} : posted'[other] = posted[other]
  BY <1>1, ReturnedIs DEF CreateInv
<1>6. ops' \in Nat
      /\ ops' = posted'.accept + posted'.recv + posted'.connect + 2 * posted'.disconnect
      /\ (posted'.connect > 0 => kind = "async" /\ posted'.connect = 1 /\ posted'.recv = 0)
  <2>1. CASE call = "accept"
    <3>1. posted'.accept = posted.accept - 1 /\ posted'.recv = posted.recv
          /\ posted'.connect = posted.connect /\ posted'.disconnect = posted.disconnect
          /\ ops' = ops - 1
      BY <1>5, <2>1 DEF Calls
    <3>2. QED BY <1>2, <1>3, <1>4, <3>1
  <2>2. CASE call = "recv"
    <3>1. posted'.accept = posted.accept /\ posted'.recv = posted.recv - 1
          /\ posted'.connect = posted.connect /\ posted'.disconnect = posted.disconnect
          /\ ops' = ops - 1 /\ posted.recv > 0
      BY <1>1, <1>5, <2>2 DEF Calls
    <3>2. QED BY <1>2, <1>3, <1>4, <3>1
  <2>3. CASE call = "disconnect"
    <3>1. posted'.accept = posted.accept /\ posted'.recv = posted.recv
          /\ posted'.connect = posted.connect /\ posted'.disconnect = posted.disconnect - 1
          /\ ops' = ops - 2
      BY <1>5, <2>3 DEF Calls
    <3>2. QED BY <1>2, <1>3, <1>4, <2>3, <3>1
  <2>4. QED BY <2>1, <2>2, <2>3 DEF Calls
<1>7. list \in {"none", "recv", "accept"}
  BY DEF CreateInv, TypeOK
<1>8. flags \subseteq flags' /\ flags' \subseteq flags \cup {"CLOSABLE"}
  OBVIOUS
<1>9. QED BY <1>2, <1>5, <1>6, <1>7, <1>8, ReportKeeps

LEMMA HandleDisconnectKeeps ==
  ASSUME CreateInv, HandleDisconnect
  PROVE  CreateInv'
<1>1. Reported("disconnect") /\ ops' = ops - 2 /\ flags' = flags \cup {"CLOSABLE"} /\ Done(list)
      /\ UNCHANGED <<request, place, outcome, addrs, connect, caches>>
  BY DEF HandleDisconnect
<1>2. flags # {}
  <2>1. posted.disconnect > 0
    BY <1>1 DEF Reported
  <2>2. QED BY <2>1 DEF CreateInv, PostsOK
<1>3. QED BY <1>1, <1>2, ClosingKeeps DEF Calls

\* A call of a SocketInfo that Error1 has freed: an AcceptEx behind which another failed.
LEMMA FreedKeeps ==
  ASSUME CreateInv, NEW call \in {"accept", "recv"}, HandleAborted(call), info = "freed"
  PROVE  CreateInv'
<1>1. /\ posted[call] > 0 /\ Returned(call) /\ ops' = ops - 1 /\ Faults("stale", TRUE)
      /\ UNCHANGED <<request, place, outcome, addrs, socket, connect, flags, caches>>
  BY DEF HandleAborted, Reported
<1>2. posted.accept \in Nat /\ posted.recv \in Nat /\ posted.connect \in Nat
      /\ posted.disconnect \in Nat /\ ops \in Nat
  BY DEF CreateInv, TypeOK, Calls
<1>3. /\ posted' \in [Calls -> Nat] /\ posted'.connect = posted.connect
      /\ posted'.disconnect = posted.disconnect
      /\ \/ posted.accept > 0 /\ posted'.accept = posted.accept - 1 /\ posted'.recv = posted.recv
         \/ posted.recv > 0 /\ posted'.accept = posted.accept /\ posted'.recv = posted.recv - 1
  BY <1>1, ReturnedIs DEF CreateInv, Calls
<1>4. ops = posted.accept + posted.recv + posted.connect + 2 * posted.disconnect /\ ops > 0
  BY <1>2, <1>3 DEF CreateInv, PostsOK
<1>5. /\ ops' \in Nat /\ ops' <= ops
      /\ ops' = posted'.accept + posted'.recv + posted'.connect + 2 * posted'.disconnect
  BY <1>1, <1>2, <1>3, <1>4
<1>6. failedAt = "accept" /\ at \in Refusal
  BY <1>4 DEF CreateInv, PostsOK, FailedOK
<1>7. kind = "server" /\ flags = {} /\ posted.connect = 0
  BY <1>2, <1>4, <1>6 DEF CreateInv, FailedOK, PostsOK
<1>8. PostsOK'
  <2>1. at # "done" => NoSocket \/ HasSocket
    BY <1>6 DEF CreateInv, SocketOK, Refusal
  <2>2. at = "done"
    BY <2>1 DEF NoSocket, HasSocket
  <2>3. QED BY <1>1, <1>3, <1>5, <1>6, <1>7, <2>2 DEF CreateInv, PostsOK
<1>9. TypeOK'
  BY <1>1, <1>3, <1>5 DEF CreateInv, TypeOK, Faults
<1>10. PlaceOK' /\ AddressesOK' /\ SocketOK' /\ BoundOK'
  BY <1>1 DEF CreateInv, PlaceOK, AddressesOK, SocketOK, BoundOK, NoSocket, HasSocket
<1>11. FailedOK' /\ LeaksOK' /\ NothingTwice'
  BY <1>1, <1>6 DEF CreateInv, FailedOK, LeaksOK, NothingTwice, Faults
<1>12. QED BY <1>8, <1>9, <1>10, <1>11 DEF CreateInv

LEMMA HandleAbortedKeeps ==
  ASSUME CreateInv, NEW call \in {"accept", "recv"}, HandleAborted(call)
  PROVE  CreateInv'
<1>1. CASE info = "freed"
  BY <1>1, FreedKeeps
<1>2. CASE info # "freed"
  <2>1. flags # {} /\ Reported(call) /\ ops' = ops - 1 /\ flags' \in {flags, flags \cup {"CLOSABLE"}}
        /\ Done(list) /\ UNCHANGED <<request, place, outcome, addrs, connect, caches>>
    BY <1>2 DEF HandleAborted
  <2>2. QED BY <2>1, ClosingKeeps DEF Calls
<1>3. QED BY <1>1, <1>2

LEMMA CreateInvStep ==
  ASSUME CreateInv, Next
  PROVE  CreateInv'
<1>1. CASE Create
  BY <1>1, HostAddressKeeps, MyAddressKeeps, ProtocolSizeKeeps, ProtocolListKeeps,
     ProtocolSearchKeeps, SocketKeeps, AssociateKeeps, BindKeeps, ListenKeeps, AcceptKeeps,
     ConnectExKeeps, ConnectKeeps, FirstRecvKeeps, Error2Keeps, Error1Keeps, ClientChannelKeeps,
     ServerChannelKeeps, WrapKeeps, WrapFailsKeeps, WrapRecvKeeps, WrapChannelKeeps, CommandKeeps
  DEF Create
<1>2. CASE CompletionThread
  BY <1>2, HandleConnectKeeps, HandleDisconnectKeeps, HandleAbortedKeeps DEF CompletionThread
<1>3. QED BY <1>1, <1>2, CloseKeeps, GetPeernameKeeps, GetSocknameKeeps, NetDecidesKeeps,
             ConnectThreadKeeps, Next DEF Next

LEMMA CreateSafe ==
  ASSUME CreateInv
  PROVE  CommandRemains /\ NothingTwice /\ PostsAreHeard
<1>1. CommandRemains
  <2>1. ASSUME at = "done"
        PROVE  /\ my = "held" <=> (kind # "server" /\ failedAt \in BeforeBind)
               /\ buf = "held" <=> (kind = "async" /\ failedAt = "assoc")
               /\ job = "leaked" <=> (emulated /\ failedAt = "connectEx")
    BY <2>1 DEF CreateInv, PlaceOK, FailedOK, LeaksOK, BeforeBind, Opening, Refusal
  <2>2. at = "done" /\ outcome = "error" =>
          /\ info = "live" => flags # {}
          /\ IF kind = "wrap" THEN sock # "closed" ELSE sock = "open" => info = "live"
    BY DEF CreateInv, PlaceOK, SocketOK, Opening, Refusal
  <2>3. at = "done" => host # "held" /\ catalog # "held"
    BY DEF CreateInv, AddressesOK
  <2>4. QED BY <2>1, <2>2, <2>3 DEF CommandRemains
<1>2. NothingTwice
  BY DEF CreateInv
<1>3. PostsAreHeard
  BY PostedLives DEF PostsAreHeard
<1>4. QED BY <1>1, <1>2, <1>3

HIDE DEF request, place, addrs, socket, connect, counts, caches

-----------------------------------------------------------------------------
(* The options of a listener                                                 *)

Positive == Nat \ {0}

\* The values an option can have: every cap that is set is at least one.
OptionValues ==
  [mode : O!RecvModes, recvCap : Positive, bufCap : Positive, sendCap : Positive,
   acceptCap : Nat]

OptionTypes ==
  /\ opt \in OptionValues /\ words \in OptionValues
  /\ writing \subseteq {"recvCap", "bufCap"}
  /\ DOMAIN said = O!Gettable /\ said.acceptCap \in Nat
  /\ DOMAIN os = {"keepalive", "nodelay"}
  /\ DOMAIN seen = O!Fields

\* What the script said is what is set, but for the fields of a mode that is being
\* written, and for a backlog that has been lowered.
SaidIsSet ==
  /\ writing # {} => answer = <<>> /\ opt.mode = words.mode
  /\ \A f \in {"recvCap", "bufCap"} \ writing :
       opt[f] = IF writing = {} THEN said[f] ELSE words[f]
  /\ writing = {} => opt.mode = said.mode
  /\ opt.sendCap = said.sendCap /\ opt.acceptCap <= said.acceptCap
  /\ said.keepalive = os.keepalive /\ said.nagle = ~os.nodelay

\* The fields that the accepted socket has.
Copied(fields) ==
  CASE copying = "recv" -> fields \subseteq O!RecvFields
    [] copying = "send" -> fields = O!RecvFields
    [] OTHER -> fields = O!RecvFields \cup {"sendCap"}

ChildOK ==
  /\ copying \in {"no", "recv", "send", "first"} /\ accepted \in Nat
  /\ accepted = 0 => copying = "no"
  /\ copying # "no" => \A f \in O!Fields : opt[f] \in seen[f]
  /\ accepted > 0 =>
       /\ Copied(DOMAIN child)
       /\ \A f \in DOMAIN child : child[f] \in seen[f]
       /\ \A f \in DOMAIN child \ {"mode"} : child[f] \in Positive
       /\ copying = "no" => first \in seen.mode

OptionsInv == OptionTypes /\ SaidIsSet /\ O!ReadsBack /\ ChildOK

LEMMA DefaultsAreValues == O!DefaultOptions \in OptionValues
BY CommandsAssumption DEF O!DefaultOptions, OptionValues, Positive, O!RecvModes

LEMMA OptionsInvInit == O!OptionsInit => OptionsInv
<1> SUFFICES ASSUME O!OptionsInit PROVE OptionsInv
  OBVIOUS
<1>1. OptionTypes
  BY DefaultsAreValues, CommandsAssumption
  DEF O!OptionsInit, OptionTypes, O!Script, O!Gettable, O!Fields, O!RecvFields, O!DefaultOptions
<1>2. SaidIsSet
  <2>1. /\ said.mode = opt.mode /\ said.recvCap = opt.recvCap /\ said.bufCap = opt.bufCap
        /\ said.sendCap = opt.sendCap /\ said.acceptCap = opt.acceptCap
    BY DEF O!OptionsInit, O!Script, O!Fields, O!RecvFields
  <2>2. said.keepalive = FALSE /\ said.nagle = TRUE
    BY DEF O!OptionsInit, O!Script, O!Fields, O!RecvFields
  <2>3. opt.acceptCap \in Nat /\ writing = {} /\ os.keepalive = FALSE /\ os.nodelay = FALSE
    BY <1>1 DEF O!OptionsInit, OptionTypes, OptionValues
  <2>4. said.nagle = ~os.nodelay
    BY <2>2, <2>3
  <2>5. said.keepalive = os.keepalive
    BY <2>2, <2>3
  <2>6. opt.acceptCap <= said.acceptCap
    BY <2>1, <2>3
  <2>7. QED BY <2>1, <2>3, <2>4, <2>5, <2>6 DEF SaidIsSet
<1>3. O!ReadsBack /\ ChildOK
  BY DEF O!OptionsInit, O!ReadsBack, ChildOK
<1>4. QED BY <1>1, <1>2, <1>3 DEF OptionsInv

\* What a command of the script does to the copy: nothing, but that the socket may get
\* the value it sets as well.
LEMMA SetSeen ==
  ASSUME OptionsInv, O!Sees, opt' \in OptionValues, UNCHANGED O!copy
  PROVE  ChildOK' /\ DOMAIN seen' = O!Fields
<1> USE DEF OptionsInv, OptionTypes, ChildOK, Copied, O!copy, O!Fields, O!RecvFields
<1>1. DOMAIN seen' = O!Fields /\ \A f \in O!Fields : seen[f] \subseteq seen'[f]
  BY DEF O!Sees
<1>2. copying # "no" => \A f \in O!Fields : opt'[f] \in seen'[f]
  BY DEF O!Sees
<1>3. QED BY <1>1, <1>2

LEMMA SeenStays ==
  ASSUME OptionsInv, UNCHANGED <<opt, seen, O!copy>>
  PROVE  ChildOK' /\ DOMAIN seen' = O!Fields
BY DEF OptionsInv, OptionTypes, ChildOK, Copied, O!copy

\* A command that is refused, and one that ends at once.
LEMMA RefusedKeeps ==
  ASSUME OptionsInv, O!Sets, O!Refused
  PROVE  OptionsInv'
<1>1. UNCHANGED <<opt, os, writing, words, said, seen, O!copy>> /\ answer' = <<>>
  BY DEF O!Sets, O!Refused
<1>2. ChildOK' /\ DOMAIN seen' = O!Fields
  BY <1>1, SeenStays
<1>3. QED BY <1>1, <1>2 DEF OptionsInv, OptionTypes, SaidIsSet, O!ReadsBack

LEMMA KeepaliveKeeps ==
  ASSUME OptionsInv, NEW b \in BOOLEAN, O!SetKeepalive(b)
  PROVE  OptionsInv'
<1>1. CASE O!Refused
  BY <1>1, RefusedKeeps DEF O!SetKeepalive
<1>2. CASE ~O!Refused
  <2>1. /\ os' = [os EXCEPT !.keepalive = b] /\ said' = [said EXCEPT !.keepalive = b]
        /\ UNCHANGED <<opt, writing, words, seen, O!copy>> /\ answer' = <<>> /\ writing = {}
    BY <1>2 DEF O!SetKeepalive, O!Sets
  <2>2. ChildOK' /\ DOMAIN seen' = O!Fields
    BY <2>1, SeenStays
  <2>3. /\ said' = [said EXCEPT !.keepalive = b] /\ DOMAIN said' = DOMAIN said
        /\ said'.keepalive = b /\ \A f \in DOMAIN said \ {"keepalive"} : said'[f] = said[f]
    BY <2>1 DEF OptionsInv, OptionTypes, O!Gettable
  <2>4. OptionTypes'
    BY <2>1, <2>2, <2>3 DEF OptionsInv, OptionTypes, O!Gettable, O!Fields
  <2>5. SaidIsSet'
    BY <2>1, <2>3 DEF OptionsInv, OptionTypes, SaidIsSet, O!Gettable, O!Fields, O!RecvFields
  <2>6. QED BY <2>1, <2>2, <2>4, <2>5 DEF OptionsInv, O!ReadsBack
<1>3. QED BY <1>1, <1>2

LEMMA NagleKeeps ==
  ASSUME OptionsInv, NEW b \in BOOLEAN, O!SetNagle(b)
  PROVE  OptionsInv'
<1>1. CASE O!Refused
  BY <1>1, RefusedKeeps DEF O!SetNagle
<1>2. CASE ~O!Refused
  <2>1. /\ os' = [os EXCEPT !.nodelay = ~b] /\ said' = [said EXCEPT !.nagle = b]
        /\ UNCHANGED <<opt, writing, words, seen, O!copy>> /\ answer' = <<>> /\ writing = {}
    BY <1>2 DEF O!SetNagle, O!Sets
  <2>2. ChildOK' /\ DOMAIN seen' = O!Fields
    BY <2>1, SeenStays
  <2>3. /\ DOMAIN said' = DOMAIN said
        /\ said'.nagle = b /\ \A f \in DOMAIN said \ {"nagle"} : said'[f] = said[f]
        /\ os'.nodelay = ~b /\ os'.keepalive = os.keepalive /\ DOMAIN os' = DOMAIN os
    BY <2>1 DEF OptionsInv, OptionTypes, O!Gettable
  <2>4. OptionTypes'
    BY <2>1, <2>2, <2>3 DEF OptionsInv, OptionTypes, O!Gettable, O!Fields
  <2>5. SaidIsSet'
    BY <2>1, <2>3 DEF OptionsInv, OptionTypes, SaidIsSet, O!Gettable, O!Fields, O!RecvFields
  <2>6. QED BY <2>1, <2>2, <2>4, <2>5 DEF OptionsInv, O!ReadsBack
<1>3. QED BY <1>1, <1>2

LEMMA BacklogKeeps ==
  ASSUME OptionsInv, NEW n \in Caps, O!SetBacklog(n)
  PROVE  OptionsInv'
<1>1. CASE n < 1
  BY <1>1, RefusedKeeps DEF O!SetBacklog
<1>2. CASE ~(n < 1)
  <2>1. /\ opt' = [opt EXCEPT !.acceptCap = n] /\ said' = [said EXCEPT !.acceptCap = n]
        /\ O!Sees /\ UNCHANGED <<os, writing, words, O!copy>> /\ answer' = <<>> /\ writing = {}
    BY <1>2 DEF O!SetBacklog, O!Sets
  <2>2. n \in Nat
    BY <1>2, CommandsAssumption
  <2>3. opt' \in OptionValues
    BY <2>1, <2>2 DEF OptionsInv, OptionTypes, OptionValues
  <2>4. ChildOK' /\ DOMAIN seen' = O!Fields
    BY <2>1, <2>3, SetSeen
  <2>5. /\ DOMAIN said' = DOMAIN said
        /\ said'.acceptCap = n /\ \A f \in DOMAIN said \ {"acceptCap"} : said'[f] = said[f]
    BY <2>1 DEF OptionsInv, OptionTypes, O!Gettable, O!Fields
  <2>6. /\ opt'.acceptCap = n
        /\ \A f \in {"mode", "recvCap", "bufCap", "sendCap"} : opt'[f] = opt[f]
    BY <2>1 DEF OptionsInv, OptionTypes, OptionValues
  <2>7. OptionTypes'
    BY <2>1, <2>2, <2>3, <2>4, <2>5 DEF OptionsInv, OptionTypes
  <2>8. SaidIsSet'
    BY <2>1, <2>2, <2>5, <2>6
    DEF OptionsInv, OptionTypes, SaidIsSet, O!Gettable, O!Fields, O!RecvFields
  <2>9. QED BY <2>1, <2>4, <2>7, <2>8 DEF OptionsInv, O!ReadsBack
<1>3. QED BY <1>1, <1>2

LEMMA SendCapKeeps ==
  ASSUME OptionsInv, NEW n \in Caps, O!SetSendCap(n)
  PROVE  OptionsInv'
<1>1. CASE n < 1
  BY <1>1, RefusedKeeps DEF O!SetSendCap
<1>2. CASE ~(n < 1)
  <2>1. /\ opt' = [opt EXCEPT !.sendCap = n] /\ said' = [said EXCEPT !.sendCap = n]
        /\ O!Sees /\ UNCHANGED <<os, writing, words, O!copy>> /\ answer' = <<>> /\ writing = {}
    BY <1>2 DEF O!SetSendCap, O!Sets
  <2>2. n \in Positive
    BY <1>2, CommandsAssumption DEF Positive
  <2>3. opt' \in OptionValues
    BY <2>1, <2>2 DEF OptionsInv, OptionTypes, OptionValues
  <2>4. ChildOK' /\ DOMAIN seen' = O!Fields
    BY <2>1, <2>3, SetSeen
  <2>5. /\ DOMAIN said' = DOMAIN said
        /\ said'.sendCap = n /\ \A f \in DOMAIN said \ {"sendCap"} : said'[f] = said[f]
    BY <2>1 DEF OptionsInv, OptionTypes, O!Gettable, O!Fields
  <2>6. /\ opt'.sendCap = n
        /\ \A f \in {"mode", "recvCap", "bufCap", "acceptCap"} : opt'[f] = opt[f]
    BY <2>1 DEF OptionsInv, OptionTypes, OptionValues
  <2>7. OptionTypes'
    BY <2>1, <2>2, <2>3, <2>4, <2>5 DEF OptionsInv, OptionTypes, O!Gettable, O!Fields
  <2>8. SaidIsSet'
    BY <2>1, <2>2, <2>5, <2>6
    DEF OptionsInv, OptionTypes, SaidIsSet, O!Gettable, O!Fields, O!RecvFields
  <2>9. QED BY <2>1, <2>4, <2>7, <2>8 DEF OptionsInv, O!ReadsBack
<1>3. QED BY <1>1, <1>2

\* IocpSetRecvMode writes the mode; the words are kept for the rest.
LEMMA EntersKeeps ==
  ASSUME OptionsInv, O!Sets, NEW mode \in O!RecvModes, NEW n \in Positive, NEW m \in Positive,
         O!Enters(mode, n, m)
  PROVE  OptionsInv'
<1>1. /\ opt' = [opt EXCEPT !.mode = mode] /\ writing' = {"recvCap", "bufCap"}
      /\ words' = [words EXCEPT !.mode = mode, !.recvCap = n, !.bufCap = m]
      /\ O!Sees /\ UNCHANGED <<os, said, O!copy>> /\ answer' = <<>>
  BY DEF O!Sets, O!Enters
<1>2. opt' \in OptionValues /\ words' \in OptionValues
      /\ opt'.mode = mode /\ words'.mode = mode
      /\ \A f \in {"acceptCap", "sendCap"} : opt'[f] = opt[f]
  BY <1>1 DEF OptionsInv, OptionTypes, OptionValues
<1>3. ChildOK' /\ DOMAIN seen' = O!Fields
  BY <1>1, <1>2, SetSeen
<1>4. OptionTypes'
  BY <1>1, <1>2, <1>3 DEF OptionsInv, OptionTypes
<1>5. SaidIsSet'
  BY <1>1, <1>2 DEF OptionsInv, SaidIsSet
<1>6. QED BY <1>1, <1>3, <1>4, <1>5 DEF OptionsInv, O!ReadsBack

LEMMA RecvModeKeeps ==
  ASSUME OptionsInv, NEW mode \in O!RecvModes, NEW n \in Caps, NEW m \in Caps,
         O!SetRecvMode(mode, n, m)
  PROVE  OptionsInv'
<1>1. O!Sets
  BY DEF O!SetRecvMode
<1>2. n \in Int /\ m \in Int /\ 1 \in Positive
  <2>1. Caps \subseteq Int
    BY CommandsAssumption
  <2>2. 1 \in Positive
    BY DEF Positive
  <2>3. QED BY <2>1, <2>2
<1>3. CASE mode = "burst" /\ (n < 1 \/ m < 1)
  BY <1>1, <1>3, RefusedKeeps DEF O!SetRecvMode
<1>4. CASE mode = "burst" /\ ~(n < 1 \/ m < 1)
  <2>1. O!Enters(mode, n, m) /\ n \in Positive /\ m \in Positive
    BY <1>2, <1>4 DEF O!SetRecvMode, Positive
  <2>2. QED BY <1>1, <2>1, EntersKeeps
<1>5. CASE mode # "burst"
  <2>1. O!Enters(mode, 1, 1)
    BY <1>5 DEF O!SetRecvMode
  <2>2. QED BY <1>1, <1>2, <2>1, EntersKeeps
<1>6. QED BY <1>3, <1>4, <1>5

LEMMA WriteCapKeeps ==
  ASSUME OptionsInv, NEW f \in O!RecvFields, O!WriteCap(f)
  PROVE  OptionsInv'
<1>1. /\ f \in writing /\ writing' = writing \ {f} /\ opt' = [opt EXCEPT ![f] = words[f]]
      /\ O!Sees /\ UNCHANGED <<os, words, answer, O!copy>>
      /\ f \in {"recvCap", "bufCap"} /\ answer = <<>>
  BY DEF O!WriteCap, OptionsInv, OptionTypes, SaidIsSet
<1>2. opt' \in OptionValues /\ opt'[f] = words[f]
      /\ \A g \in O!Fields \ {f} : opt'[g] = opt[g]
  BY <1>1 DEF OptionsInv, OptionTypes, OptionValues, O!Fields, O!RecvFields
<1>3. ChildOK' /\ DOMAIN seen' = O!Fields
  BY <1>1, <1>2, SetSeen
<1>4. DOMAIN said' = DOMAIN said
      /\ \A x \in DOMAIN said :
           said'[x] = IF writing' = {} /\ x \in O!RecvFields THEN words[x] ELSE said[x]
  BY DEF O!WriteCap
<1>5. OptionTypes'
  BY <1>1, <1>2, <1>3, <1>4
  DEF OptionsInv, OptionTypes, O!Gettable, O!Fields, O!RecvFields
<1>6. SaidIsSet'
  <2>1. opt'.mode = opt.mode /\ opt'.sendCap = opt.sendCap /\ opt'.acceptCap = opt.acceptCap
        /\ opt.mode = words.mode
    BY <1>1, <1>2 DEF O!Fields, O!RecvFields, OptionsInv, SaidIsSet
  <2>2. \A g \in {"recvCap", "bufCap"} \ writing' : opt'[g] = words[g]
    BY <1>1, <1>2 DEF O!Fields, O!RecvFields, OptionsInv, SaidIsSet
  <2>3. {"keepalive", "nagle", "sendCap", "acceptCap", "mode", "recvCap", "bufCap"}
          \subseteq DOMAIN said
    BY DEF OptionsInv, OptionTypes, O!Gettable, O!Fields, O!RecvFields
  <2>4. said'.keepalive = said.keepalive /\ said'.nagle = said.nagle
        /\ said'.sendCap = said.sendCap /\ said'.acceptCap = said.acceptCap
        /\ (writing' = {} => \A g \in {"mode", "recvCap", "bufCap"} : said'[g] = words[g])
    BY <1>4, <2>3 DEF O!RecvFields
  <2>5. QED BY <1>1, <2>1, <2>2, <2>4 DEF OptionsInv, SaidIsSet
<1>7. QED BY <1>1, <1>3, <1>5, <1>6 DEF OptionsInv, O!ReadsBack

LEMMA GetKeeps ==
  ASSUME OptionsInv, NEW o \in O!Gettable, O!Get(o)
  PROVE  OptionsInv'
<1>1. /\ writing = {} /\ answer' = <<o, O!Value(o)>>
      /\ UNCHANGED <<opt, os, writing, words, said, O!copy, seen>>
  BY DEF O!Get
<1>2. ChildOK' /\ DOMAIN seen' = O!Fields
  BY <1>1, SeenStays
<1>3. OptionTypes' /\ SaidIsSet'
  BY <1>1, <1>2 DEF OptionsInv, OptionTypes, SaidIsSet
<1>4. IF o = "acceptCap" THEN O!Value(o) <= said.acceptCap ELSE O!Value(o) = said[o]
  BY <1>1 DEF O!Value, OptionsInv, SaidIsSet, O!Gettable, O!Fields, O!RecvFields
<1>5. O!ReadsBack'
  BY <1>1, <1>4 DEF O!ReadsBack
<1>6. QED BY <1>2, <1>3, <1>5 DEF OptionsInv

LEMMA NoBufsKeeps ==
  ASSUME OptionsInv, O!NoBufs
  PROVE  OptionsInv'
<1>1. /\ opt' = [opt EXCEPT !.acceptCap = @ - 1] /\ opt.acceptCap > 0
      /\ O!Sees /\ UNCHANGED <<os, writing, words, said, answer, O!copy>>
  BY DEF O!NoBufs
<1>2. opt' \in OptionValues /\ opt'.acceptCap = opt.acceptCap - 1 /\ opt.acceptCap \in Nat
      /\ \A f \in {"mode", "recvCap", "bufCap", "sendCap"} : opt'[f] = opt[f]
  BY <1>1 DEF OptionsInv, OptionTypes, OptionValues
<1>3. ChildOK' /\ DOMAIN seen' = O!Fields
  BY <1>1, <1>2, SetSeen
<1>4. OptionTypes'
  BY <1>1, <1>2, <1>3 DEF OptionsInv, OptionTypes
<1>5. opt'.acceptCap <= said.acceptCap
  BY <1>2 DEF OptionsInv, OptionTypes, SaidIsSet
<1>6. SaidIsSet'
  BY <1>1, <1>2, <1>5 DEF OptionsInv, SaidIsSet
<1>7. QED BY <1>1, <1>3, <1>4, <1>6 DEF OptionsInv, O!ReadsBack

\* The completion thread's copying leaves what the script set.
LEMMA CopyLeaves ==
  ASSUME OptionsInv, UNCHANGED O!setting, DOMAIN seen' = O!Fields, ChildOK'
  PROVE  OptionsInv'
BY DEF OptionsInv, OptionTypes, SaidIsSet, O!ReadsBack, O!setting

LEMMA CopyKeeps ==
  ASSUME OptionsInv,
         O!AcceptBegin \/ (\E f \in O!RecvFields : O!CopyRecv(f)) \/ O!CopySend \/ O!FirstBuffer
  PROVE  OptionsInv'
<1>1. CASE O!AcceptBegin
  <2>1. DOMAIN seen' = O!Fields /\ UNCHANGED O!setting
    BY <1>1 DEF O!AcceptBegin
  <2>2. ChildOK'
    BY <1>1 DEF O!AcceptBegin, OptionsInv, ChildOK, Copied, O!setting
  <2>3. QED BY <2>1, <2>2, CopyLeaves
<1>2. ASSUME NEW f \in O!RecvFields, O!CopyRecv(f)
      PROVE  OptionsInv'
  <2>1. UNCHANGED O!setting /\ seen' = seen /\ DOMAIN seen' = O!Fields
    BY <1>2 DEF O!CopyRecv, OptionsInv, OptionTypes
  <2>2. /\ DOMAIN child' = DOMAIN child \cup {f} /\ child'[f] = opt[f]
        /\ \A g \in DOMAIN child \ {f} : child'[g] = child[g]
        /\ UNCHANGED <<accepted, first>> /\ copying = "recv" /\ accepted > 0
    BY <1>2 DEF O!CopyRecv, OptionsInv, ChildOK
  <2>3. copying' = IF DOMAIN child' = O!RecvFields THEN "send" ELSE "recv"
    BY <1>2, <2>2 DEF O!CopyRecv, OptionsInv, ChildOK, Copied
  <2>4. opt[f] \in seen[f] /\ (f # "mode" => opt[f] \in Positive)
    BY <2>2 DEF OptionsInv, OptionTypes, OptionValues, ChildOK, O!Fields, O!RecvFields
  <2>5. Copied(DOMAIN child)'
    BY <2>2, <2>3 DEF OptionsInv, ChildOK, Copied
  <2>6. ChildOK'
    BY <2>1, <2>2, <2>3, <2>4, <2>5 DEF OptionsInv, ChildOK, O!setting
  <2>7. QED BY <2>1, <2>6, CopyLeaves
<1>3. CASE O!CopySend
  <2>1. UNCHANGED O!setting /\ seen' = seen /\ DOMAIN seen' = O!Fields
    BY <1>3 DEF O!CopySend, OptionsInv, OptionTypes
  <2>2. /\ DOMAIN child' = DOMAIN child \cup {"sendCap"} /\ child'.sendCap = opt.sendCap
        /\ \A g \in DOMAIN child \ {"sendCap"} : child'[g] = child[g]
        /\ UNCHANGED <<accepted, first>> /\ copying = "send" /\ copying' = "first"
        /\ accepted > 0
    BY <1>3 DEF O!CopySend, OptionsInv, ChildOK
  <2>3. opt.sendCap \in seen.sendCap /\ opt.sendCap \in Positive
    BY <2>2 DEF OptionsInv, OptionTypes, OptionValues, ChildOK, O!Fields
  <2>4. ChildOK'
    BY <2>1, <2>2, <2>3 DEF OptionsInv, ChildOK, Copied, O!setting
  <2>5. QED BY <2>1, <2>4, CopyLeaves
<1>4. CASE O!FirstBuffer
  <2>1. UNCHANGED O!setting /\ seen' = seen /\ DOMAIN seen' = O!Fields
    BY <1>4 DEF O!FirstBuffer, OptionsInv, OptionTypes
  <2>2. ChildOK'
    BY <1>4 DEF O!FirstBuffer, OptionsInv, ChildOK, Copied, O!setting, O!Fields, O!RecvFields
  <2>3. QED BY <2>1, <2>2, CopyLeaves
<1>5. QED BY <1>1, <1>2, <1>3, <1>4

LEMMA OptionsInvStep ==
  ASSUME OptionsInv, O!OptionsNext
  PROVE  OptionsInv'
BY KeepaliveKeeps, NagleKeeps, BacklogKeeps, SendCapKeeps, RecvModeKeeps, WriteCapKeeps,
   GetKeeps, NoBufsKeeps, CopyKeeps
DEF O!OptionsNext

LEMMA OptionsSafe == OptionsInv => O!ReadsBack /\ O!InheritsWhatWasThere
BY DEF OptionsInv, ChildOK, Copied, O!InheritsWhatWasThere, O!RecvFields, Positive

-----------------------------------------------------------------------------
(* The IrDA commands                                                         *)

\* A command is at one of its calls, or there is none.
IrdaPlaces ==
  {"idle", "discovery", "enumerate", "device", "name", "decode", "query", "ias", "attribute"}

\* What a command holds says where it is, and its caller's value how far it has got.
IrdaInv ==
  /\ irda \in IrdaPlaces
  /\ devices = "held" <=> irda \in {"enumerate", "device", "name"}
  /\ irsocks \in Int /\ irlost \in Int
  /\ irsocks = irlost + IF irda \in {"enumerate", "device", "name", "ias"} THEN 1 ELSE 0
  /\ irda # "name" => encodings = 0
  /\ irda \notin {"idle", "device", "name", "attribute"} => irvalue = "NULL"
  /\ irda = "attribute" => irvalue = "new"
  /\ irda # "idle" => irresult = "none"
  /\ irerrno = "failure"
  /\ I!IrdaTells

\* No error of socket() or getsockopt() converts to an errno that is no failure.
LEMMA ErrorsAreFailures ==
  ASSUME NEW e \in IrdaErrors
  PROVE  I!Errno(e) = "failure"
<1>1. e \in Nat /\ e # 10035 /\ e # 10067 /\ ~(e >= 10094 /\ e <= 10100)
  BY IrdaErrorsAssumption DEF I!WSAEWOULDBLOCK, I!WSAEPROCLIM, I!WSASYSNOTREADY, I!WSAEDISCON
<1>2. CASE e \in 10035 .. 10071
  <2>1. e - 10035 \in 0 .. 10071 - 10035 /\ e - 10035 \notin {0, 10067 - 10035}
    BY <1>1, <1>2
  <2>2. QED BY <1>2, <2>1
    DEF I!Errno, I!wsaErrorTable1, I!WSAEWOULDBLOCK, I!WSAEREMOTE, I!WSAEPROCLIM
<1>3. CASE e \in 10091 .. 10112
  <2>1. e - 10091 \in 0 .. 10112 - 10091 /\ e - 10091 \notin 3 .. 10101 - 10091 - 1
    BY <1>1, <1>3
  <2>2. e \notin 10035 .. 10071
    BY <1>3
  <2>3. QED BY <1>3, <2>1, <2>2
    DEF I!Errno, I!wsaErrorTable2, I!WSAEWOULDBLOCK, I!WSAEREMOTE, I!WSASYSNOTREADY,
        I!WSAEREFUSED, I!WSAEDISCON
<1>4. CASE e \notin 10035 .. 10071 /\ e \notin 10091 .. 10112
  <2>1. CASE e \in 11001 .. 11031
    <3>1. e - 11001 \in 0 .. 11031 - 11001
      BY <1>1, <2>1
    <3>2. QED BY <1>4, <2>1, <3>1
      DEF I!Errno, I!wsaErrorTable3, I!WSAEWOULDBLOCK, I!WSAEREMOTE, I!WSASYSNOTREADY,
          I!WSAEREFUSED, I!WSAHOST_NOT_FOUND, I!WSA_QOS_RESERVED_PETYPE
  <2>2. CASE e \notin 11001 .. 11031
    BY <1>4, <2>2
      DEF I!Errno, I!WSAEWOULDBLOCK, I!WSAEREMOTE, I!WSASYSNOTREADY,
          I!WSAEREFUSED, I!WSAHOST_NOT_FOUND, I!WSA_QOS_RESERVED_PETYPE
  <2>3. QED BY <2>1, <2>2
<1>5. QED BY <1>2, <1>3, <1>4

LEMMA ReportsFailure ==
  ASSUME I!Reports
  PROVE  irda' = "idle" /\ irresult' = "error" /\ irerrno' = "failure"
BY ErrorsAreFailures DEF I!Reports, I!Ends

LEMMA IrdaInvInit == I!IrdaInit => IrdaInv
BY DEF I!IrdaInit, IrdaInv, IrdaPlaces, I!IrdaTells

\* However a command goes on, it holds what its place says.
LEMMA IrdaInvStep ==
  ASSUME IrdaInv, I!IrdaNext
  PROVE  IrdaInv'
<1> USE DEF IrdaInv, IrdaPlaces, I!IrdaTells, I!Ends
<1>1. CASE I!Call
  BY <1>1 DEF I!Call
<1>2. CASE I!DiscoverySocket
  BY <1>2, ReportsFailure DEF I!DiscoverySocket
<1>3. CASE I!Enumerate
  BY <1>3, ReportsFailure DEF I!Enumerate
<1>4. CASE I!Device
  BY <1>4 DEF I!Device
<1>5. CASE I!Name
  BY <1>5 DEF I!Name
<1>6. CASE I!DiscoveryEnd
  BY <1>6 DEF I!DiscoveryEnd
<1>7. CASE I!Decode
  BY <1>7 DEF I!Decode
<1>8. CASE I!QuerySocket
  BY <1>8, ReportsFailure DEF I!QuerySocket
<1>9. CASE I!Query
  BY <1>9, ReportsFailure DEF I!Query
<1>10. CASE I!Attribute
  BY <1>10 DEF I!Attribute
<1>11. QED
  BY I!IrdaNext, <1>1, <1>2, <1>3, <1>4, <1>5, <1>6, <1>7, <1>8, <1>9, <1>10 DEF I!IrdaNext

LEMMA IrdaSafe == IrdaInv => I!IrdaRemains /\ I!IrdaTells
BY DEF IrdaInv, I!IrdaRemains

-----------------------------------------------------------------------------
(* The resolver                                                              *)

\* Where no code has been sent for the line, and where there has been one.
Silent ==
  {"parse", "resolve", "names", "answer", "discover", "enumerate", "device", "attribute", "fault"}
OneRefusal == Len(reply) = 1 /\ reply[1] # 200

ReplyOK ==
  /\ server \in Silent => reply = <<>>
  /\ server = "error2" => reply \in Seq(Nat) /\ OneRefusal
  /\ server = "ready" =>
       /\ line \in N!Requests
       /\ IF line \in N!Unanswered THEN reply = <<>> ELSE reply \in Seq(Nat) /\ OneRefusal

\* The line says which calls are made for it.
LineOK ==
  /\ server \in {"resolve", "names", "error2"} => line = "inet"
  /\ server \in {"discover", "enumerate"} => line = "irda*"
  /\ server \in {"device", "attribute"} => line = "irda"
  /\ server = "answer" => line \in {"inet", "irda", "irda*"}
  /\ server = "fault" => line \in N!Fatal

HeldOK ==
  /\ hostaddr = "held" <=> server \in {"names", "error2"} \/ (server = "answer" /\ line = "inet")
  /\ nslost \in Int /\ nsocks \in Int
  /\ nsocks = nslost + IF server \in {"enumerate", "attribute"} THEN 1 ELSE 0
  /\ ~twice

NameInv == ReplyOK /\ LineOK /\ HeldOK /\ N!AnsweredOnce

LEMMA NameInvInit == N!NameServerInit => NameInv
BY DEF N!NameServerInit, NameInv, ReplyOK, LineOK, HeldOK, N!AnsweredOnce, Silent,
       N!Requests, N!Fatal, N!Unanswered

\* The first code of an answer, when it is not the last.
LEMMA Refuses ==
  ASSUME NameInv, server \in Silent, NEW c \in Nat \ {200}, N!Sends(c)
  PROVE  reply' \in Seq(Nat) /\ Len(reply') = 1 /\ reply'[1] # 200
<1>1. reply' = Append(<<>>, c)
  BY DEF NameInv, ReplyOK, N!Sends
<1>2. Append(<<>>, c) = <<c>>
  OBVIOUS
<1>3. QED BY <1>1, <1>2

LEMMA SecondCode ==
  ASSUME NEW s \in Seq(Nat), Len(s) = 1, NEW c \in Nat
  PROVE  Len(Append(s, c)) = 2 /\ Append(s, c)[1] = s[1] /\ Append(s, c)[2] = c
         /\ DOMAIN Append(s, c) = 1 .. 2
<1>1. Append(s, c) \in Seq(Nat) /\ Len(Append(s, c)) = Len(s) + 1
  BY AppendProperties
<1>2. Append(s, c)[1] = s[1]
  <2>1. \A i \in 1 .. Len(s) : Append(s, c)[i] = s[i]
    BY AppendProperties
  <2>2. 1 \in 1 .. Len(s)
    OBVIOUS
  <2>3. QED BY <2>1, <2>2
<1>3. Append(s, c)[Len(s) + 1] = c
  BY AppendProperties
<1>4. DOMAIN Append(s, c) = 1 .. Len(Append(s, c))
  BY <1>1
<1>5. QED BY <1>1, <1>2, <1>3, <1>4

\* A step that leaves reply, line and the resolver's place alone.
LEMMA ClientWrites ==
  ASSUME NameInv, UNCHANGED <<server, line, reply, hostaddr, addrsLeft, nsocks, nslost, twice>>
  PROVE  NameInv'
BY DEF NameInv, ReplyOK, LineOK, HeldOK, N!AnsweredOnce, Silent, OneRefusal, N!Requests

LEMMA ReadyAnswers ==
  ASSUME NameInv, N!SendReady
  PROVE  NameInv'
<1> USE DEF N!pipe, N!lookup
<1>1. server = "ready" /\ server' = "loop" /\ reply' = Append(reply, 200) /\ line' = line
      /\ UNCHANGED <<hostaddr, nsocks, nslost, twice>>
  BY DEF N!SendReady, N!Sends
<1>2. line \in N!Requests
  BY <1>1 DEF NameInv, ReplyOK
<1>3. N!AnsweredOnce'
  <2>1. CASE line \in N!Unanswered
    <3>1. reply' = <<200>>
      BY <1>1, <2>1 DEF NameInv, ReplyOK
    <3>2. Len(reply') = 1 /\ \A i \in DOMAIN reply' : reply'[i] = 200 <=> i = Len(reply')
      BY <3>1
    <3>3. QED BY <1>1, <1>2, <2>1, <3>2 DEF N!AnsweredOnce
  <2>2. CASE line \notin N!Unanswered
    <3>1. reply \in Seq(Nat) /\ Len(reply) = 1 /\ reply[1] # 200
      BY <1>1, <2>2 DEF NameInv, ReplyOK, OneRefusal
    <3>2. Len(reply') = 2 /\ reply'[1] # 200 /\ reply'[2] = 200 /\ DOMAIN reply' = 1 .. 2
      BY <1>1, <3>1, SecondCode
    <3>3. \A i \in DOMAIN reply' : reply'[i] = 200 <=> i = Len(reply')
      BY <3>2
    <3>4. QED BY <1>1, <1>2, <2>2, <3>2, <3>3 DEF N!AnsweredOnce
  <2>3. QED BY <2>1, <2>2
<1>4. QED BY <1>1, <1>3 DEF NameInv, ReplyOK, LineOK, HeldOK, Silent

LEMMA NameInvStep ==
  ASSUME NameInv, N!NameServerNext
  PROVE  NameInv'
<1>1. CASE (\E l \in N!NoRequests \cup N!Requests : N!Write(l)) \/ N!WritePart \/ N!CloseInput
  <2>1. UNCHANGED <<server, line, reply, hostaddr, addrsLeft, nsocks, nslost, twice>>
    BY <1>1 DEF N!Write, N!WritePart, N!CloseInput, N!lookup
  <2>2. QED BY <2>1, ClientWrites
<1> USE DEF NameInv, ReplyOK, LineOK, HeldOK, N!AnsweredOnce, Silent, OneRefusal, N!Sends,
            N!pipe, N!lookup
<1>2. CASE N!Start
  BY <1>2 DEF N!Start
<1>3. CASE N!ReadLine
  BY <1>3 DEF N!ReadLine, N!Requests
<1>4. CASE N!ReadEof
  BY <1>4 DEF N!ReadEof
<1>5. CASE N!ReadPart
  BY <1>5 DEF N!ReadPart
<1>6. CASE N!Finalize
  BY <1>6 DEF N!Finalize
<1>7. CASE N!Reject
  BY <1>7 DEF N!Reject, N!Requests, N!NoRequests
<1>8. CASE N!DoNameWork
  <2>1. server = "parse" /\ line \in N!Requests /\ server' \in N!Leads(line) /\ line' = line
        /\ UNCHANGED <<hostaddr, nsocks, nslost, twice>> /\ reply = <<>>
    BY <1>8 DEF N!DoNameWork
  <2>2. CASE line = "inetSet"
    <3>1. server' = "ready" /\ reply' = Append(reply, 600)
      BY <1>8, <2>1, <2>2 DEF N!DoNameWork, N!Leads
    <3>2. reply' \in Seq(Nat) /\ OneRefusal'
      BY <2>1, <3>1, Refuses
    <3>3. QED BY <2>1, <2>2, <3>1, <3>2 DEF N!Unanswered
  <2>3. CASE line # "inetSet"
    <3>1. reply' = reply
      BY <1>8, <2>3 DEF N!DoNameWork
    <3>2. \/ line = "inet" /\ server' = "resolve"
          \/ line \in N!Unanswered /\ server' = "ready"
          \/ line = "irda*" /\ server' = "discover"
          \/ line = "irda" /\ server' = "device"
          \/ line \in N!Fatal /\ server' = "fault"
      BY <2>1, <2>3 DEF N!Leads, N!Requests, N!Unanswered, N!Fatal
    <3>3. QED BY <2>1, <3>1, <3>2
  <2>4. QED BY <2>2, <2>3
<1>9. CASE N!SendReady
  BY <1>9, ReadyAnswers
<1>10. CASE N!SendAnswers
  BY <1>10, Refuses DEF N!SendAnswers, N!Requests, N!Unanswered, N!Fatal
<1>11. CASE N!Resolve
  BY <1>11, Refuses DEF N!Resolve, N!Requests, N!Unanswered, N!Fatal
<1>12. CASE N!NextName
  BY <1>12, Refuses DEF N!NextName
<1>13. CASE N!FreeAddrInfo
  BY <1>13 DEF N!FreeAddrInfo, N!Requests, N!Unanswered, N!Fatal
<1>14. CASE N!Discover
  BY <1>14, Refuses DEF N!Discover, N!Requests, N!Unanswered, N!Fatal
<1>15. CASE N!EnumerateDevices
  BY <1>15, Refuses DEF N!EnumerateDevices, N!Requests, N!Unanswered, N!Fatal
<1>16. CASE N!QueryDevice
  BY <1>16, Refuses DEF N!QueryDevice, N!Requests, N!Unanswered, N!Fatal
<1>17. CASE N!QueryAttribute
  BY <1>17, Refuses DEF N!QueryAttribute, N!Requests, N!Unanswered, N!Fatal
<1>18. QED
  BY N!NameServerNext, <1>1, <1>2, <1>3, <1>4, <1>5, <1>6, <1>7, <1>8, <1>9, <1>10, <1>11, <1>12, <1>13, <1>14,
     <1>15, <1>16, <1>17
  DEF N!NameServerNext

LEMMA ResolverSafe == NameInv => N!ResolverRemains /\ N!AnsweredOnce
BY DEF NameInv, HeldOK, N!ResolverRemains

-----------------------------------------------------------------------------
(* All of them                                                               *)

CommandsInv == CreateInv /\ OptionsInv /\ IrdaInv /\ NameInv

LEMMA CreateStays ==
  ASSUME CreateInv, UNCHANGED vars
  PROVE  CreateInv'
<1> USE DEF vars, request, place, addrs, socket, connect, counts, caches, CreateInv
<1>1. TypeOK'
  BY DEF TypeOK
<1>2. PlaceOK' /\ AddressesOK' /\ BoundOK'
  BY DEF PlaceOK, AddressesOK, BoundOK
<1>3. SocketOK' /\ PostsOK'
  BY DEF SocketOK, PostsOK, NoSocket, HasSocket
<1>4. FailedOK' /\ LeaksOK' /\ NothingTwice'
  BY DEF FailedOK, LeaksOK, NothingTwice
<1>5. QED BY <1>1, <1>2, <1>3, <1>4

LEMMA OptionsStay ==
  ASSUME OptionsInv, UNCHANGED options
  PROVE  OptionsInv'
BY DEF OptionsInv, options, OptionTypes, SaidIsSet, O!ReadsBack, ChildOK, Copied

LEMMA IrdaStays ==
  ASSUME IrdaInv, UNCHANGED infrared
  PROVE  IrdaInv'
BY DEF IrdaInv, infrared, I!IrdaTells

LEMMA NameStays ==
  ASSUME NameInv, UNCHANGED resolver
  PROVE  NameInv'
BY DEF NameInv, resolver, ReplyOK, OneRefusal, LineOK, HeldOK, N!AnsweredOnce

LEMMA CommandsInvInit == CommandsInit => CommandsInv
BY CreateInvInit, OptionsInvInit, IrdaInvInit, NameInvInit DEF CommandsInit, CommandsInv

LEMMA CommandsInvStep == CommandsInv /\ [CommandsNext]_commandVars => CommandsInv'
<1> SUFFICES ASSUME CommandsInv, [CommandsNext]_commandVars
             PROVE  CommandsInv'
  OBVIOUS
<1>1. CASE Socket2
  BY <1>1, CreateInvStep, OptionsStay, IrdaStays, NameStays DEF Socket2, CommandsInv
<1>2. CASE Opened
  BY <1>2, CreateStays, OptionsStay, IrdaStays, NameStays DEF Opened, CommandsInv
<1>3. CASE Configure
  BY <1>3, CreateStays, OptionsInvStep, IrdaStays, NameStays DEF Configure, CommandsInv
<1>4. CASE IrdaCommand
  BY <1>4, CreateStays, OptionsStay, IrdaInvStep, NameStays DEF IrdaCommand, CommandsInv
<1>5. CASE Resolver
  BY <1>5, CreateStays, OptionsStay, IrdaStays, NameInvStep DEF Resolver, CommandsInv
<1>6. CASE UNCHANGED commandVars
  BY <1>6, CreateStays, OptionsStay, IrdaStays, NameStays DEF commandVars, CommandsInv
<1>7. QED BY <1>1, <1>2, <1>3, <1>4, <1>5, <1>6 DEF CommandsNext

LEMMA CommandsAlways == CommandsSpec => []CommandsInv
BY CommandsInvInit, CommandsInvStep, PTL DEF CommandsSpec

\* Every variable of the socket2 command keeps its type.
THEOREM SocketTypes == CommandsSpec => []TypeOK
<1>1. CommandsInv => TypeOK
  BY DEF CommandsInv, CreateInv
<1>2. QED BY <1>1, CommandsAlways, PTL

\* Whichever call of whichever command fails, what is left is what the code is known to
\* lose and nothing else.  Of a socket2 that is the client's own address before bind, the
\* buffer of a connect whose port is refused, the job of a thread that does not start, and
\* never the host's addresses, the catalog, a socket or a SocketInfo (CreateTcpSocket and
\* its labels, OurConnectEx); of an IrDA command and of a resolver's request one socket for
\* each enumeration that failed (ws2irda.c, tclname.c).
THEOREM LeaksAreKnown == CommandsSpec => []OnlyLeaksRemain
<1>1. CommandsInv => OnlyLeaksRemain
  BY CreateSafe, IrdaSafe, ResolverSafe DEF CommandsInv, OnlyLeaksRemain
<1>2. QED BY <1>1, CommandsAlways, PTL

\* No path through CreateTcpSocket, the close or HandleIo frees an address list or a
\* SocketInfo twice; and none uses a freed one, but for the AcceptEx calls of a listener
\* that were posted before a later one failed.
THEOREM FreesOnce == CommandsSpec => []NothingTwice
<1>1. CommandsInv => NothingTwice
  BY CreateSafe DEF CommandsInv
<1>2. QED BY <1>1, CommandsAlways, PTL

\* Each overlapped call of a client socket finds its SocketInfo live and its socket on the
\* completion port, from ConnectEx or the first receive to the last completion.
THEOREM ClientPostsAreHeard == CommandsSpec => []PostsAreHeard
<1>1. CommandsInv => PostsAreHeard
  BY CreateSafe DEF CommandsInv
<1>2. QED BY <1>1, CommandsAlways, PTL

\* The resolver answers each request it is done with once (IPX and Bluetooth only by the
\* 200), and one that ends it is of IrDA or of Bluetooth and has had no code; an IrDA
\* command gives its value exactly when it succeeds and fails with the errno of a failure;
\* and an option reads back as it was set.
THEOREM CallersAreTold == CommandsSpec => []CallerIsTold
<1>1. CommandsInv => CallerIsTold
  BY IrdaSafe, ResolverSafe, OptionsSafe DEF CommandsInv, CallerIsTold
<1>2. QED BY <1>1, CommandsAlways, PTL

\* However NewAcceptSockInfo and the script interleave, an accepted socket has, option by
\* option, a value its listener had meanwhile, and no cap below one.
THEOREM ChildrenInherit == CommandsSpec => []InheritsWhatWasThere
<1>1. CommandsInv => InheritsWhatWasThere
  BY OptionsSafe DEF CommandsInv, InheritsWhatWasThere
<1>2. QED BY <1>1, CommandsAlways, PTL
=============================================================================
