----------------------------- MODULE NameServer -----------------------------
(***************************************************************************)
(* The name resolver that a Tcl process runs at the other end of two pipes        *)
(* (src/tclname.c).  The client writes a request on a line; the resolver answers    *)
(* 201, or an error, and then 200 "ready".  A line it cannot read as a request it   *)
(* answers by 600, or not at all.                                              *)
(*                                                                          *)
(* Requests are told apart by how far they get.  Of Bluetooth the source holds the  *)
(* dispatch, a discovery without a body and a query whose parameters are not its    *)
(* caller's (it is a vendor's sample): what they return is not defined, and neither  *)
(* makes an answer.                                                          *)
(***************************************************************************)
EXTENDS Integers, Sequences

CONSTANTS
  MaxLines,   \* bound on the lines the client writes
  MaxAddrs    \* bound on the addresses of a host

\* Not requests: an empty line; not a list; a wrong count, command or namespace.
NoRequests == {"blank", "noList", "arity", "noCommand", "noSpace"}
\* Requests; "...*" is discovery, "...Bad" lacks the two arguments or registers.
Requests == {"inet", "inetSet", "irda*", "irda", "irdaBad", "bth", "bthBad", "ipx"}
\* Those that may end the resolver, and those that are served without an answer.
Fatal == {"irda", "irdaBad", "bth", "bthBad"}
Unanswered == {"bth", "ipx"}

VARIABLES
  inPipe,    \* the whole lines in the pipe from the client
  partial,   \* part of another line is there, too
  inEof,     \* the client has closed its end
  written,   \* lines written so far
  server,    \* where the resolver is
  line,      \* the line being answered, or the last one answered
  reply,     \* the codes sent since it was read
  hostaddr,  \* the list of getaddrinfo: "none", "held", "freed"
  addrsLeft, \* addresses of it not asked for their name yet
  nsocks, nslost, \* IrDA sockets that are open; history: enumerations that have failed
  twice      \* hostaddr was freed when it was not held

pipe == <<inPipe, partial, inEof, written>>
lookup == <<hostaddr, addrsLeft, nsocks, nslost, twice>>

NameServerInit ==
  /\ inPipe = <<>> /\ partial = FALSE /\ inEof = FALSE /\ written = 0
  /\ server = "start" /\ line = "blank" /\ reply = <<>>
  /\ hostaddr = "none" /\ addrsLeft = 0 /\ nsocks = 0 /\ nslost = 0 /\ twice = FALSE

-----------------------------------------------------------------------------
(* The client                                                                *)

\* A line arrives whole, or the rest of one.
Write(l) ==
  /\ ~inEof /\ written < MaxLines /\ written' = written + 1
  /\ inPipe' = Append(inPipe, l) /\ partial' = FALSE
  /\ UNCHANGED <<inEof, server, line, reply, lookup>>

WritePart ==
  /\ ~inEof /\ ~partial /\ written < MaxLines /\ partial' = TRUE
  /\ UNCHANGED <<inPipe, inEof, written, server, line, reply, lookup>>

\* At the end of file Tcl takes what is there for a line.
CloseInput ==
  /\ ~inEof /\ inEof' = TRUE /\ partial' = FALSE
  /\ inPipe' = IF partial THEN Append(inPipe, "noList") ELSE inPipe
  /\ UNCHANGED <<written, server, line, reply, lookup>>

-----------------------------------------------------------------------------
(* The resolver                                                              *)

Sends(code) == reply' = Append(reply, code)

\* Init: WSAStartup may fail, and then main returns.
Start ==
  /\ server = "start"
  /\ \/ server' = "loop" /\ reply' = <<1, 200>>
     \/ server' = "dead" /\ reply' = <<500>>
  /\ UNCHANGED <<pipe, line, lookup>>

\* StdinReadable
ReadLine ==
  /\ server = "loop" /\ inPipe # <<>>
  /\ inPipe' = Tail(inPipe) /\ line' = Head(inPipe) /\ reply' = <<>>
  /\ server' = IF Head(inPipe) = "blank" THEN "loop" ELSE "parse"
  /\ UNCHANGED <<partial, inEof, written, lookup>>

ReadEof ==
  /\ server = "loop" /\ inPipe = <<>> /\ inEof /\ server' = "finalize"
  /\ UNCHANGED <<pipe, line, reply, lookup>>

\* The channel does not block, so Tcl_GetsObj fails on part of a line: the resolver
\* reports that and exits.
ReadPart ==
  /\ server = "loop" /\ inPipe = <<>> /\ partial /\ server' = "finalize"
  /\ line' = "noList" /\ reply' = <<500>>
  /\ UNCHANGED <<pipe, lookup>>

Finalize ==
  /\ server = "finalize" /\ server' = "dead"
  /\ UNCHANGED <<pipe, line, reply, lookup>>

\* ParseNameProtocol
Reject ==
  /\ server = "parse" /\ line \in NoRequests /\ server' = "loop"
  /\ IF line = "noList" THEN UNCHANGED reply ELSE Sends(600)
  /\ UNCHANGED <<pipe, line, lookup>>

\* DoNameWork, and the tests at the top of Do_IrDA_Work, Do_Bth_Work and Do_Ipx_Work.
\* Without its arguments, or to register, IrDA and Bluetooth answer with a list that is
\* NULL, and the program faults; so it does when Bluetooth's query says that it went
\* well.  IPX has no answer.
Leads(l) ==
  CASE l = "inet" -> {"resolve"}
    [] l \in {"inetSet", "ipx"} -> {"ready"}
    [] l = "irda*" -> {"discover"}
    [] l = "irda" -> {"device"}
    [] l = "bth" -> {"ready", "fault"}
    [] OTHER -> {"fault"}

DoNameWork ==
  /\ server = "parse" /\ line \in Requests /\ server' \in Leads(line)
  /\ IF line = "inetSet" THEN Sends(600) ELSE UNCHANGED reply
  /\ UNCHANGED <<pipe, line, lookup>>

SendReady ==
  /\ server = "ready" /\ server' = "loop" /\ Sends(200)
  /\ UNCHANGED <<pipe, line, lookup>>

SendAnswers ==
  /\ server = "answer" /\ Sends(201)
  /\ server' = IF line = "inet" THEN "error2" ELSE "ready"
  /\ UNCHANGED <<pipe, line, lookup>>

-----------------------------------------------------------------------------
(* Do_IP_Work                                                                *)

\* Mutant of Resolve: without a list it goes to the label that frees it.
ResolveFrees ==
  /\ server = "resolve"
  /\ \/ Sends(405) /\ server' = "error2" /\ UNCHANGED <<hostaddr, addrsLeft>>
     \/ /\ server' = "names" /\ hostaddr' = "held" /\ addrsLeft' \in 1 .. MaxAddrs
        /\ UNCHANGED reply
  /\ UNCHANGED <<pipe, line, nsocks, nslost, twice>>

\* getaddrinfo
Resolve ==
  /\ server = "resolve"
  /\ \/ Sends(405) /\ server' = "ready" /\ UNCHANGED <<hostaddr, addrsLeft>>
     \/ /\ server' = "names" /\ hostaddr' = "held" /\ addrsLeft' \in 1 .. MaxAddrs
        /\ UNCHANGED reply
  /\ UNCHANGED <<pipe, line, nsocks, nslost, twice>>

\* Mutant of NextName: an address without a name is reported and passed over.
NextNameGoesOn ==
  /\ server = "names"
  /\ IF addrsLeft = 0
     THEN server' = "answer" /\ UNCHANGED <<addrsLeft, reply>>
     ELSE /\ addrsLeft' = addrsLeft - 1 /\ UNCHANGED server
          /\ Sends(406) \/ UNCHANGED reply
  /\ UNCHANGED <<pipe, line, hostaddr, nsocks, nslost, twice>>

\* getnameinfo of the next address; one that fails is the answer.
NextName ==
  /\ server = "names"
  /\ IF addrsLeft = 0
     THEN server' = "answer" /\ UNCHANGED <<addrsLeft, reply>>
     ELSE \/ addrsLeft' = addrsLeft - 1 /\ UNCHANGED <<server, reply>>
          \/ Sends(406) /\ server' = "error2" /\ UNCHANGED addrsLeft
  /\ UNCHANGED <<pipe, line, hostaddr, nsocks, nslost, twice>>

FreeAddrInfo ==
  /\ server = "error2" /\ server' = "ready"
  /\ hostaddr' = "freed" /\ addrsLeft' = 0 /\ twice' = (twice \/ hostaddr # "held")
  /\ UNCHANGED <<pipe, line, reply, nsocks, nslost>>

-----------------------------------------------------------------------------
(* Do_IrDA_Work                                                              *)

\* Do_IrDA_Discovery: WSASocket.
Discover ==
  /\ server = "discover"
  /\ \/ Sends(407) /\ server' = "ready" /\ UNCHANGED nsocks
     \/ server' = "enumerate" /\ nsocks' = nsocks + 1 /\ UNCHANGED reply
  /\ UNCHANGED <<pipe, line, hostaddr, addrsLeft, nslost, twice>>

\* getsockopt; when it fails the socket stays open.
EnumerateDevices ==
  /\ server = "enumerate"
  /\ \/ Sends(408) /\ server' = "ready" /\ nslost' = nslost + 1 /\ UNCHANGED nsocks
     \/ server' = "answer" /\ nsocks' = nsocks - 1 /\ UNCHANGED <<reply, nslost>>
  /\ UNCHANGED <<pipe, line, hostaddr, addrsLeft, twice>>

\* Do_IrDA_Query: the device id, and the socket.
QueryDevice ==
  /\ server = "device"
  /\ \/ \E code \in {409, 407} : Sends(code) /\ server' = "ready" /\ UNCHANGED nsocks
     \/ server' = "attribute" /\ nsocks' = nsocks + 1 /\ UNCHANGED reply
  /\ UNCHANGED <<pipe, line, hostaddr, addrsLeft, nslost, twice>>

\* getsockopt, and the attribute by its type: one that is not known is a panic.
QueryAttribute ==
  /\ server = "attribute" /\ nsocks' = nsocks - 1
  /\ \/ \E code \in {408, 410} : Sends(code) /\ server' = "ready"
     \/ server' \in {"answer", "fault"} /\ UNCHANGED reply
  /\ UNCHANGED <<pipe, line, hostaddr, addrsLeft, nslost, twice>>

NameServerNext ==
  \/ \E l \in NoRequests \cup Requests : Write(l)
  \/ WritePart \/ CloseInput
  \/ Start \/ ReadLine \/ ReadEof \/ ReadPart \/ Finalize
  \/ Reject \/ DoNameWork \/ SendReady \/ SendAnswers
  \/ Resolve \/ NextName \/ FreeAddrInfo
  \/ Discover \/ EnumerateDevices \/ QueryDevice \/ QueryAttribute

-----------------------------------------------------------------------------
\* The client can count: a request the resolver is done with was answered by one code and
\* by 200, whichever call fails under it (by the 200 alone if it is IPX or Bluetooth,
\* which have no answer yet); any other line by one 600 at most, and without a 200.  A
\* request that ends the resolver is of IrDA or of Bluetooth and gets no code at all.
AnsweredOnce ==
  /\ server = "loop" /\ reply # <<1, 200>> =>
       IF line \in Requests
       THEN Len(reply) = (IF line \in Unanswered THEN 1 ELSE 2) /\ \A i \in DOMAIN reply :
              reply[i] = 200 <=> i = Len(reply)
       ELSE reply \in {<<>>, <<600>>}
  /\ server = "fault" => line \in Fatal /\ reply = <<>>

\* Between two lines the resolver holds no address list, and of its sockets exactly one
\* for each enumeration that failed (tclname.c does not close it); and it never frees an
\* address list it does not hold.
ResolverRemains ==
  /\ server \in {"loop", "dead"} => hostaddr # "held" /\ nsocks = nslost
  /\ ~twice

\* Every request is answered.  Broken by the code: a request that Fatal names may be the
\* last one.
NeverFaults == server # "fault"

\* The resolver exits when its client does.  Broken by the code: part of a line ends
\* it (ReadPart).
ExitsAtEof == server = "finalize" => inEof
=============================================================================
