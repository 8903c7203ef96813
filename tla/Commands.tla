------------------------------ MODULE Commands ------------------------------
(***************************************************************************)
(* What a command leaves behind when it ends, and what it told: the socket2       *)
(* command (SocketCreate) and then the options of the listener it made (Options),   *)
(* the IrDA commands (Irda), and the requests to the resolver program (NameServer).  *)
(*                                                                          *)
(* A thread runs one command at a time and the resolver is a program of its own,    *)
(* so the three are followed one at a time.                                       *)
(***************************************************************************)
EXTENDS SocketCreate

CONSTANTS
  Caps, Recommended, DefaultCap, MaxSets, MaxAccepted,
  IrdaErrors, DeviceLimit, MaxIrda,
  MaxLines, MaxAddrs

ASSUME CommandsAssumption ==
  /\ Caps \subseteq Int /\ {Recommended, DefaultCap} \subseteq Nat \ {0}
  /\ {MaxSets, MaxAccepted, DeviceLimit, MaxIrda, MaxLines, MaxAddrs} \subseteq Nat

VARIABLES
  doing,   \* the one that is followed: "socket2", then "configure"; "irda"; "resolver"
  opt, os, writing, words, result, said, answer, sets, child, copying, first, seen, accepted,
  irda, ircount, irsocks, irlost, devices, found, encodings, irvalue, irresult, irerrno,
  inPipe, partial, inEof, written, server, line, reply, hostaddr, addrsLeft, nsocks, nslost,
  twice

O == INSTANCE Options
I == INSTANCE Irda
N == INSTANCE NameServer

\* What a socket that blocks reports: not WSAEWOULDBLOCK, nor WSAEPROCLIM, which is
\* WSAStartup's; and the gap before WSAEDISCON holds no Winsock error.
ASSUME IrdaErrorsAssumption ==
  IrdaErrors \subseteq
    Nat \ ({I!WSAEWOULDBLOCK, I!WSAEPROCLIM}
           \cup (I!WSASYSNOTREADY + 3) .. (I!WSAEDISCON - 1))

options  == <<opt, os, writing, words, result, said, answer, sets, child, copying, first,
              seen, accepted>>
infrared == <<irda, ircount, irsocks, irlost, devices, found, encodings, irvalue, irresult,
              irerrno>>
resolver == <<inPipe, partial, inEof, written, server, line, reply, hostaddr, addrsLeft,
              nsocks, nslost, twice>>
commandVars == <<doing, vars, options, infrared, resolver>>

CommandsInit ==
  /\ doing \in {"socket2", "irda", "resolver"}
  /\ Init /\ O!OptionsInit /\ I!IrdaInit /\ N!NameServerInit

Socket2 ==
  /\ doing = "socket2" /\ Next
  /\ UNCHANGED <<doing, options, infrared, resolver>>

\* The command has made a listener: its options are followed from here.
Opened ==
  /\ doing = "socket2" /\ IsOpen /\ kind = "server" /\ doing' = "configure"
  /\ UNCHANGED <<vars, options, infrared, resolver>>

Configure ==
  /\ doing = "configure" /\ O!OptionsNext
  /\ UNCHANGED <<doing, vars, infrared, resolver>>

IrdaCommand ==
  /\ doing = "irda" /\ I!IrdaNext
  /\ UNCHANGED <<doing, vars, options, resolver>>

Resolver ==
  /\ doing = "resolver" /\ N!NameServerNext
  /\ UNCHANGED <<doing, vars, options, infrared>>

CommandsNext == Socket2 \/ Opened \/ Configure \/ IrdaCommand \/ Resolver

CommandsSpec == CommandsInit /\ [][CommandsNext]_commandVars

-----------------------------------------------------------------------------
\* However a command ends, at whichever of its steps it fails, what is left of it is known.
\* A socket2 leaves no socket, record or host address that an orderly close will not
\* free, but a client that fails before bind loses its local address, a refused port the
\* connect's buffer, a thread that does not start its job (CreateTcpSocket,
\* OurConnectEx); an IrDA command and a resolver's request leave nothing but one socket
\* for each enumeration that failed (ws2irda.c, tclname.c).
OnlyLeaksRemain == CommandRemains /\ I!IrdaRemains /\ N!ResolverRemains

\* Whoever is told is told once, and the truth: the resolver answers a request it is done
\* with once, IPX and Bluetooth apart, and then says that it is ready, and if a request
\* ends it, one of IrDA or Bluetooth, it has said nothing of it (tclname.c); an IrDA
\* command gives a value if and only if it succeeds and never fails with the errno of
\* success (ws2irda.c, IocpWinConvertWSAError); an option got is the option that was set
\* (IocpSetOptionProc, IocpGetOptionProc).
CallerIsTold == N!AnsweredOnce /\ I!IrdaTells /\ O!ReadsBack

\* A socket accepted while its listener's options change (NewAcceptSockInfo) has, for
\* each option, a value the listener had since the copying began.
InheritsWhatWasThere == O!InheritsWhatWasThere
=============================================================================
