# A verification project for iocpsock

iocpsock is a Tcl channel driver for Windows sockets built on overlapped I/O and
an I/O completion port. This directory holds TLA+ specifications of it, the TLC
configurations that model-check them and machine-checked proofs about them. Line
numbers refer to the files in `src/`; `lolevel` stands for `src/iocpsock_lolevel.c`
and `hilevel` for `src/iocpsock_hilevel.c`. `PROJECT.json` maps each definition to
the lines it models.

## 1. Inventory

Two kinds of thread share every `SocketInfo`:

- **Tcl threads** run scripts, the driver procedures (`IocpInputProc`,
  `IocpOutputProc`, `IocpWatchProc`, `IocpClose2Proc`, ...) and the event source
  (`IocpEventSetupProc`, `IocpEventCheckProc`, `IocpEventProc`);
- **the completion thread**, exactly one, takes completions off the port
  (`CompletionThreadProc`) and handles each to its end (`HandleIo`).

They meet in Interlocked counters, in the lists of `linkedlist.c`, in plain fields
(`flags`, `watchMask`, `needRecvRestart`, `channel`, `tsdHome`) and through
`Tcl_ThreadAlert`.

| Component | State | Operations | What makes it hard | What makes it correct |
|---|---|---|---|---|
| Socket lifetime (`lolevel`, `ws2tcp.c`) | `outstandingOps`, `IOCP_CLOSING`, `IOCP_CLOSABLE`, `channel`, `readyAccepts`, the operations Winsock has | open, accept, post, complete, close, free | who frees is decided by a count both threads change; error paths take references back in other places than they were taken | the count is exact; only the last operation frees; a socket in use is never freed; a closed one is freed in the end |
| Buffers (`lolevel`) | every `BufferInfo`, where it is | get, post, complete, queue, merge, free | each call has several failures, each with another owner of the buffer | one owner at a time; none left when the socket is freed |
| Tcl notifier (`lolevel`) | `readySockets`, `markedReady`, `watchMask`, event queue, alerts | zap, setup, check, service, watch, close | flag and list are changed by both threads, partly without the lock | nobody sleeps over work a script waits for; no socket listed twice; no event for a closed one |
| Receive path (`lolevel`) | `llPendingRecv`, `outstandingRecvs` and its caps, `needRecvRestart`, `recvMode`, `IOCP_EOF` | input and its filters, repost, burst recursion, `OP_READ`, `-recvmode` | three modes, two posting threads, partial reads, a restart flag without a lock | bytes in order, none lost, the end last; always something posted |
| Send path (`lolevel`) | `outstandingSends`, `outstandingSendCap` | output, `OP_WRITE` | over-count before the cap is tested | a writer is woken (Notifier), its buffer freed once (Buffers) |
| Accept pool (`lolevel`, `ws2tcp.c`) | `outstandingAccepts` and its cap | post, replace, `-backlog` | two threads post under one cap; slots lost on error paths | every slot accounted for; the pool refills |
| Script level (`hilevel`, `ws2tcp.c`) | `AcceptCallback`s, a table per interpreter, channel references | socket2 -server, accept callback, close, interpreter deletion | callbacks nest, and scripts close or delete anything inside them | nothing used after it is freed; the tables agree; no connection without an owner |
| Linked list (`linkedlist.c`) | nodes, `front`, `back`, `lCount`, lock | push, pop, pop all | lock-free test of `node->ll`, stale `front`/`back`, NULL front | it is a sequence |
| Subsystem, threads (`lolevel`, `dllmain.c`) | `initialized`, port, heaps, completion thread, `tsdHome` | `InitSockets`, exit handlers, `IocpThreadActionProc` | a flag exchanged before the work is done; a thread terminated anywhere; a channel between two threads | one completion thread; nothing used before it is there or after it is gone; a failed start leaves nothing; exit ends |
| Socket creation (`ws2tcp.c`, `hilevel`) | what the command has taken so far | `CreateTcpSocket`, `Iocp_MakeTcpClientChannel`, `OurConnectEx` | some twenty calls may fail, two error labels | a failure leaves nothing and frees nothing twice; what is posted is heard |
| Options (`lolevel`) | the fields of `SocketInfo` and two bits of Winsock | set, get, inherit | copied to an accepted socket while a script sets them | an option reads back as set; a socket inherits what its listener had |
| IrDA commands, errno tables (`ws2irda.c`, `hilevel`, `lolevel`) | device list, encodings, socket | discovery, IAS query | one of several calls fails | nothing kept; a value if and only if success |
| Resolver (`tclname.c`) | pipe, address list, IrDA socket | requests and answers | failures within a list of answers | one answer, then `200` |
| SPSC queue (`SPSCQueue.h`) | ring, two counters | push, pop | wrap, publication order | a bounded FIFO |

Everything hard to test that was met while reading is a line of `hazards` in
`PROJECT.json`, with the properties that watch it or the reason none does.

## 2. Modules

| Module | Models |
|---|---|
| `SocketContract` | the promise about a client socket: phase, pending operations, adopted by Tcl |
| `SocketLifetime`, `SocketLifetimeProofs`, `MCSocketLifetime` | the life of `SocketInfo`s under both threads; refines `SocketContract` |
| `BufferContract` | the promise about a `BufferInfo`: one owner, which hands it on in certain ways only |
| `Buffers`, `BuffersProofs`, `MCBuffers` | every path of a buffer; refines `BufferContract` |
| `Notifier`, `NotifierProofs` | readiness notification between the completion thread and a Tcl thread |
| `RecvFlow`, `RecvFlowProofs`, `MCRecvFlow` | the receive path of one connected socket |
| `ListenerNames`, `AcceptPool`, `AcceptCallbacks` | the two halves of a listener: AcceptEx calls, script level |
| `Server`, `MCServer` | their composition |
| `ServerProofs` | proofs about it: the pool, then the script level |
| `ListContract`, `LinkedList`, `MCLinkedList` | lists as sequences, and with their pointers; the second refines the first |
| `Subsystem`, `SubsystemProofs` | start, exit, threads, transfer of channels |
| `BoundedFifo`, `SPSCQueue` | the lock-free queue; refines the FIFO |
| `ContainerProofs` | proofs about the two containers: the lists, then the queue |
| `SocketCreate`, `Options`, `WsaErrors`, `Irda`, `NameServer` | the sequential commands and their error paths |
| `Commands`, `CommandsProofs` | composes those |

The machines overlap on purpose and cut the program by question. What one owns,
the others reduce to a count or leave out: `SocketLifetime` keeps buffers as units
of `out`, `Notifier` as `recvs`, `Buffers` follows each but lets the caps refuse at
any time, and `RecvFlow` has their contents and leaves closing out.

### SocketLifetime

`life`, `channel`, `flags`, `ops`, `handle`, `lists`, `readyAccepts` are fields of
`SocketInfo` (or say whether a pointer or handle is there). `out[s][op]` is what
Winsock has and what waits on the port: the ground truth `outstandingOps` has to agree
with. `tcl` and `ct` are the threads' program counters. A step ends where the
other thread can observe something: between the increment and the overlapped call
(`PostBegin`, `PostEnd`), between the flag and the post in `IocpClose2Proc`
(`CloseBegin`, `CloseFlag`, `CloseCount`, `ClosePost`), between the decrement at
`done:` and `FreeSocketInfo` (`Done`, `FreeLast`). A socket is one incarnation of a
`SocketInfo`; a completion for freed memory is not handled (`Dequeued` asks for a
live socket): `LastOpIsLast` and `DrainedIsQuiet` say whether there would be one.

### Buffers

One socket and the `BufferInfo`s of its operations. A buffer is with Winsock, on the
port, in `llPendingRecv`, or with a thread (`held`, `hand`, the variables `bufPtr` and
`newBufPtr`). Every way an overlapped call can end is an outcome of `Complete`, or of
the posting step when it ends at once. Two branches lose their buffer (`SendNotConn`,
`HandleDud`): it goes to `lost`, bounded by `MaxLost`. One frees a buffer that is on
the port (`SendNoBufs`): it becomes `wild`. The invariants speak of everything else.

### Notifier

One Tcl thread in its loop of setup, wait, check and service, whose scripts may
watch, read, write and close; the completion thread with received, sent, connected
and accepted. `IocpZapTclNotifier` is three steps (exchange the mark, push under the
lock, alert); a send is four (count it, compare what the increment returned with the cap,
take it back, watch for writable); `Tcl_DeleteEvents` takes an event of the closed socket per
step, and the socket is closed after the last. `recvs` and `accepts` are the lengths of
`llPendingRecv` and `readyAccepts`.

`readySockets` is a list threaded through the sockets. `IocpLLPop` takes a blank node for the
only one of its list, so a pop of a node that the other thread has popped meanwhile sets
`front` and `back` to NULL and leaves the rest linked to each other. The state is therefore
`chains`, the runs of linked nodes, next to `front`, `back` and `lCount`: a socket is *linked*
when its `node.ll` is set, *listed* when `front` leads to it, and *stray* when it is linked and
not listed. `broken` says what ended the run: a dereferenced NULL front, or a use of a freed
`SocketInfo` (`"stale"`), after which the code's next step is undefined.

### RecvFlow

The peer sends the units 1, 2, 3, ...; `net` is what Winsock holds, `posted` the
receives waiting there, `port` the completed ones, `pending` is `llPendingRecv`. The
recursion of `PostOverlappedRecv` is a loop of its three steps (`PostCount`,
`PostBack`, `PostCall`) that either thread may be in; `IocpInputProc` pops, filters,
merges, reads directly, and ends in `RepostRecvs` (`Repost`, `Clear`) or, on an
error, without it. `starved` is a history variable: a WSAENOBUFS has taken a
receive away.

### AcceptPool, AcceptCallbacks, Server

In `AcceptPool` each access to `outstandingAccepts` or its cap is a step of the thread
that posts: the Tcl thread in the loops of `CreateTcpSocket` and of `-backlog`, the
completion thread where `HandleIo` replaces a call. `leaked`, `lost` and `crossed` are
history variables for slots the code loses, so that the invariants can say that
nothing else is lost. In `AcceptCallbacks` everything runs on one thread, but a callback
may enter the event loop: `running` is the stack of its calls. Channel references,
`Tcl_Preserve` and the deletion of interpreters are external and modelled as the code
relies on them; the delete procs run in any order. `Server` runs the two together: the
commands and the accept callback are joint steps, a channel that goes closes its
pool, and AcceptEx completions fall between any two script-level steps.

### LinkedList

A step ends where a thread without the lock can see something: a push is its links
and count, then `node->ll`; a pop its test of `node->ll`, then the unlinking, then the
count. The constant `Shared` has the lists that several threads pop from at a time. In this
program that is `readySockets`: the Tcl thread drains it by a count while `FreeSocketInfo`
pops from it on the completion thread (lolevel:406, 1524). From any other list the Tcl
thread pops until its socket is closed and the thread that frees the socket after that:
one at a time is at work on it (`MayPop`), a count and its drain being one piece of work.
Any thread pushes at any time.

### Subsystem

Handles are the kind of object and the initialisation that made it; `broken` names
what was used before it was there or after it was gone. The constant `Liberties` says
what a program may do beyond the plainest use (load in two threads at once, exit
while others run, end a thread with open sockets, transfer channels).

### SocketCreate, Options, Irda, NameServer, Commands

`SocketCreate` has a step for each call that may fail and `Label` for the label each
failure jumps to; `host`, `catalog`, `my`, `buf`, `job`, `info`, `sock` are "none", "held" or
freed, and the history variable `failedAt` is the step that failed. The completions of what a
command posted are delivered to the end, those for a `SocketInfo` it has freed included
(`HandleAborted`): `fault` says that something was freed twice or that freed memory was used.
`Options` writes a mode in the three steps of `IocpSetRecvMode` while
`NewAcceptSockInfo` copies field by field. `NameServer` reads lines from a pipe that the
client may cut anywhere; a request may end the program (`"fault"`), and what Bluetooth's
unfinished functions return is left open (`Leads`). `Commands` follows one of the three per behaviour (a thread
runs one command at a time; the resolver is a program of its own), and the options of a
listener from where `socket2` has made it.

### SPSCQueue

Every load and store is a step. The counters wrap at `W`, a multiple of the capacity,
as `ULONG_PTR` does at a power of two.

## 3. Runs

| Run | Shows |
|---|---|
| `lifetime` | one listener, two clients, overlapping accepts and receives: the count is exact, only the last operation frees, Tcl's clients live, `SocketContract` is implemented |
| `lifetime_live` | a client that was asked to close is freed in the end |
| `lifetime_drain` | *violation*: freeing a listener frees accepted sockets whose WSARecv is outstanding, against lolevel:1547 ("So this is safe.") |
| `notifier` | mark and list agree, no event for a closed socket, no sleep over work, and service in the end, with a listener and a client still connecting, sends that fail with WSAENOBUFS included |
| `recv` | the stream is whole and in order, its end last, receives within their cap, no read that blocks, never deaf, in three modes and across changes of `-recvmode` towards burst-detection |
| `list` | lists that one thread at a time pops from, and any push to: links, count and owner agree; nothing dangles; the list is a sequence |
| `subsystem` | two threads, two sockets, transfers, a second initialisation after a failed one: one completion thread, nothing used before or after its time, nothing left, and exit ends |
| `pool` | one listener whose `-backlog` goes up and down under connections and errors |
| `server` | two listeners, connections and interpreters, callbacks nested twice, deletions in any order |
| `spsc` | the queue is a FIFO of `Cap` items, no slot is shared |
| `buffers` | one owner on every error branch, nothing left at the end, `BufferContract` implemented |
| `commands` | what error paths do not give back is exactly what the code is known to lose (section 4), nothing is freed twice, callers are told once, options are inherited |

Each property has a mutant in `PROJECT.json`: a plausible bug of a mapped definition
under which the same run finds the property violated. Two properties of `commands`
have several parts; the parts have mutants of their own in the modules
(`NameKeeps` and `ResolveFrees` for `OnlyLeaksRemain`; `ErrnoOneOff` and `ValueUninverted`
for `CallerIsTold`), each of which violates the property, too.

### EmptyPopFaults

`IocpLLPopFront` reads `tmp->lpItem` of a NULL front (linkedlist.c:475-476) although
its comment promises "NULL for none" and every caller but one drains until NULL. So at
this commit a drain ends in an access violation. `LinkedList` models it as it is
(`at[t] = "fault"`). The one caller that counts first, `IocpEventCheckProc`, gets there too:
its list is `readySockets`, and `FreeSocketInfo` may pop a node between the count and the
drain (`CountedDrainIsSafe`, section 4). The other machines take it as a constant: `TRUE` is the code as it stands
(the process stops), `FALSE` the contract the callers are written for (NULL, or in a
blocking `IocpInputProc` a wait). Their runs use `FALSE`, because with `TRUE` most of the
program is out of reach. The theorems hold for both, but for `CountIsKept` of the receive
path: a thread that stops inside `IocpInputProc` keeps the count it was going to give back.

### Bounds

- `lifetime`: a listener and an accepted socket interact through `readyAccepts`, two
  accepted sockets through its order and through a drain; nothing relates three.
  `RecvCap = 2` and `AcceptCap = 2` let operations of one socket overlap on both threads;
  the proofs remove these bounds.
- `notifier`: two waiting connections are what the one-pop-then-requeue of
  `IocpAcceptOne` needs, one unread buffer tells readable from not, and `SendCap = 1`
  makes every send hit the cap. One socket of each kind suffices for
  `readySockets` to be longer than a check that counts before it pops, and for the list to be
  emptied over the one by the freeing of the other. With `Listeners = {l1, l2, l3}`, no
  client, `MaxAccepts = 1` and `Spec` the invariants hold, too: there the sockets that are
  left are a chain of several, which later pops unlink piecewise.
- `recv`: buffers of two units and reads of one to three give partial, exact and merging
  reads; six units fill the burst's caps and still leave data to restart for. `Onwards` has
  the three changes of `-recvmode` that keep what is checked; the others are in section 4
  or let the receives already posted exceed the cap of the new mode.
- `list`: three nodes that belong to their callers make a list with a front, a middle and a
  back to unlink; another list allocates its node and destroys it. With `Owning = {}` a node
  moves between two such lists, with `Embedded = {}` and one list three nodes are allocated:
  what is checked holds there, too.
- `subsystem`: two threads, of which one may load while the other runs, but not while it
  initialises (that case is in section 4); two sockets let one be listed while another
  moves; two initialisations let the second meet what a failed first one left.
- `pool`: values of `-backlog` below, at and above the initial cap; two errors let one
  loss hide another.
- `server`: two of everything is the least that nests and shares; `MaxNest = 2`.
- `spsc`: `Laps = 2` wraps both counters; the proofs hold for any.
- `buffers`: four buffers are one in each place (Winsock, port, list, thread).
- `commands`: caps that are refused, least and greater; errors from each
  errno table, at the edges of the gap in the second and outside (the gap itself: section 5).

`CHECK_DEADLOCK FALSE` everywhere but in `spsc`: each model may stop for good
reasons, because every socket has had its life (memory is not reused), the process has
exited or faulted, or a bound on inputs is reached.

### Fairness

`SocketLifetime`: weak fairness of a thread that is inside a C function; strong fairness
of taking a completion of a closing socket, because DisconnectEx or `closesocket` makes
Winsock complete what is outstanding and the port is first in, first out.
`Notifier`: strong fairness of the steps inside procedures (a critical section the other
thread enters now and then is granted in the end) and of the event loop.
`Subsystem`: `EndFairness`, weak fairness of the steps of the exit handlers and of the
closes Tcl itself makes while it finalises; the completion thread may hang, for the exit
handler waits 400 ms only. No arrival, completion of an open socket or script call is
assumed anywhere.

## 4. Where the code and its comments part

`lifetime_drain` shows one such place as a run. Others were met while modelling; their
properties are kept in the modules, with the line they speak of, and can be seen violated
by checking them in place of the run's properties, with these constants:

| Property (module) | Constants | What happens |
|---|---|---|
| `ClosedListenerIsFreed` (`SocketLifetime`) | one listener, one client, caps 1, `FairSpec` | a listener closed while no AcceptEx is outstanding is never freed (lolevel:664) |
| `ClosedIsUnlisted` (`Notifier`) | no listener, one client, connecting | a zap in progress lists a socket after its `IocpClose2Proc` (lolevel:651) |
| `FailedIsWritable` (`Notifier`) | the same | a failed asynchronous connect does not wake a script that waits for writable (lolevel:2487) |
| `AcceptCountsMayDiffer` (`Notifier`) | one listener, no client, `EmptyPopFaults = TRUE` | `IocpAcceptOne` meets the empty queue "Don't barf if the counts don't match" (lolevel:524) is about |
| `RestartedWhenConsumed` (`RecvFlow`) | `BufSize = ChanSize = BurstCap = 1`, `BurstUnread = 2`, `MaxSent = 6`, `Starts = {"burst"}`, `Switches <- NoSwitch`, `EmptyPopFaults = TRUE` | `needRecvRestart` is cleared after the receive it was set for again (lolevel:890) |
| `UnreadIsCapped` (`RecvFlow`) | the same, `MaxSent = 8` | a burst on the Tcl thread exceeds the limit on unread buffers (lolevel:1907) |
| `NothingLost` (`RecvFlow`) | `recv` with `<<"flow", "zero">>` in `Switches` | the direct WSARecv assigns `*bytesRead` where the merge adds (lolevel:831) |
| `RestartedWhenConsumed` (`RecvFlow`) | `recv`, `Starts = {"zero"}` | a change to burst-detection while the only receive waits as an alert leaves nothing posted (lolevel:879) |
| `UnlistsOnlyItself` (`Notifier`) | `notifier` with `Spec`, as a `PROPERTY` | the pop of `FreeSocketInfo` takes every other socket off `readySockets`, against "Remove us from the readySockets list, if on it." (lolevel:1523; linkedlist.c:348-380) |
| `CountedDrainIsSafe` (`LinkedList`) | `list`, one list, three nodes, `Owning = {}`, `Shared = {l1}` | a drain by count reads a NULL front when another thread pops meanwhile, against "or NULL for none" (linkedlist.c:454) and "the count of what is and what actually is, is less" (lolevel:420) |
| `WellLinked` (`LinkedList`) | the same | the pop of `FreeSocketInfo` tests `node->ll` before the lock while another thread unlinks the node (linkedlist.c:335) |
| `NothingGoneIsUsed` (`Subsystem`) | one socket, `Liberties = {"overlap"}` | `initialized` is set before the work is done (lolevel:152): a second thread makes its list without a heap |
| `OneCompletionThread` (`Subsystem`) | one socket, `Liberties = {"linger"}` | an initialisation begun during exit makes a second completion thread |
| `NothingGoneIsUsed` (`Subsystem`) | one socket, `Liberties = {"abandon"}` | a socket of a thread that has ended is notified |
| `WinsockIsReleased` (`Subsystem`) | `subsystem` | a start that fails after WSAStartup does not undo it (lolevel:185) |
| `NobodyIsNotified` (`Subsystem`) | one socket, `Liberties = {"move"}` | the list entry or event of a socket outlives its `TCL_CHANNEL_THREAD_REMOVE` (lolevel:1457) |
| `NeverDeaf` (`AcceptPool`) | `pool` with `MaxErrors = 0` | `-backlog` and the completion thread each give up a slot over the other's count (lolevel:1726) |
| `NoEvalInDeleted` (`AcceptCallbacks`) | `server` without `SYMMETRY`, as a `PROPERTY` | a nested callback evaluates in a deleted interpreter (hilevel:252) |
| `AcceptsAreHeard` (`SocketCreate`) | `commands` | an AcceptEx that fails behind others frees the listener while those are outstanding, and their completions use it (ws2tcp.c:580, lolevel:2239, 2530) |
| `NothingLeaks` (`SocketCreate`) | `commands` | a client that fails before bind loses `mysockaddr` (ws2tcp.c:484-593), a refused port the connect buffer (611), a thread that does not start its `ConnectJob` (lolevel:3037) |
| `NamesAreCurrent` (`SocketCreate`) | `commands` | names cached before a connect is over (lolevel:1186) |
| `InheritsOneSetting`, `FirstReadFits` (`Options`) | `commands`, as `O!...` | an accepted socket mixes two settings; its first buffer is sized for another mode (lolevel:1616, 2307) |
| `irlost = 0`, `nslost = 0` (`Irda`, `NameServer`) | `commands` | a failed enumeration of devices keeps its socket (ws2irda.c:92, tclname.c:510) |
| `ExitsAtEof` (`NameServer`) | `commands`, as `N!...` | a partial line ends the resolver (tclname.c:136) |
| `NeverFaults` (`NameServer`) | `commands`, as `N!...` | an IrDA or Bluetooth request without its arguments, or to register, ends the resolver unanswered: it sends a list that is NULL (tclname.c:455, 715) |
| `SizeIsCount` (`SPSCQueue`) | `spsc` | the size is 0 once tail has wrapped (SPSCQueue.h:102) |

Where a property of a passing run leaves one of these out, it names it: `MarkIsBacked`,
`SleepsOnlyWhenIdle` and `WantedIsServed` the sockets the list was emptied over (`Stray`; the
two invariants say that nothing else goes wrong, `UnlistsOnlyItself` that this does),
`NothingTwice` the completions of a failed listener (`AcceptsAreHeard`), `OnlyLeaksRemain`
each leak by its condition (`NothingLeaks`), `CallerIsTold` the requests that end the resolver
(`NeverFaults`).

In `Buffers` the invariants `lost = {}` and `wild = {}` fail: a send on a socket that is not
connected and a dud connection lose a buffer, and a WSASend that
says WSAENOBUFS has its buffer posted to the port by hand and then freed by `IocpOutputProc`,
which takes the error for a refusal (lolevel:916, 1972).
`tests/socket2.test:50` expects values of `-peername` and `-backlog` from an earlier
state of the program.

## 5. Proofs

Every theorem holds for any value of the constants that satisfies the named assumptions of
its module; a hypothesis beyond those is named below, and section 4 or the text
says what happens without it. Each inductive invariant was checked by TLC on the constants
of the run before it was proved. A module has a lemma per action, and lemmas for what
actions of the same shape share.

| Theorem | States, of which run |
|---|---|
| `SocketLifetimeProofs`: `OpsAreBalanced`, `LastOpIsTheLast`, `TclClientStaysLive`, `FreedStaysFreed`, `KeepsContract` | all properties of `lifetime` |
| `BuffersProofs`: `OwnedByOne`, `FreedLeavesNothing`, `Implements` | all of `buffers` |
| `NotifierProofs`: `ListIsWellFormed`, `MarksAreBacked`, `NoEventOutlives`, `NoLostWakeup` | the invariants of `notifier` |
| `RecvFlowProofs`: `StreamArrives`, `EndIsReportedLast`, `NeverBlocks`, `AlwaysHears`, `CountIsKept` | all of `recv`, with hypotheses |
| `ServerProofs`: `SlotsAlwaysAccounted`, `PoolStaysFull` | all of `pool` |
| `ServerProofs`: `CallbacksHold`, `ConnectionsAreOwned`, `NothingStale`, `TheyAgree` | all of `server`, two with a hypothesis |
| `SubsystemProofs`: `NothingGoneIsEverUsed`, `OneThreadServes`, `NothingIsEverLeft`, `ListsMakeSense` | the invariants of `subsystem`, with a hypothesis |
| `ContainerProofs`: `ListIsWellFormed`, `ListDoesNotDangle`, `ListImplementsContract` | all of `list`, with a hypothesis |
| `ContainerProofs`: `QueueNeverSharesSlot`, `QueueImplementsFifo` | all of `spsc` |
| `CommandsProofs`: `LeaksAreKnown`, `FreesOnce`, `ClientPostsAreHeard`, `CallersAreTold`, `ChildrenInherit` | all of `commands` |

### SocketLifetimeProofs

For any sets of listeners and clients, any caps and both values of `EmptyPopFaults`:
`Invariance` (`Spec => []IInv`) and what follows from it. Nothing about finiteness is
needed.

`OpsBalance` alone is not inductive. That the completion thread may free when the count is
zero needs to know that zero means quiet, so the balance must carry every reference
either thread holds at each point of its code (`TclRefs`, `Held`, `DisconnectRef`);
that a dud's count may be one short needs to know that a dud has nothing outstanding but
its DisconnectEx (the last conjunct of `SocketInv`); that freeing a listener touches
nobody's socket needs to know that a queued client is untouched and in one place
(`QueuedAreNew`); and each step needs to know where the threads are (`TclPlace`,
`CtPlace`). `IInv` is the conjunction. `OneSocket`, `TakeFrame`, `OpenFrame` and `FreeFrame`
carry what actions of the same shape share, and `FreeIsQuiet` is the argument itself:
closable, live and `ops <= 0` gives an empty `out`.

`KeepsContract` (`Spec => ImplementsContract`) is the refinement of `SocketContract`. A
client is seen as its phase, the number of operations pending and whether Tcl has
adopted it; each action of the detailed machine is one step of the contract on one client
(`OpenMaps`, `PostMaps`, `CompleteMaps`, ...) or changes nothing that is seen. It uses
`IInv`, and that connections are queued on listeners only (`OnlyListenersQueue`).

### BuffersProofs

`OneOwner` is not inductive: a thread that takes a buffer must have had none before, so
`Placed` says at each place of each thread which of its two variables hold one. That
nothing is left when the `SocketInfo` is freed needs `outstandingOps` to be what is
outstanding, what `HandleIo` is at, and the reference of a closing in progress
(`OpsCounted`); the DisconnectEx gives that reference back once, because there is one
(`OneDisconnect`). Cardinalities make this the one proof that uses the finiteness of a
constant (`Buffers`). `Implements` maps every step to a step of one buffer of
`BufferContract`, or to none.

### NotifierProofs

A node of `readySockets` is linked once and marked (`PushLinks`, `PopLinks`: what a push and a pop
do to the chains, also to those the list was emptied over), an open socket that is marked is
listed, about to be, or stray, and no event outlives its socket, by induction together with
`Places`: where the two threads can be, for which sockets, and never both inside the lock.

`SleepsOnlyWhenIdle` says that no wake-up is lost, and is the hard one. When the Tcl thread
sleeps its queue is empty, and what is on the list has an alert behind it or about to
come (`Asleep`); a list with a front is counted (`Counted`), or a check would pass it by. What must be shown is that whatever a script waits for is on the list
by then. `Coming(s)` lists what may stand for it before: a link (listed or stray: the theorem excludes the stray by name), an event, the script that
is running, a zap in progress, a check that has taken the entry off the list. Each of
the three things to wait for has an invariant of the form "if it is due, it is coming": a
connection (`AcceptComing`), input (`InputComing`) and room to write (`OutputComing`). Each
allows for the one test that decides on a zap and has not been made yet. For a writer that
test is `HandleIo`'s comparison of `outstandingSends` with the cap after its decrement, and
either it is the decrement that came below the cap, or the Tcl thread is about to look: its
over-counted send may have hidden the room, but a send that is taken back is followed by
`IocpWatchProc` for writable, which tests again (`OutputComing`, with `SendCounted`).

### RecvFlowProofs

The contents of a queue of buffers are a recursive function (`Flat`), so the proof needs
induction over the naturals. The library's induction theorems take an operator as a
parameter and cannot be used; `SetInduction` states the same for a set, and follows from
the well-foundedness of `<` (`NatLessThanWellFounded`, `WFMin`). From it come the facts
the steps need: what `Flat` is of a queue with a buffer added, taken away, cut or put back,
and that units in order stay so in any piece.

`FlowInv` then says that what was delivered, what the Tcl thread has in hand, the pending
and completed receives and what Winsock holds are, in this order, the units sent. Needed for
it: a receive of no bytes is alone (`ZeroIsAlone`), or the direct WSARecv it announces
would overtake what another receive holds; the end comes behind all data
(`EndIsLast`); and an alert is only there when a read will not block (`AlertsAreReady`).
`CapInv` adds what keeps the socket in touch: the receives outstanding are within the
cap of the mode (`Capped`), and outside burst-detection there is one of them, or a step of
a thread ahead that posts it (`Fed`).

Two hypotheses restrict what scripts do with `-recvmode`. `NeverBackToZero`: no change from
another mode to zero-byte, for from flow-controlled it loses data (section 4).
`NeverLeavesBurst`, for `AlwaysHears` and `CountIsKept`: a socket that leaves burst-detection
has more receives outstanding than its new mode's cap, until they have completed. `CountIsKept`
asks for `~EmptyPopFaults` as well (section 3).

### ServerProofs

Of the composed server, for any listeners, interpreters, connections, errors, values of
`-backlog` and depth of nesting. `Next` of `Server` is a conjunction of a step of each
half, and there is a lemma per step of each half, which the other only restricts.

`SlotsAccounted` speaks of open listeners; `PoolInv` adds that a listener under way never
has fewer slots counted than used, that an open one has no cancelled call, and that a
thread at work is at work on a listener. `PoolIsFull` speaks of moments when nobody is at
work; `FullInv` adds, for every other moment, what is still to come: the slots the loop of
the Tcl thread is short of (`TclAhead`), the replacement the completion thread is at
(`CtAhead`), and the case that both give up a slot over each other (`Cross`). That a thread
which finds the pool full is right follows from `PoolInv`: `outstandingAccepts` counts what is
there and the other thread's slot, and nothing else.

`CallbackInv` ties every running callback to what it holds: its script, its interpreter, and
the artificial reference to its connection, which is that callback's alone (`FramesHeld`).
The properties speak of the moments a script may run; the invariant also says how far
`socket2` is (`OpeningOK`), how far the deletion of an interpreter is (`InterpsOK`), what
the tables contain in between (`TablesOK`), and that socket and script level agree
(`LivesOK`). `NothingStale` and `TheyAgree` have the hypothesis `AssocDataStays`:
`Tcl_GetAssocData` still finds the table of an interpreter that is being deleted, until the
table's own delete proc has run. That is Tcl's side; if channels go first and the table is
not found, `IocpServerCloseProc` frees the record and leaves it in the table. The two
others hold either way.

### SubsystemProofs

The subsystem goes through four phases: nothing made (`Idle`), one thread in its first
`InitSockets` (`Starting`), complete (`Running`), and the main thread in its exit handler or
past it (`Ending`). The invariant is their disjunction; a failed start and an exit lead
back to nothing made, or to the end. In `Running`, a thread has its list from its
first `InitSockets` to the end of its exit handler, a socket is notified where it is owned,
by a thread that has not begun to end, and it is listed where there is a list; in `Ending`,
only sockets of the main thread are left. The hypothesis `OnlyMoves`
(`Liberties \subseteq {"move"}`: channels are transferred, but the package is not loaded
in two threads at once, the process does not exit while others run, and no thread
ends with sockets open) is the run's, too; section 4 shows that each of the three others
breaks a property.

### ContainerProofs

First the lists, for any sets of lists, nodes and threads and any length. What `linkedlist.c`
keeps is pointers, and what one means by them is a sequence: `ChainInv(q)` says that `q[l]` is
what the pointers of list `l` spell, from `front` by `next` and from `back` by `prev`, that
every node is in one sequence or in none and blank, and that `lCount` is the length of the
sequence, but for a node that a pop inside the lock has unlinked and not yet counted. The
invariant (`ChainsStay`) is that there is such a `q`. It moves with the steps (`Moves`): a
push adds a node at one end, the unlinking takes one out wherever it is, `IocpLLPopAll` takes
them all. Each of these moves is a step of `ListContract`, which is the argument of
`ListImplementsContract`; the invariants of the run are read off the chain.

`ThreadOK` is what a thread relies on between two of its steps: that a node whose owner
`IocpLLPop` has read before the lock is still there under the lock, and that a list is no
shorter than what is left of a drain by a count that was read without the lock. Both are
true only if nobody else pops from that list meanwhile, which is the invariant `OnePops`. It
follows from the hypothesis of these theorems, `Shared = {}`: no list is popped from by two
threads at a time. So they are about `llPendingRecv` and `readyAccepts`, and say nothing of
`readySockets`: with `Shared = {l1}`, `WellLinked` and `CountedDrainIsSafe` fail (section
4). What holds of that list all the same is proved of its model in `Notifier`.

Then the queue, for any capacity, number of laps and items. `QueueInv` says how
many items are between the counters at each step of either thread (a producer about to
write has seen room, and the consumer has only made more) and that what each thread has
loaded is still a valid bound; the modular arithmetic is in lemmas about `Ahead` and
`Slot`. The refinement maps `PushPublish` to `Put` and `PopPublish` to `Take`, and every
other step to a stutter.

### CommandsProofs

For any number of AcceptEx calls and receives posted, any values of the options and caps,
any error codes, lists and requests. `Commands` follows one command, so the invariant
is a conjunction of four that do not disturb each other.

`CreateInv` is about `CreateTcpSocket` and what comes after it. Each call that fails jumps to
`error1` or `error2`; what the label may assume is what every jump to it has to establish:
`PlaceOK` (which steps a command of each kind goes through), `AddressesOK` (which of the
address lists and the catalog are held where), `SocketOK` and `BoundOK` (the same of the
socket and the `SocketInfo`, and when the socket is on the port). `FailedOK` and `LeaksOK` say of
each step that may fail what no label gives back, which is what `LeaksAreKnown` states when the
command is over. `PostsOK` says that `outstandingOps` is
what Winsock has, the DisconnectEx counted twice: for its own completion and for
the reference of the closing. Without it, that the last completion frees the `SocketInfo`
and no other does is not inductive. A listener that failed with AcceptEx calls posted is the
exception, where the code frees too soon: `FreesOnce` says that their completions are the
only use of freed memory (`AcceptsAreHeard`, section 4), and still nothing is freed twice.

`OptionsInv` adds to `ReadsBack` that the fields are what was last set, or are being written
by `IocpSetRecvMode` (`SaidIsSet`), and that each field of an accepted socket was copied from a
value the listener had since the copy began (`ChildOK`). `IrdaInv` counts the IrDA
sockets that are open against those the code forgets. `NameInv` says what the resolver has
answered at each point of a request: nothing yet, or a refusal, or one answer and the ready
line, and nothing of a request that has ended the program.

`IrdaErrorsAssumption` restricts the errors an IrDA command can meet, because `CallerIsTold`
is false of three kinds, which the code does not meet here: `WSAEWOULDBLOCK`,
since these sockets block; `WSAEPROCLIM`, an error of `WSAStartup`; and numbers in the gap
between `WSAVERNOTSUPPORTED` and `WSAEDISCON`, which Winsock does not use.

### Only model-checked

Liveness: `ClosingClientIsFreed` (`lifetime_live`), `WantedIsServed` (`notifier`) and `ExitEnds`
(`subsystem`), which the prover cannot do; they need ENABLED for their fairness. Every invariant
and every other property of a passing run is stated by a theorem.

## 6. Not modelled

- What a use of freed memory does, and memory reused for another `SocketInfo`. `Notifier` and
  `Subsystem` end the run there, `SocketCreate` notes it, `SocketLifetime` says whether there
  would be one.
- Weak memory and torn read-modify-writes of `flags`: steps are sequentially consistent,
  and `flags |= ...` is one step.
- A reset while data is on its way (it may lose data by TCP's own rules), datagrams.
- What is said: formats of options, texts of errors, host names, character sets.
- `tclname.c`'s Bluetooth functions. `DoNameWork` calls them (317-320), through `Do_Bth_Work`,
  but the discovery has no body and the query is a vendor's sample with other parameters than
  its declaration and its call (287, 696, 728), so that the file does not compile. The
  dispatch is modelled, with any outcome for the two; what the sample does is not.
- Protocol stubs (`ws2udp.c`, and `CreateIrdaSocket`), which return NULL; the drafts
  `tclWinIocp.c`, `iocpsock_thrdpool.c` and `consoleIdea.c`, which are not built and do not
  compile; the message table `tclWinError.c` (a third of the implementation's lines), the
  stub loader and the build helper `nmakehlp.c`.

## 7. Plan

Open: what would make the pop of `FreeSocketInfo` safe (a test of `node->ll` under the lock),
as a variant of `Notifier` without stray sockets; the hypotheses on `-recvmode` weakened to what each theorem needs; split updates of
`flags`.
