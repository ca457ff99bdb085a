# TLA+ models of libMiMic

libMiMic is a network library for small microcontrollers (mbed LPC1768, LPC4088,
K64F) under an RTOS: its own TCP/IP stack on Ethernet ("MiMicIp"), a second network
interface that drives a Wi-Fi module over a serial line ("SNIC"), and above them an
HTTP server with modules, an HTTP client, DHCP, APIPA, mDNS, UPnP and a JSON-RPC
bridge to the board's peripherals. These modules model the parts in which several tasks,
an interrupt or a remote machine take part, and which are therefore hardest to test: the
MiMicIp TCP socket, its connection over an unreliable network, the tables and the SYN
queue by which segments and tasks find a socket, the transmission memory shared with the
Ethernet device, UDP sockets with the ARP table and the start and stop of the interface,
the serial line and the commands of the Wi-Fi module, and the HTTP server.

Paths below are relative to `src/libMiMic/core/`. "Socket.c", "NetIf.c", "Listener.c"
and "IPv4.c" are `netif/mimicip/NyLPC_cMiMicIpTcpSocket.c`, `..NetIf.c`,
`..TcpListener.c` and `netif/mimicip/NyLPC_cIPv4.c`; "Arp.c" and "UdpSocket.c" are
`netif/mimicip/NyLPC_cIPv4Arp.c` and `..UdpSocket.c`; names with Snic are in
`netif/snicip/`, HTTP names in `net/httpd/` or, for the C++ modules, in `src/libMiMic/`.

## 1. Inventory

### Who runs

* The **uip task** (NetIf.c `uipTask`), the only task of the service: it takes frames
  from the receive ring, hands them to ARP, IPv4, TCP, UDP or ICMP, calls `periodic` of
  every socket each 200 ms and obeys the start and stop orders.
* **Application tasks**: HTTP server threads, clients, the user's program. They call
  the socket and listener interfaces. One socket is used by one task at a time
  (Socket.h 119-127).
* The **loop task and the connection threads** of the HTTP server, all of one priority.
* The **message task** of the SNIC interface, of a higher priority than its callers, and
  the **UART interrupt** that feeds it.
* The **Ethernet device**: it consumes transmit descriptors, fills receive descriptors
  and interrupts.

Shared state is guarded by one mutex for all TCP sockets, one for all listeners and one
for the Ethernet device with ARP (`_sock_mutex`, `_listener_mutex`, `_mutex`). The hard
behaviour lies between the critical sections: handlers release the socket mutex before
they release or send buffers, because those take the Ethernet mutex.

### Components

| Component | State | Operations | Interacts through | What makes it correct |
|---|---|---|---|---|
| TCP socket (Socket.c) | state, sequence numbers, peer window, receive FIFO, ring of unacknowledged packets | listenSyn, connect, accept, precv/pseek, allocSendBuf/psend, close, finalize; parseRx, periodic, start/stopService | buffers from the Ethernet memory; segments; socket mutex | every buffer has one owner; what is queued is what has to be retransmitted; close ends and its assertions hold; data is acknowledged when taken |
| TCP connection | the above, the network, the peer | loss, delay, reordering, repetition | segments | nothing is forgotten before the peer has it; end of stream only after all data; every packet is acknowledged or given up |
| Socket and listener tables (NetIf.c), tcp_rx and port numbers (IPv4.c), SYN queue (Listener.c) | used flags, ports, queue items and write position, port counter | createTcpSocetEx, finalize, createTcpListener, listen, synPacket, getNewPortNumber | listener and socket mutexes | one user per socket; SYNs served in order, none lost, all served; ports not assigned twice |
| Transmission memory and transmit ring (driver/ethernet/NyLPC_cEthernetMM.c, lpc17xx/EthDev_LPC17xx.c) | per block: reference count and lock; descriptors, produce and consume index | alloc, release, sendTxEthFrame, device start and stop | Ethernet mutex, device registers | a block is locked exactly while a descriptor points to it; one holder; the waiting loops end |
| uip task | order and status bits, stopwatches, semaphore | start, stop, main loop, interrupt handler | a status word written by two tasks without a lock | start returns with the interface running, stop with it stopped |
| UDP socket | receive FIFO, port, multicast group | parseRx, precv/pseek, alloc/psend, send, periodic callback | as TCP | no buffer kept by a send that has returned; pseek removes what precv handed out |
| ARP (Arp.c) | table of entries with ages | periodic, incomingIp, rx, lookup | Ethernet mutex | one entry per address; a lookup returns what was announced last |
| SNIC serial device | ring of received bytes, read and write position | interrupt handler, pread, pseek | interrupt and message task share the positions without a lock | a queue: nothing lost, repeated or reordered |
| SNIC commands | table of waiting objects, sequence number, signal and last command of each instance, transmit buffer | commands with answers | message task and callers | an answer goes to the call that asked; the object is there while it is written; every call returns |
| SNIC sockets and listener | announced lengths, queues of indications | connect, accept, recv, send | commands and indications | |
| HTTP server | request and response status per connection, threads, number of active connections, shared buffer and its mutex, the JSON-RPC session | listen, accept, prefetch, the modules' handlers, close | TCP sockets, a counter, a buffer and a session shared by threads | listen only on closed connections, one answer per request, nothing left unsent, the count exact, the buffer and the session of one thread at a time |
| WebSocket, DHCP, APIPA, mDNS, SSDP/UPnP, HTTP client | protocol states above sockets | | UDP or TCP sockets | retries end |
| Parsers and writers (HTTP, URL, JSON), MiMicVM, flash, utilities | none shared | | | sequential |
| mbed C++ classes, JSON-RPC functions, OS wrappers; vendored FAT, mbed, mbed-rtos | | | | |

`PROJECT.json` lists every component with its sources, and every hazard at its line.

## 2. Plan

Done, in this order:

1. `TcpSocket`: one socket, its two tasks, an open peer.
2. `TcpLink`: composes `TcpSocket` with a network and a remote TCP; `TcpStream`, the
   abstract stream that each direction of the connection implements.
3. `EthTx`: the buffers `TcpSocket` takes for granted.
4. `TcpTables`: how segments and tasks find a socket; the SYN queue.
5. `SnicSerial` and the abstract queue `SnicFifo` it implements.
6. `SnicApi`: commands and answers, above the serial line.
7. `IPv4Arp`, and `UdpSocket`, which composes it with a UDP socket and with the start and
   stop orders of the uip task.
8. `Httpd`: connections, threads, the modules that share state.
9. Theorems for all of these: every safety property of the passing runs is proved.

The models contain every interleaving the code allows, the harmful ones too. Where the
code relies on one that nothing excludes, a *history variable* records that it has
happened (`stray`, `emptied`, `cut`, `late`, `orphans`, `ahead`, `mixed`, `clash`, `lost`,
`raced`, `usurped`), and the properties say what holds until then, or up to what it
counts. No constant switches an interleaving off. Where a comment or an assertion of the
code is broken outright, a run shows the violation.

Not done, in the order of their worth: `SnicSocket` (sockets and listener of the Wi-Fi
module, composed with `SnicApi`), the WebSocket states above `Httpd`, DHCP with its
retries, APIPA.

## 3. The modules

### TcpSocket

One socket. A step is a critical section of the socket mutex, or what a task does between
two of them (for example sending, or releasing buffers); `apc` and `upc` say where the
application and the uip task are. `txq` is the ring `txbuf.txq[rp..wp)` as a sequence,
`mem` the content of the buffers, `free` those with reference count 0. Each socket call
is a chain of actions (`Close`, `SwrAlloc`, `SwrQueue`, `SwrTx`, `WaitForTxRemove`,
`CloseLoop`, `CloseLastAck`, `ForceClosed`, ...) and each handler of the uip task is one
(`ParseRx`, with the release of acknowledged packets after the unlock in `Release`;
`PeriodicRetransmit`, `PeriodicGiveUp`, `StopService`, `StartService`).

Abstractions: timers are choices (a wait may time out at any poll, a packet's timer may
have expired at any call of periodic); MSS, addresses, checksums and payload contents are
left out, payload lengths kept. Sequence numbers are naturals: the code adds to them and
compares them for equality only. Windows and lengths are 16 bits wide in the code and
modulo `WinMod` here.

Another thread may hold the Ethernet mutex, so that the uip task blocks between the two
halves of a handler, although it has the highest priority, and the application runs in
between; a reset with nothing to release goes on to sendRst at once. `Restarts`: the
interface is stopped and started while the socket is in use. Two histories record what
the code does not guard against: `stray`, that the uip task's reset of a connection took a
number of the connection opened after it, and `emptied`, that a start emptied the receive
buffer between precv and pseek.

### TcpStream, TcpLink

`TcpSocket` with its output put on a network of two sets of segments. Sending keeps any
subset (loss), delivery takes any element (delay, reordering), and the peer may send a
segment again (repetition). The peer is a TCP that follows the protocol (external): it
connects, sends `PeerBytes` bytes within the window it was shown, acknowledges what it
gets in order, and closes, with a FIN of its own or on its last data. `cut` counts the
bytes of the FIN's segment that found no room when the FIN was taken all the same. One
connection per behaviour.

`TcpStream` says what one direction of a connection promises: numbers are sent, taken in
order, and kept by the sender until they are taken, unless somebody gives the stream up.
It is instantiated twice. `Out` is the socket's own stream: what it keeps begins with the
oldest packet of the retransmission queue, what is taken is what the peer expects next. It
is given up when the socket is closed. `In` is the peer's stream: what the peer keeps
begins with its oldest unacknowledged byte, and what is taken is the number of bytes put
into the receive buffer (the history `got`), with the SYN and the FIN, and not the
acknowledgement number. It is given up when close stops receiving, and when a FIN is taken
without its data (`cut`).

### EthTx

Blocks with reference count and lock, the descriptors with produce and consume index, and
tasks that hold the Ethernet mutex. A step is one iteration of a loop that reads a device
register (`WaitEmpty`, `Clean`), a step of the rest of sendTxEthFrame (`PutLock`,
`PutDesc`, `PutIndex`: lock, descriptor, produce index), or a critical section without
such a loop; the device consumes a descriptor (`Transmitted`) between any two steps.
`DeviceStop`, `DeviceStart`, which initializes memory and descriptors, and `DeviceEnable`
are the uip task's (updateTaskStatus), which takes no mutex for them: with `Restarts` they
come between any two steps of another task's call. `frame` is a history variable: the
block handed over with each descriptor; `late` are the blocks that the last start caught
between lock and descriptor, `orphans` those it caught in a task's hands. `Sys` are the
64-byte blocks that only control packets use.

### TcpTables

The socket table, the listener table, the SYN queues and the port counter. A socket is
open or closed here; what it does meanwhile is `TcpSocket`'s subject, and anything that
ends a connection there is `AppClose`, `RxEnd` or `GiveUp` here. `createTcpSocetEx` is two
steps, the search and the setting of the flag, because nothing locks them together; the
history `clash` records that two tasks were given one slot;
`listen` looks at the socket first and takes the SYN in a later step. `htons` is modelled
by what it does to a port of two bytes of `Byte` values each. `age` is a history variable:
how many SYNs were queued after the one in a slot. Servers loop around listen and keep
their sockets (as `NyLPC_cHttpd_loop` does); clients connect and finalize. A listener is
finalized only when no task is in listen on it.

### SnicFifo, SnicSerial

`SnicSerial` is the receive ring of the serial device. A step of the message task is what
lies between two accesses of the ring's positions: `PreadWait` and `PreadLoad` are the two
reads of `_wp` in pread, `ReadCopy` and `ReadSeek` the two halves of an iteration of
waitForRead, `RawSeek` and `RawRead` those of waitforRawByte, which moves the read position
before it looks at the byte. `Interrupt`, `UartHandler` and `UartReturn` are the interrupt,
during which the task does not run. `SnicFifo` says what the ring promises: a queue of at
most `SIZE_OF_RX_BUF - 1` bytes; RingIsFifo is the refinement, with the queue mapped to the
bytes between the positions and the output to the bytes handed to the parser. seekPayload
does not ask whether the bytes it skips have arrived; when they have not, the queue's
action `SkipAhead` says what is left of the promise: it holds afterwards whatever bytes
the ring holds then. `ahead` makes these steps visible (section 6).

### SnicApi

Commands of the instances general, wifi and api, functions of one shape. A call
sets `last_cmd`, registers its instance in the table under the next number (`Register`,
which waits for a free item), clears the signal, sends a frame through the shared buffer
(`StartPayload`, `LockAndWrite`, `EndPayload`, `WriteAndUnlock`), spins on the signal and
removes its item once the message task has unlocked it. The message task finds the
instance by the number (`Receive`), stores the result if number and command are the last
ones (`Store`), sets the signal and unlocks. `asked` are the commands the module has not
answered; answers come in any order or are lost. `fresh` in a request, and `mine` in an
instance, are history: whether the answer is to the call in progress. Every task is handed
the same three instances, and addItem does not look whether the number it gives is still
in use; the model contains both, and the history `mixed` records that an instance, or a
number, was used twice at a time.

### IPv4Arp, UdpSocket

`IPv4Arp` is the ARP table with its 8-bit clock; `learned` is a history variable. The
operators are the functions of Arp.c, `EntryFor` and `IPv4toEthAddr` being its searches
from the front and from the end. `UdpSocket` composes it with one UDP socket, one reader,
one sender and the thread that starts and stops the interface. The uip task's handlers are
steps of their own because it has the highest priority; the exceptions are start and stop,
which wait for the device. A datagram is its size and whether precv has handed it out;
`send` is a chain of actions from the allocation over psend's ARP lookup and its 30 ms
sleep to sendIPv4Tx, which looks the address up again, and the release. `refs` are the
blocks that send holds, `lost` (history) those its loop found too small and forgot; ARP
packets come from any sender. Ports, checksums
and multicast groups select which datagrams reach parseRx; multicast destinations are left
out (they need no lookup).

### Httpd

The loop task (`LoopCheck`, `listenSocket`, `ThreadStart`), the connection threads
(`acceptSocket`, `prefetch`, `onRequest`, `CloseResponse`, `prevNextPrefetch`,
`CloseSocket`) and the handlers that main.cpp tries in turn: ROM files, local files and
uploads (which share `_shared_buf` under the server's mutex and give the mutex away for a
moment while a long file is sent), and the JSON-RPC session (`RpcClaim` ... `RpcFree`), of
which there is one per server. A connection is a record; the functions of
NyLPC_cHttpdConnection.c and of the streams and writers are operators from a connection to
the set of its possible successors, because every write may fail, fit or fill the buffer.
`ans` counts the answers begun to a request, `part` those that were a 101 after which the
connection was answered as one of HTTP again. The counter's ++ and -- are a load and a
store; the history `raced` records a store that overwrote another thread's, after which the
count can be off by any number and a connection's mode is either. malloc in ModJsonRpc may
fail; the history `usurped` records that such a thread found the block of another that had
claimed the session since. The model keeps every thread on its own connection then, although
both sessions now write through one block, and claims nothing more. What a module parses and
writes is a choice among its outcomes. MiMicRemoteMcu, whose onRequest is modelled, is in
main.cpp under `#ifdef COM`, which this commit does not define: it is the repository's use
of the modules, and the program it was compiled to. WebSocket frames are part of the
session's body; UPnP and the settings module use the same connection calls and are left out.

## 4. Runs

| Run | Checks | Shows |
|---|---|---|
| `tcp_socket` | TypeOK, SendGapless, ReceiveBound, BufferOwnership, AwaitsLastPacket, CloseLoopStates, SendSequence | one socket with a uip task held up anywhere and restarts: buffers keep one owner, close is safe, what is queued can be retransmitted; the queue is gapless and the receive buffer in bounds, but for `stray` and `emptied` |
| `tcp_reset` (violation) | RstClosed | the assertion of sendRst fails: the socket can be open again |
| `tcp_link` | SendStream, ReceiveStream, EofComplete | end to end over an unreliable network: each direction implements `TcpStream`, and the end of the stream is reported after all of it, but for `cut` |
| `tcp_timer` | OldestLeaves | every packet is acknowledged or given up, if the peer's window never closes |
| `tcp_tables` | OldestFirst, TakenOpens, SynServed | a server and a client on shared tables, a queue that fills up; SYNs are in order while there is room, none is lost until a `clash`, all are served even after one |
| `eth_tx` | LockedInRing, NextIsEmpty, OneHolder, SendReturns | two tasks, the device, and starts in the middle of a call: locks and descriptors agree, one holder per block, but for `late` and `orphans`; the send loop ends |
| `eth_reuse` (violation) | AllocNotInFlight | a block that the device still has to send can be allocated |
| `eth_sys_alloc` (violation) | SysAllocReturns | with fewer control blocks than descriptors the wait for one need not end |
| `snic_serial` | PreadInRing, RingIsFifo | the ring with an interrupt at every point implements a bounded queue |
| `snic_api` | OwnAnswer, HandlerHolds, CallReturns | two tasks on any instances, with late, lost and unasked answers: until something is `mixed`, each command gets its own answer, and every call returns unless the line fails |
| `udp_arp` | ArpUnique, ReadBeforeSeek, SendKeepsSmallOnly, RightNextHop, OrderObeyed | reader, sender and restarts while the ARP table is updated by anyone, aged and full |
| `httpd` | ListenClosed, CountExact, KeepAliveBound, AnswerLeaves, AnswerOnce, SharedBufOwn, SessionOwn, MutexExact, Offered | two connection threads through all handlers, with counting that can be preempted and a malloc that can fail |

**Bounds.** `TcpSocket`: a ring of 3 slots (2 packets, so that it fills and an ACK can
complete none, one or both), 3 buffers, a receive buffer of 1 byte (full, empty, one too
many), window values 0 to 2, one SYN, data and FIN (`MaxSeq` = 3), every segment with seq
1..2, ack 0..4, length 0..1, window 0..1 and every flag combination parseRx tells apart.
`TcpLink`: `DevCap` and `PeerCap` segments under way, two bytes from the peer (none in the
timer runs), two numbers from the device besides SYN. `EthTx`: a ring of 3 descriptors
(wrap, full, one free), two tasks with a block each; `eth_sys_alloc` has 4 descriptors and 2
control blocks (the code: 16 and 4). `TcpTables`: a queue of 3 (full, nearly full, one taken
from the middle), two sockets for a server and a client, two peers, a single port number for
the client, so that every connection it opens gets the number of the one before, as in the
code once the counter has gone round. `SnicSerial`: a ring of 4 (every position of the two
pointers, wrap, full), 2 bytes in the UART, two byte values, reads and skips of one and of
three bytes, arrived or not. `SnicApi`: two tasks, two instances that either may use, one of
them with a command that does not clear the signal, two items, three numbers (so that
numbers and items are reused with late answers under way), unasked answers with a free and a
used number. `UdpSocket`: two local hosts and a table of two entries (a third address,
0.0.0.0, evicts), a clock of three values with a maximal age of two, so that it wraps;
datagrams of 1 byte and a buffer for two of them (empty datagrams are covered by the
theorems only); two blocks of memory, so that send can forget one or all. `Httpd`: two
connection threads, of which one may be persistent: the loop meets a busy thread, and every
shared object has a second user.

**Reductions.** Buffers, blocks and tasks are symmetric where a run has no liveness
property. `View` in `MCTcpSocket` leaves out what no step reads before it is written: the
last output, the content of a free buffer, locals of a finished call. `LinkView` also
identifies all states after the one connection has ended, except for where the tasks are,
and forgets the peer's window when the peer has no data left and the history `got` once
close has given up receiving. `RingView` leaves out the history `frame` and the index of a
loop that has ended. `ApiView` leaves out the lock of a free item and what an unused
instance holds besides its signal, `TablesView` what a closed socket was connected to and a
free listener; `HttpView` what is written before it is read again, and tells the output
stream apart for one thread only, because the threads are alike and no other thread reads
it. `ApiView` and `HttpView` also drop what no property speaks of any more once a history
(`mixed`, `raced`, `usurped`) is set. `UdpView` leaves out what is left in an unused ARP
entry, the history of hosts without an entry, the argument of a finished send, and the table
while no call can read it before it is set up again; hardware addresses are symmetric in
that run (`MacSymmetry`). None of the properties checked with a view distinguishes states
the view identifies, and no step of one of two identified states is missing from the other,
which is what the liveness properties need; the runs with liveness properties use no
symmetry.

**Fairness.** `TimerSpec`: the uip task goes on and calls periodic again and again (its
semaphore wait is limited to 200 ms), and a call of the application goes on because every
wait has a time limit; nothing is assumed of the network. `EthFairSpec`: an enabled device
transmits, and a task inside a call goes on (it waits for nothing but the device).
`TablesFairSpec`: a server calls listen again and again (`NyLPC_cHttpd_loop`), its
connections end (every wait of a connection thread is limited), and a listen that is made
again and again finds the queued SYN in some call before its time is over; clients and peers
owe nothing. `ApiFairness`: a task in a call is scheduled, the message task finishes with an
answer it has begun, and the module answers a command that it got (strongly fair, because
the message task may be busy with other answers; CallReturns allows for a lost answer and a
spoilt frame by naming them). A call that waits for a free item is not promised one.
`HttpFairSpec`: the loop task is scheduled; its listen has a time-out. Nothing is assumed of
the connection threads, which may hang in a handler: the loop offers the other threads all
the same.

**Deadlock** checking is off where the bounds on sequence numbers, segments or blocks held
end a behaviour (`tcp_link`, `tcp_timer`, the `eth` runs), in `tcp_tables`, whose tasks may
all have finished, and in `snic_api`, where a lost answer leaves its caller waiting for
ever (section 6). It is on in the others: `tcp_socket`, `snic_serial`, `udp_arp` and
`httpd` never stop.

## 5. Proofs

All for every value of the constants that the ASSUMEs allow.

* `TcpSocket_proofs`: TypeCorrect, BuffersOwned, WaitsForLast, CloseAssertionsHold,
  CloseLoopSafe, SendsInSequence, SendsGapless, ReceivesInBounds. BufferOwnership is
  inductive together with the types, `UdlInv` (the uip task has buffers to release only
  where it releases them) and `UnusedInv` (a socket not in use has an empty queue):
  `OwnInv`. The assertions of close follow from AwaitsLastPacket; the states of close's loop
  from `ActiveInv` (which states a socket can be in while a close is under way): `CloseInv`.
  None of them restricts the environment or the interleavings; SendsGapless is up to `stray`
  and ReceivesInBounds up to `emptied` (section 6 says what happens then). Every step drops
  the oldest k packets and leaves the sequence numbers of the rest (`Keeps`), appends one
  that begins at `snd_nxt`, or empties the queue; SendSequence is inductive together with
  `Below` (no packet ends after `snd_nxt`) and `Ordered` (each ends before every later one
  begins), and BufferOwnership is what keeps a new packet from overwriting a queued one. A
  reset takes a number without a packet: the application's own finds the socket closed,
  because nobody else opens it (`RstInv`), and the uip task's may not, which is what `stray`
  records. The lemmas about single steps are stated for any caller of the socket (`AppStep`,
  `UipStep`), so that `TcpLink_proofs` can use them.
* `TcpLink_proofs`: SocketKeepsItsStream, SocketTakesTheStream, EofIsComplete,
  NothingIsLost, AckedBytesTaken, OneConnectionSafe, for any number of segments under way,
  any number of bytes, wherever the uip task is held up, and for peers that send their FIN
  alone or with data. `LinkInv` is the invariant of the socket (`SocketInv`) together with
  what is known of the wire (`Underway`): everything the socket has built, sent or not yet
  sent, ends at or before `snd_nxt` and acknowledges at most `rcv_nxt`; everything the peer
  has sent acknowledges at most what it has, and carries a FIN only at the end of its
  stream. Hence neither side is ahead of the other (`Behind`), and an acknowledgement takes
  off the queue only packets the peer has, so that, the queue being gapless, what the peer
  expects next still begins in it (NothingLost). `Counted` ties the acknowledgement number
  to the bytes put into the receive buffer. The refinements follow step by step: of the
  socket's own stream from NothingLost and `Ordered` (what is kept never begins earlier than
  before), of the peer's from `Counted` and `PeerSent` (what is under way ends before the
  peer's next number). On one connection neither `stray` nor `emptied` ever happens, because
  nothing reopens the socket (`OpenedOnce`), so SendGapless and ReceiveBound hold without
  exception (OneConnectionSafe). EofIsComplete counts what `cut` cuts off; `LinkAssumption`
  asks for a `MaxLen` of at least 1, a packet that can carry data.
* `EthTx_proofs`: EthTypeCorrect, RingKeepsLocks and NextAlwaysEmpty, from `EthInv`: the
  types, `Owner` (only the owner of the mutex is inside a call), `Cleaned` (the loop has
  passed the descriptor that will be written), `Locking` (a block about to be written is
  locked and in no descriptor, unless a start has just unlocked it) and LockedInRing.
  BlocksHaveOneHolder is inductive together with the reference count of the blocks nobody
  holds (`HolderInv`), both but for the blocks in use at a start.
* `TcpTables_proofs`: TablesTypeCorrect, TakenInOrder, NoSynLost. The age of a
  queued SYN is its distance behind the write position (`AgeInv`); from that the order of
  the queue follows for every size. NoSynLost needs that the socket of a listen in progress
  is its caller's and closed (`ListenClosed`), and that a slot has one user
  (`SlotOwnership`); both are kept until a `clash`.
* `SnicSerial_proofs`: SerialTypeCorrect, PreadStaysInRing, RingRefinesFifo, with skips over
  bytes that have not arrived. The remainders are first rewritten as a case distinction
  (`WrapSum`, `WrapDiff`); `Reading` says what the message task knows between its steps, in
  particular that the bytes it has copied are still those at the read position. Each step of
  the ring, skips ahead included, is then a step of `SnicFifo` or leaves the mapped queue
  and output alone.
* `SnicApi_proofs`: ApiTypeCorrect, AnswersAreOwn and HandlerKeepsLock, the last two up
  to `mixed`. `AnswerInv`, kept until then: no two tasks use one instance (`OneEach`); the
  items in use are those of the
  registered calls, with distinct numbers (`ItemInv`); a command under way with the number
  of a registered call is that call's (`AskedInv`); the message task works on such a call
  and has locked its item (`HandInv`), hence the caller cannot finish and begin another
  command meanwhile; so a signal seen by a command that cleared it came with its result
  (`SignalInv`).
* `UdpSocket_proofs`: UdpTypeCorrect, ArpEntriesUnique, OrdersObeyed, SeeksWhatWasRead,
  SendReleases, FramesFindTheirHop. Uniqueness is inductive together with `Fresh`: an entry
  in use holds what was announced last (`ArpInv`); the searches return an entry of the set
  they look for because a finite set of positions has a least and a greatest element.
  `OrderInv` ties the order bits to the uip task's place in carrying them out, `ReadInv` the
  datagram at the front to the reader between precv and pseek, `SendInv` memory and frame
  to the sender's place: it holds the blocks its loop forgot, and one more between
  allocation and release.
* `Httpd_proofs`: HttpTypeCorrect, MutexHeldExactly, BufferIsOwn; ListensOnClosed,
  AnswersLeave, AnsweredOnce and SessionOwned up to `usurped`; ConnectionsCounted and
  PersistentBounded up to `raced`. `ConnInv` says which states a connection can be in at
  each step of its thread (one lemma per operator of the stream and the connection),
  `LockInv` who is between lock and unlock, `SessionInv` whose block the session is,
  `CountInv` that the counter is the number of threads between inc and dec until a store
  overwrites another; the bound on persistent connections then counts the threads that read
  the counter before it was exceeded.

The type invariants other than TypeOK of `TcpSocket` are not among the runs' properties
because they are proved. Only model-checked: the liveness properties (OldestLeaves,
SynServed, SendReturns, CallReturns, Offered: fairness is beyond the
prover).

## 6. Exceptions: where the code does not do what it says

The violation runs are described under "findings" in `PROJECT.json`. The models reach the
following too. Where a formula is given TLC refutes it, and the passing runs state what
holds nevertheless.

TCP and Ethernet:

* RstClosed (run `tcp_reset`, assertion at Socket.c 674): sendRst runs after the unlock that
  closed the socket; the application may have reopened it, and the reset takes a number of
  the new connection (`stray`), which SendGapless then does not have.
* `apc = "seek" => alen <= rxlen` (assertion at Socket.c 925): startService clears the
  buffer between precv and pseek (`emptied`).
* `~running /\ used => state = "CLOSED"` with `Restarts = TRUE` (assertion at Socket.c
  1280): a queued SYN or a connect opens the socket while the interface is stopped.
* `apc = "psendQ" => alen <= peer_win` (comment at Socket.c 1063): the window can shrink
  between allocSendBuf and psend, and `peer_win` wraps.
* `apc \in {"swrTx", "psendTx"} => abuf \notin free` (Socket.c 1080):
  the packet is sent after the unlock, when an ACK may have released it.
* `state \in {"ESTABLISHED", "CLOSE_WAIT"} => snd_nxt # ISS` in `TcpLink` (comment at
  Socket.c 1356): a repeated SYN establishes a connection that has sent no SYN+ACK.
* `cut = 0` in `TcpLink` (Socket.c 1381): a FIN on data that does not fit is taken without
  the data, which is acknowledged and never read.
* OneHolder without `orphans` (assertion at NyLPC_cEthernetMM.c 160): a start zeroes the
  counts of blocks that tasks hold, and the lock of one that is being sent (`late`), which
  the ring then sends although it can be allocated.
* `~clash` in `TcpTables` (NetIf.c 820): two tasks get the same socket. From then on
  TakenOpens fails too.
* OldestFirst without its condition on the slot at wp (comment at Listener.c 70): a full
  queue returns its oldest SYN last, and refuses all others until then.
* A SYN repeated while the first is queued opens two sockets for one connection in
  `TcpTables`; only the one in the higher slot gets segments.
* `apc = "lastAck" => state = "CLOSED"` (Socket.c 1391-1392, comment at
  244): an ACK for data and FIN together leaves the socket in LAST_ACK.
* OldestLeaves with a peer window of 1 (Socket.c 1075, 1240, 1255): a packet that closes
  the window is never retransmitted, because the retransmission asks for window.
* SysAllocReturns (run `eth_sys_alloc`: 4 descriptors and 2 control blocks, the code has 16
  and 4; NetIf.c 430-440): allocSysTxBuf spins with the mutex that the release needs.
* Two clients of `TcpTables` with the same local port (Socket.c 750, NetIf.c 647, IPv4.c
  197): the wanted port is compared in the other byte order, so the counter assigns a port
  in use once it has gone round.

SNIC:

* `SnicFifo` without its action SkipAhead (NyLPC_cSnicNetIf.c 140, seekPayload): skipping
  before the bytes are there moves the read position past the write position, and old
  bytes are read as new ones.
* A full ring leaves the byte in the UART (NyLPC_cSnicSerialDevice.cpp 99), so that the
  interrupt returns at once and comes again until the message task, which cannot run
  meanwhile, makes room.
* `fault # "frame"` in `SnicApi` (NyLPC_cSnicNetIf.c 208-213, comment at 23): startPayload
  fills the shared buffer before it locks the mutex; two tasks spoil a frame, the module
  does not answer it, and its caller waits for ever: no command has a time-out.
* sendFromSocket, sendUdpPacketFromSocket and setSocketOption do not clear the signal: they
  return before their answer if an earlier one left it set. OwnAnswer is therefore stated
  for the others, which are protected from the late answer.
* OwnAnswer without `mixed`: every task is handed the same instance
  (NyLPC_cSnicNetIf.c 104-115), and a second call overwrites `last_cmd` and the place of the
  result of the first; after 255 calls a number can be given out that an answer under way
  still carries (NyLPC_cIdPtrTable.c 63); and sendIndicateConfirm asks for an answer with
  any number.
* sendIndicateConfirm (NyLPC_cSnicApi.c 535-541) sends the command CLOSE_SOCKET.

UDP, ARP and the uip task (read off the code while modelling):

* The ages of ARP entries are 8-bit numbers compared as int (Arp.c 112, 319): an entry
  written shortly before the clock wraps never expires, and after a wrap the "oldest"
  entry is not the oldest. The clock ticks every 10 minutes (NetIf.c 212) where the comment
  at Arp.c 62-66 counts in units of 10 seconds.
* A probe from 0.0.0.0 takes an entry, and evicts one when the table is full.
* sendIPv4Tx asks for the hardware address of a remote destination itself instead of its
  router's (NetIf.c 414), and psend sleeps before every datagram to a remote host.
* `lost = 0` in `UdpSocket`: send forgets a block that is too small without releasing it,
  and after three of them uses the last all the same (UdpSocket.c 380-391). The comment at
  `netif/NyLPC_iUdpSocket.h` 108 asks the callers of alloc to release what they get. When
  all blocks are lost, every later send fails.
* An empty datagram looks like a time-out to precv's callers (UdpSocket.c 268), who do not
  call pseek: it stays at the front for ever.
* startService empties the receive buffer without the mutex (UdpSocket.c 420), between a
  precv and its pseek; ReadBeforeSeek is stated for datagrams that no start has removed.
* A socket created while the interface runs has no local address until the next start
  (NetIf.c 836-870). udp_rx's test of the destination is inverted and lets every multicast
  group pass (IPv4.c 260). parseRx unlocks a mutex it does not hold when it drops a
  datagram early (UdpSocket.c 177, 209).

HTTP server:

* CountExact and KeepAliveBound without `raced` (NyLPC_cHttpd.c 42, assertion at 49): the
  counter is not protected; a lost update leaves it wrong for good.
* SessionOwn without `usurped` (ModJsonRpc.cpp 58-59): the failed allocation is not noticed
  before a second look at `_mod`, by when another thread may have a session there, which
  both then use and both free.
* `ans <= 1` for parsed requests: when the socket fails under the 101 of a WebSocket
  handshake after a part of it was sent (NyLPC_cModWebSocket.c 239-275), main answers the
  request again, with a 302 (main.cpp 140). AnswerOnce allows for this one.
* Every request that no other module takes claims the JSON-RPC session for a moment, so a
  real one can be redirected, and requests of other connections lose their persistence.
* After a refused handshake main's redirect (main.cpp 140) turns the response to ERROR, and
  the body of the error page is released unsent.
* A request that is answered without being parsed (302 at main.cpp 140, 405 at
  ModLocalFileSystem.cpp 216) on a persistent connection gets a second answer, 403, and its
  request status stays REQPARSE: `At(t, "prefetch") => conn[t].req = "PREFETCH"` (assertion
  at NyLPC_cHttpdConnection.c 284) is refuted. AnswerOnce is stated for parsed requests.
* prevNextPrefetch's case END falls through to the abort (NyLPC_cHttpdConnection.c 332-336);
  closeResponse ignores a failed close of the body (201); 100 Continue is not flushed
  before the body is awaited; a thread's start clears its terminated bit before it stores
  the function (NyLPC_cThread.cpp 66-68).

## 7. Not modelled

* Sockets and listener of the Wi-Fi module (`netif/snicip/`): unfinished in this revision.
  `connect` returns FALSE also after it has connected, `psend` of a UDP socket compares the
  length with a counter that is never incremented, `setBroadcast` and `joinMulticast` are
  empty, and `finalize` names a field its type does not have. A module for them belongs on
  top of `SnicApi` once they work.
* DHCP and APIPA: loops of one task over what `UdpSocket` and `IPv4Arp` model (start, send
  or probe, wait with a time-out, stop), with the answers taken in the uip task. The next
  module worth writing: an offer or acknowledgement that arrives after its time-out still
  writes the configuration until the interface is stopped.
* mDNS and SSDP: protocols above one UDP socket, driven by the periodic callback; WebSocket
  frames and the HTTP client: sequential users of one TCP connection.
* ICMP, the receive rings and PHYs of the Ethernet drivers, other boards.
* For good: text processing (HTTP, URL, JSON), MiMicVM, flash, peripherals, C++ wrappers and
  vendored code (FAT, mbed, mbed-rtos: more than a third of the repository's lines), which
  are sequential or belong to others; and, inside the modelled parts, checksums, addresses,
  MSS, the estimate of the round-trip time and the contents of payloads.
