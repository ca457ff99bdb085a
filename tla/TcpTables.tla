----------------------------- MODULE TcpTables -----------------------------
(***************************************************************************)
(* The tables of the network interface through which tasks and segments    *)
(* find TCP sockets and listeners: the socket and listener tables of       *)
(* NyLPC_cMiMicIpNetIf.c, tcp_rx and getNewPortNumber of NyLPC_cIPv4.c,    *)
(* the SYN queue and listen of NyLPC_cMiMicIpTcpListener.c.                *)
(*                                                                         *)
(* What a connection does between its opening and its end is the subject   *)
(* of TcpSocket; here a socket is open or closed.  A segment that reaches  *)
(* a socket may end its connection.                                        *)
(***************************************************************************)
EXTENDS Integers, FiniteSets

CONSTANTS
    TCPSOCKET_MAX, TCPLISTENER_MAX,
    NUMBER_OF_Q,        \* slots of a listener's SYN queue
    Servers, Clients,   \* tasks of the application
    Peers, NoPeer,      \* a peer is an address and a port; NoPeer: rport = 0
    ListenPorts,        \* ports that listeners are created for, host order
    Byte,               \* values of one byte of a port number (256)
    PortBase, PortMod   \* 49152 and 0x0fff

Slots == 0 .. TCPSOCKET_MAX - 1
LSlots == 0 .. TCPLISTENER_MAX - 1
QSlots == 0 .. NUMBER_OF_Q - 1
Ports == 0 .. Byte * Byte - 1
None == -1
Tasks == Servers \cup Clients

ASSUME TablesAssumption ==
    /\ TCPSOCKET_MAX \in Nat \ {0} /\ TCPLISTENER_MAX \in Nat \ {0}
    /\ NUMBER_OF_Q \in Nat \ {0}
    /\ NoPeer \notin Peers
    /\ Byte \in Nat \ {0} /\ PortBase \in Nat /\ PortMod \in Nat \ {0}
    /\ PortBase + PortMod <= Byte * Byte
    /\ ListenPorts \subseteq Ports

VARIABLES
    used, sock,     \* tcp_socket_table: FLAGS_USED, and the socket
    lused, lport,   \* tcp_listener_table: FLAGS_USED, and _port
    item, wp,       \* the SYN queue of each listener
    counter,        \* tcp_port_counter
    task,           \* where each task is
    age,            \* history: SYNs queued since the one in a slot
    clash           \* history: two tasks were given one slot of the table

sockVars == <<used, sock>>
lisVars == <<lused, lport, item, wp, age>>
tvars == <<used, sock, lused, lport, item, wp, counter, task, age, clash>>

(* "making": createTcpSocetEx has chosen the slot "at"; "listen": in       *)
(* listen with socket "at" and listener "lis".                             *)
Task == [pc : {"run", "making", "listen"}, at : Slots \cup {None},
         lis : LSlots \cup {None}, held : SUBSET Slots]

(* active: opened by connect, not by listen. *)
Socket == [open : BOOLEAN, lport : Ports, peer : Peers \cup {NoPeer}, active : BOOLEAN]

NoSocket == [open |-> FALSE, lport |-> 0, peer |-> NoPeer, active |-> FALSE]

TablesInit ==
    /\ used = [i \in Slots |-> FALSE]
    /\ sock = [i \in Slots |-> NoSocket]
    /\ lused = [l \in LSlots |-> FALSE]
    /\ lport = [l \in LSlots |-> 0]
    /\ item = [l \in LSlots |-> [k \in QSlots |-> NoPeer]]
    /\ wp = [l \in LSlots |-> 0]
    /\ counter = 0
    /\ task = [t \in Tasks |-> [pc |-> "run", at |-> None, lis |-> None, held |-> {}]]
    /\ age = [l \in LSlots |-> [k \in QSlots |-> 0]]
    /\ clash = FALSE

-----------------------------------------------------------------------------
(* Numbers and searches. *)

(* NyLPC_htons on a little-endian processor *)
htons(n) == (n % Byte) * Byte + n \div Byte

(* getMatchTcpSocket searches from the last slot down. *)
Matches(i, p, peer) ==
    used[i] /\ sock[i].open /\ sock[i].lport = p /\ sock[i].peer = peer

getMatchTcpSocket(p, peer) ==
    {i \in Slots : Matches(i, p, peer)
                   /\ \A j \in Slots : Matches(j, p, peer) => j <= i}

getListenerByPeerPort(p) ==
    {l \in LSlots : lused[l] /\ lport[l] = p
                    /\ \A m \in LSlots : lused[m] /\ lport[m] = p => m <= l}

(* i_lport is in host order, the ports it is compared with in network order *)
isClosedTcpPort(n) ==
    /\ \A i \in Slots : used[i] /\ sock[i].open => sock[i].lport # n
    /\ \A l \in LSlots : lused[l] => lport[l] # n

(* Mutants: the first occupied slot of the table; a loop that ends one     *)
(* early.                                                                  *)
IsFirstSlot(l, k) ==
    k \in QSlots /\ item[l][k] # NoPeer /\ \A j \in QSlots : j < k => item[l][j] = NoPeer

IsLastIndexShort(l, k) ==
    \E i \in 1 .. NUMBER_OF_Q - 1 :
        /\ k = (wp[l] + i) % NUMBER_OF_Q
        /\ item[l][k] # NoPeer
        /\ \A j \in 1 .. i - 1 : item[l][(wp[l] + j) % NUMBER_OF_Q] = NoPeer

(* getLastIndex returns k: the first occupied slot after wp, and the slot  *)
(* at wp itself last.                                                      *)
IsLastIndex(l, k) ==
    \E i \in 1 .. NUMBER_OF_Q :
        /\ k = (wp[l] + i) % NUMBER_OF_Q
        /\ item[l][k] # NoPeer
        /\ \A j \in 1 .. i - 1 : item[l][(wp[l] + j) % NUMBER_OF_Q] = NoPeer

-----------------------------------------------------------------------------
(* The application: sockets. *)

(* createTcpSocetEx searches the first unused slot without a lock ...      *)
CreateScan(t) ==
    /\ task[t].pc = "run"
    /\ \E i \in Slots :
        /\ ~used[i] /\ \A j \in Slots : j < i => used[j]
        /\ task' = [task EXCEPT ![t].pc = "making", ![t].at = i]
        /\ clash' = IF \E u \in Tasks : task[u].pc = "making" /\ task[u].at = i
                      THEN TRUE ELSE clash
    /\ UNCHANGED <<sockVars, lisVars, counter>>

(* ... initializes the socket and then marks the slot as used: another     *)
(* task may have chosen the same slot meanwhile, or already work with it.  *)
CreateMark(t) ==
    /\ task[t].pc = "making"
    /\ sock' = [sock EXCEPT ![task[t].at] = NoSocket]
    /\ used' = [used EXCEPT ![task[t].at] = TRUE]
    /\ task' = [task EXCEPT ![t].pc = "run", ![t].at = None,
                            ![t].held = @ \cup {task[t].at}]
    /\ UNCHANGED <<lisVars, counter, clash>>

(* finalize, releaseTcpSocketMemory; an open connection is not closed.     *)
(* The sockets of a server are kept (NyLPC_cHttpd_loop does not end).      *)
Finalize(t, i) ==
    /\ t \in Clients /\ task[t].pc = "run" /\ i \in task[t].held
    /\ used' = [used EXCEPT ![i] = FALSE]
    /\ task' = [task EXCEPT ![t].held = @ \ {i}]
    /\ UNCHANGED <<sock, lisVars, counter, clash>>

(* connect: getNewPortNumber tries one number, because its loop counts     *)
(* an unsigned i down from 0.                                              *)
Connect(t, i, peer) ==
    /\ t \in Clients /\ task[t].pc = "run" /\ i \in task[t].held /\ ~sock[i].open
    /\ counter' = (counter + 1) % PortMod
    /\ LET n == counter' + PortBase IN
         sock' = IF isClosedTcpPort(n)
                 THEN [sock EXCEPT ![i] = [open |-> TRUE, lport |-> htons(n),
                                           peer |-> peer, active |-> TRUE]]
                 ELSE sock
    /\ UNCHANGED <<used, task, lisVars, clash>>

(* close, or a connect or accept that gives up; a thread that serves i     *)
(* may do it while the task that started the thread is in listen again.    *)
AppClose(t, i) ==
    /\ i \in task[t].held \ {task[t].at} /\ sock[i].open
    /\ sock' = [sock EXCEPT ![i].open = FALSE]
    /\ UNCHANGED <<used, task, lisVars, counter, clash>>

-----------------------------------------------------------------------------
(* The application: listeners. *)

(* createTcpListener, NyLPC_TTcpListenerListenQ_init *)
CreateListener(p) ==
    /\ \E l \in LSlots :
        /\ ~lused[l] /\ \A m \in LSlots : m < l => lused[m]
        /\ lused' = [lused EXCEPT ![l] = TRUE]
        /\ lport' = [lport EXCEPT ![l] = htons(p)]
        /\ wp' = [wp EXCEPT ![l] = 0]
        /\ item' = [item EXCEPT ![l] = [k \in QSlots |-> NoPeer]]
        /\ age' = [age EXCEPT ![l] = [k \in QSlots |-> 0]]
    /\ UNCHANGED <<sockVars, counter, task, clash>>

(* releaseTcpListenerMemory, by a task when none is in listen *)
FinalizeListener(l) ==
    /\ lused[l] /\ \A t \in Tasks : task[t].lis # l
    /\ lused' = [lused EXCEPT ![l] = FALSE]
    /\ UNCHANGED <<sockVars, lport, item, wp, age, counter, task, clash>>

(* Mutant: listen without its check of the socket. *)
ListenAnySocket(t, i, l) ==
    /\ task[t].pc = "run" /\ i \in task[t].held /\ lused[l]
    /\ task' = [task EXCEPT ![t].pc = "listen", ![t].at = i, ![t].lis = l]
    /\ UNCHANGED <<sockVars, lisVars, counter, clash>>

(* listen looks at the socket without a lock. *)
Listen(t, i, l) ==
    /\ task[t].pc = "run" /\ i \in task[t].held /\ lused[l]
    /\ ~sock[i].open
    /\ task' = [task EXCEPT ![t].pc = "listen", ![t].at = i, ![t].lis = l]
    /\ UNCHANGED <<sockVars, lisVars, counter, clash>>

Returned(t) == [task EXCEPT ![t].pc = "run", ![t].at = None, ![t].lis = None]

(* NyLPC_TTcpListenerListenQ_remove *)
remove(l, k) == [item EXCEPT ![l][k] = NoPeer]

(* listenSyn opens the socket if it is still closed; the SYN leaves the    *)
(* queue in either case.                                                   *)
ListenTake(t) ==
    /\ task[t].pc = "listen"
    /\ \E k \in QSlots :
        LET i == task[t].at
            l == task[t].lis IN
        /\ IsLastIndex(l, k)
        /\ sock' = IF sock[i].open THEN sock
                   ELSE [sock EXCEPT ![i] = [open |-> TRUE, lport |-> lport[l],
                                             peer |-> item[l][k], active |-> FALSE]]
        /\ item' = remove(l, k)
        /\ age' = [age EXCEPT ![l][k] = 0]
    /\ task' = Returned(t)
    /\ UNCHANGED <<used, lused, lport, wp, counter, clash>>

ListenTimeout(t) ==
    /\ task[t].pc = "listen"
    /\ task' = Returned(t)
    /\ UNCHANGED <<sockVars, lisVars, counter, clash>>

-----------------------------------------------------------------------------
(* The uip task: tcp_rx. *)

(* A SYN goes to the slot at wp: every other one queued is one SYN older. *)
Older(l) ==
    [age EXCEPT ![l] = [k \in QSlots |->
        IF k = wp[l] \/ item[l][k] = NoPeer THEN 0 ELSE @[k] + 1]]

(* NyLPC_TTcpListenerListenQ_add *)
add(l, peer) ==
    /\ item[l][wp[l]] = NoPeer
    /\ item' = [item EXCEPT ![l][wp[l]] = peer]
    /\ wp' = [wp EXCEPT ![l] = (@ + 1) % NUMBER_OF_Q]
    /\ age' = Older(l)

(* A SYN for no open connection goes to the listener; one that finds the   *)
(* slot at wp occupied is dropped, and so is any other segment.            *)
RxSyn(p, peer) ==
    /\ getMatchTcpSocket(p, peer) = {}
    /\ \E l \in getListenerByPeerPort(p) : add(l, peer)
    /\ UNCHANGED <<sockVars, lused, lport, counter, task, clash>>

(* A segment whose connection it ends, as parseRx decides. *)
RxEnd(p, peer) ==
    /\ \E i \in getMatchTcpSocket(p, peer) : sock' = [sock EXCEPT ![i].open = FALSE]
    /\ UNCHANGED <<used, lisVars, counter, task, clash>>

(* periodic or stopService gives the connection up. *)
GiveUp(i) ==
    /\ used[i] /\ sock[i].open
    /\ sock' = [sock EXCEPT ![i].open = FALSE]
    /\ UNCHANGED <<used, lisVars, counter, task, clash>>

-----------------------------------------------------------------------------
AppNext(t) ==
    \/ CreateScan(t) \/ CreateMark(t) \/ ListenTake(t) \/ ListenTimeout(t)
    \/ \E i \in Slots :
        \/ Finalize(t, i) \/ AppClose(t, i)
        \/ \E peer \in Peers : Connect(t, i, peer)
        \/ \E l \in LSlots : Listen(t, i, l)

TablesNext ==
    \/ \E t \in Tasks : AppNext(t)
    \/ \E p \in ListenPorts : CreateListener(p)
    \/ \E l \in LSlots : FinalizeListener(l)
    \/ \E p \in Ports, peer \in Peers : RxSyn(p, peer) \/ RxEnd(p, peer)
    \/ \E i \in Slots : GiveUp(i)

TablesSpec == TablesInit /\ [][TablesNext]_tvars

(* A server is a loop around listen, as NyLPC_cHttpd_loop is, and every    *)
(* connection that its threads serve ends.  listen looks at the queue at   *)
(* least once in each call, unless its whole waiting time has gone by      *)
(* before it gets that far.                                                *)
TablesFairSpec ==
    /\ TablesSpec
    /\ \A t \in Servers :
        /\ WF_tvars(CreateMark(t))
        /\ \A i \in Slots : WF_tvars(AppClose(t, i))
        /\ \A l \in LSlots : SF_tvars(\E i \in Slots : Listen(t, i, l))
        /\ SF_tvars(ListenTake(t))
        /\ WF_tvars(ListenTimeout(t))

-----------------------------------------------------------------------------
(* Properties. *)

(* The tables, the queues and the tasks keep their types; an index into a  *)
(* table is one of its slots, and a slot's age counts fewer SYNs than the  *)
(* queue has slots.                                                        *)
TablesTypeOK ==
    /\ used \in [Slots -> BOOLEAN] /\ sock \in [Slots -> Socket]
    /\ lused \in [LSlots -> BOOLEAN] /\ lport \in [LSlots -> Ports]
    /\ item \in [LSlots -> [QSlots -> Peers \cup {NoPeer}]]
    /\ wp \in [LSlots -> QSlots] /\ age \in [LSlots -> [QSlots -> QSlots]]
    /\ counter \in 0 .. PortMod - 1
    /\ task \in [Tasks -> Task] /\ clash \in BOOLEAN
    /\ \A t \in Tasks : /\ task[t].pc = "run" <=> task[t].at = None
                        /\ task[t].pc = "listen" <=> task[t].lis # None

(* getLastIndex returns the oldest SYN of the queue (「最も古いSYNパケット *)
(* 情報のインデクス」, NyLPC_cMiMicIpTcpListener.c:70) as long as the slot *)
(* at wp is free, whatever was taken or refused before.  When the queue is *)
(* full, the SYN at wp is the oldest and is returned last.                 *)
OldestFirst ==
    \A l \in LSlots : \A k, m \in QSlots :
        item[l][wp[l]] = NoPeer /\ IsLastIndex(l, k) /\ item[l][m] # NoPeer
            => age[l][m] <= age[l][k]

(* A SYN that left the queue has opened a socket for its peer: listenSyn   *)
(* never finds the socket of the call open, although listen looked at it   *)
(* before the wait and without a lock, unless two tasks were given one     *)
(* slot of the socket table.                                               *)
TakenOpens ==
    [][~clash => \A l \in LSlots, k \in QSlots :
        lused[l] /\ item[l][k] # NoPeer /\ item'[l][k] = NoPeer =>
            \E i \in Slots : /\ ~sock[i].open /\ sock'[i].open
                             /\ sock'[i].peer = item[l][k]
                             /\ sock'[i].lport = lport[l]]_tvars

(* No SYN stays in the queue for ever while a server has a socket, even    *)
(* when the queue is full and clients use the same tables, or the same     *)
(* socket.                                                                 *)
SynServed ==
    \A l \in LSlots, k \in QSlots :
        []<>~(/\ lused[l] /\ item[l][k] # NoPeer
              /\ \E t \in Servers : task[t].held # {})

=============================================================================
