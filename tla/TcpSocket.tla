----------------------------- MODULE TcpSocket -----------------------------
(***************************************************************************)
(* One MiMicIp TCP socket (core/netif/mimicip/NyLPC_cMiMicIpTcpSocket.c)    *)
(* with the two tasks that share it: the application, which calls the      *)
(* socket interface and is not reentrant, and the uip service task, which  *)
(* runs parseRx, periodic and start/stopService.  A step is a critical     *)
(* section of the socket mutex, or what a task does between two of them.   *)
(*                                                                         *)
(* The peer is open: any segment of InSegment may arrive at any time.      *)
(* TcpLink composes this module with a real peer and a lossy network.      *)
(*                                                                         *)
(* Timers are abstracted to choices: a wait may time out, and the oldest   *)
(* packet's retransmission timer may have expired, at any step.  Sequence  *)
(* numbers are naturals: the code only adds to them and compares them for  *)
(* equality.  Buffer and window sizes are 16 bits wide and keep it.        *)
(***************************************************************************)
EXTENDS Integers, Sequences, FiniteSets

CONSTANTS
    NUMBER_OF_TXQ,  \* slots of the retransmission ring; one stays unused
    Bufs,           \* transmission buffers of the Ethernet memory manager
    NoBuf,          \* "no buffer"
    ISS,            \* iss32, the initial send sequence number
    RxSize,         \* size of the receive buffer
    WinMod,         \* 2^16, the modulus of the 16-bit sizes
    MaxRto,         \* UIP_IP_RTO_MAX_RTO
    Restarts,       \* the interface may be stopped and started again
    InitialRto,     \* what estimateRTO returns for a new packet
    InSegment,      \* the segments that may arrive
    PeerSeq,        \* bound: rcv_nxt of a connection that is listened for
    MaxLen,         \* bound: payload of one segment sent
    MaxSeq          \* bound: snd_nxt after the last payload byte

Flag == {"SYN", "ACK", "FIN", "RST", "PSH"}

ASSUME SocketAssumption ==
    /\ NUMBER_OF_TXQ \in Nat \ {0, 1}
    /\ NoBuf \notin Bufs
    /\ ISS \in Nat
    /\ WinMod \in Nat \ {0, 1}
    /\ RxSize \in 0 .. WinMod - 1
    /\ MaxRto \in Nat \ {0}
    /\ Restarts \in BOOLEAN
    /\ InitialRto \subseteq 1 .. MaxRto
    /\ InSegment \subseteq [flags : SUBSET Flag, seq : Nat, ack : Nat,
                           len : Nat, wnd : 0 .. WinMod - 1]
    /\ PeerSeq \subseteq Nat
    /\ MaxLen \in Nat /\ MaxSeq \in Nat

VARIABLES
    state,      \* tcpstateflags
    snd_nxt,    \* uip_connr.snd_nxt32
    rcv_nxt,    \* uip_connr.rcv_nxt32
    peer_win,   \* uip_connr.peer_win
    rxlen,      \* rxbuf.len
    txq,        \* txbuf.txq from rp up to wp, oldest first
    mem,        \* what each transmission buffer holds
    free,       \* buffers whose reference count is 0
    running,    \* the service runs (STATUSBIT_IS_RUNNING)
    used,       \* the socket's entry of tcp_socket_table is in use
    apc,        \* where the application is
    aop,        \* the call of the application that is in progress
    abuf,       \* the buffer the application holds
    alen,       \* size granted by allocSendBuf or shown by precv
    asq,        \* acknowledgement number the application waits for
    upc,        \* where the uip task is
    udl,        \* dlist: buffers the uip task still has to release
    out,        \* segments put on the wire by the last step
    stray,      \* history: since the connection was opened the uip task has
                \* taken a number for the reset of the connection before it
    emptied     \* history: startService has emptied the receive buffer
                \* between precv and pseek

conn    == <<state, snd_nxt, rcv_nxt, peer_win, rxlen>>
appVars == <<apc, aop, abuf, alen, asq>>
uipVars == <<upc, udl, running, used>>
hist    == <<stray, emptied>>
vars    == <<conn, txq, mem, free, appVars, uipVars, hist, out>>

State == {"CLOSED", "SYN_RCVD", "SYN_SENT", "ESTABLISHED", "FIN_WAIT_1",
          "FIN_WAIT_2", "CLOSING", "TIME_WAIT", "CLOSE_WAIT", "LAST_ACK"}

AppPC == {"idle", "swrAlloc", "swrQ", "swrTx", "wait", "closing", "lastAck",
          "force", "rst", "rstTx", "seek", "window", "gotBuf", "psendQ",
          "psendTx"}

UipPC == {"idle", "release", "releaseRst", "rst", "rstTx"}

AppOp == {"none", "connect", "accept", "closeActive", "closePassive"}

Segment == [flags : SUBSET Flag, seq : Nat, ack : Nat, len : Nat, wnd : Nat]

Item == [ack : Nat, packet : Bufs, rto : 1 .. MaxRto]

BlankSegment == [flags |-> {}, seq |-> 0, ack |-> 0, len |-> 0, wnd |-> 0]

-----------------------------------------------------------------------------
(* Helpers of the source *)

u16(n) == n % WinMod

(* Mutant: one byte too many. *)
getSpaceOffByOne(rx) == u16(RxSize - rx + 1)

(* NyLPC_cFifoBuffer_getSpace of a receive buffer that holds rx bytes. *)
getSpace(rx) == u16(RxSize - rx)

(* setTxPacket, setTxPacketHeader: the header is built from the connection. *)
setTxPacket(flags, seq, ack, len, rx) ==
    [flags |-> flags, seq |-> seq, ack |-> ack, len |-> len,
     wnd |-> getSpace(rx)]

(* Position of the packet that acknowledgement number a completes, or 0.   *)
AckIndex(a) ==
    IF \E i \in 1 .. Len(txq) : txq[i].ack = a
    THEN CHOOSE i \in 1 .. Len(txq) :
            /\ txq[i].ack = a
            /\ \A j \in 1 .. i - 1 : txq[j].ack # a
    ELSE 0

(* Mutant: only the oldest packet is looked at. *)
isPacketAckedOldest(sq) == IF txq = <<>> THEN TRUE ELSE txq[1].ack # sq

isPacketAcked(sq) == AckIndex(sq) = 0

(* Number of packets before the one that a completes; all when none is.    *)
getNumOfSending(a) == IF AckIndex(a) = 0 THEN Len(txq) ELSE AckIndex(a) - 1

(* Buffers of the oldest n packets. *)
Packets(n) == {txq[i].packet : i \in 1 .. n}

(* Mutant: the slot that keeps a full ring from looking empty is used too. *)
TxQFullNoGap == Len(txq) = NUMBER_OF_TXQ

TxQFull == Len(txq) = NUMBER_OF_TXQ - 1

(* Mutant: the packets are released but stay queued. *)
resetTxQKept == UNCHANGED txq

(* resetTxQWithUnlock, up to the unlock: the packets leave the queue.      *)
resetTxQ == txq' = <<>>

-----------------------------------------------------------------------------
Init ==
    /\ state = "CLOSED"
    /\ snd_nxt = 0 /\ rcv_nxt = 0 /\ peer_win = 0 /\ rxlen = 0
    /\ txq = <<>>
    /\ mem = [b \in Bufs |-> BlankSegment]
    /\ free = Bufs
    /\ running = TRUE /\ used = TRUE
    /\ apc = "idle" /\ aop = "none" /\ abuf = NoBuf /\ alen = 0 /\ asq = 0
    /\ upc = "idle" /\ udl = {}
    /\ out = {} /\ stray = FALSE /\ emptied = FALSE

-----------------------------------------------------------------------------
(* The application.  The uip task has the higher priority, but it blocks   *)
(* inside its handlers when another thread holds the Ethernet mutex; then  *)
(* the application runs between two of its steps.                          *)

AppAt(pc) == used /\ apc = pc

(* Opening a connection resets the queue left by the previous one and      *)
(* releases its buffers ("insurance" in the source).                       *)
Open(st, rcv, win) ==
    /\ state' = st
    /\ snd_nxt' = ISS
    /\ rcv_nxt' = rcv
    /\ peer_win' = win
    /\ rxlen' = 0
    /\ resetTxQ
    /\ free' = free \cup Packets(Len(txq))
    /\ stray' = FALSE /\ emptied' = FALSE
    /\ out' = {}

(* listenSyn: a SYN taken from the listener's queue. *)
ListenSyn(rcv) ==
    /\ AppAt("idle")
    /\ state = "CLOSED"
    /\ Open("SYN_RCVD", rcv, 0)
    /\ UNCHANGED <<mem, appVars, uipVars>>

(* connect up to its call of sendWithRetransmit. *)
Connect ==
    /\ AppAt("idle")
    /\ state = "CLOSED"
    /\ Open("SYN_SENT", 0, 1)
    /\ apc' = "swrAlloc" /\ aop' = "connect"
    /\ UNCHANGED <<mem, abuf, alen, asq, uipVars>>

(* accept reads the state without the lock. *)
Accept ==
    /\ AppAt("idle")
    /\ state = "SYN_RCVD"
    /\ apc' = "swrAlloc" /\ aop' = "accept"
    /\ out' = {}
    /\ UNCHANGED <<conn, txq, mem, free, abuf, alen, asq, uipVars, hist>>

(* close: FIN_WAIT_1 or LAST_ACK is entered before the FIN is queued; any  *)
(* other open state is reset.                                              *)
Close ==
    /\ AppAt("idle")
    /\ state # "CLOSED"
    /\ \/ /\ state = "ESTABLISHED"
          /\ state' = "FIN_WAIT_1" /\ apc' = "swrAlloc" /\ aop' = "closeActive"
       \/ /\ state = "CLOSE_WAIT"
          /\ state' = "LAST_ACK" /\ apc' = "swrAlloc" /\ aop' = "closePassive"
       \/ /\ state \notin {"ESTABLISHED", "CLOSE_WAIT"}
          /\ apc' = "force" /\ UNCHANGED <<state, aop>>
    /\ out' = {}
    /\ UNCHANGED <<snd_nxt, rcv_nxt, peer_win, rxlen, txq, mem, free, abuf,
                   alen, asq, uipVars, hist>>

(* Flags of the packet sendWithRetransmit queues for the call in progress. *)
ControlFlags == CASE aop = "connect" -> {"SYN"}
                  [] aop = "accept"  -> {"SYN", "ACK"}
                  [] OTHER           -> {"FIN", "ACK"}

(* sendWithRetransmit: the buffer, or -1 when none is free in time.  Bufs  *)
(* is shared with other sockets, so none may be free although free has one.*)
SwrAlloc ==
    /\ AppAt("swrAlloc")
    /\ \/ \E b \in free :
            /\ abuf' = b /\ free' = free \ {b} /\ apc' = "swrQ"
       \/ apc' = "force" /\ UNCHANGED <<abuf, free>>
    /\ out' = {}
    /\ UNCHANGED <<conn, txq, mem, aop, alen, asq, uipVars, hist>>

(* Mutant: a SYN or FIN does not advance the sequence number. *)
EnqueueUncounted(flags, len, next_ack, pc) ==
    /\ ~TxQFull
    /\ \E r \in InitialRto :
         txq' = Append(txq, [ack |-> next_ack, packet |-> abuf, rto |-> r])
    /\ mem' = [mem EXCEPT ![abuf] =
                 setTxPacket(flags, snd_nxt, rcv_nxt, len, rxlen)]
    /\ snd_nxt' = snd_nxt + len
    /\ apc' = pc

(* A packet enters the queue: its buffer belongs to the queue from here.   *)
Enqueue(flags, len, next_ack, pc) ==
    /\ ~TxQFull
    /\ \E r \in InitialRto :
         txq' = Append(txq, [ack |-> next_ack, packet |-> abuf, rto |-> r])
    /\ mem' = [mem EXCEPT ![abuf] =
                 setTxPacket(flags, snd_nxt, rcv_nxt, len, rxlen)]
    /\ snd_nxt' = next_ack
    /\ apc' = pc

(* sendWithRetransmit from the lock to the unlock; getTxQ waits while the  *)
(* queue is full and fails when the socket is closed or the time is up.    *)
SwrQueue ==
    /\ AppAt("swrQ")
    /\ \/ /\ state # "CLOSED"
          /\ Enqueue(ControlFlags, 0, snd_nxt + 1, "swrTx")
          /\ asq' = snd_nxt + 1
          /\ UNCHANGED <<abuf, free>>
       \/ /\ state = "CLOSED" \/ TxQFull
          /\ free' = free \cup {abuf} /\ abuf' = NoBuf /\ apc' = "force"
          /\ UNCHANGED <<txq, mem, snd_nxt, asq>>
    /\ out' = {}
    /\ UNCHANGED <<state, rcv_nxt, peer_win, rxlen, aop, alen, uipVars, hist>>

(* sendIPv4Tx after the unlock: it sends what the buffer holds by now. *)
SwrTx ==
    /\ AppAt("swrTx")
    /\ out' = {mem[abuf]}
    /\ abuf' = NoBuf /\ apc' = "wait"
    /\ UNCHANGED <<conn, txq, mem, free, aop, alen, asq, uipVars, hist>>

(* waitForTxRemove: TRUE goes on, FALSE (closed or time out) forces.       *)
WaitForTxRemove ==
    /\ AppAt("wait")
    /\ \/ /\ isPacketAcked(asq) /\ state # "CLOSED"
          /\ apc' = CASE aop = "closeActive"  -> "closing"
                      [] aop = "closePassive" -> "lastAck"
                      [] OTHER                -> "idle"
       \/ /\ ~isPacketAcked(asq) \/ state = "CLOSED"
          /\ apc' = "force"
    /\ aop' = IF apc' = "idle" THEN "none" ELSE aop
    /\ out' = {}
    /\ UNCHANGED <<conn, txq, mem, free, abuf, alen, asq, uipVars, hist>>

(* close's loop after its FIN has been acknowledged. *)
CloseLoop ==
    /\ AppAt("closing")
    /\ \/ /\ state \in {"TIME_WAIT", "CLOSED"}
          /\ state' = "CLOSED" /\ apc' = "idle" /\ aop' = "none"
       \/ /\ state \notin {"TIME_WAIT", "CLOSED"}
          /\ apc' = "force" /\ UNCHANGED <<state, aop>>
    /\ out' = {}
    /\ UNCHANGED <<snd_nxt, rcv_nxt, peer_win, rxlen, txq, mem, free, abuf,
                   alen, asq, uipVars, hist>>

(* close after the FIN that it sent from CLOSE_WAIT has left the queue. *)
CloseLastAck ==
    /\ AppAt("lastAck")
    /\ \/ state = "CLOSED" /\ apc' = "idle" /\ aop' = "none"
       \/ state # "CLOSED" /\ apc' = "force" /\ UNCHANGED aop
    /\ out' = {}
    /\ UNCHANGED <<conn, txq, mem, free, abuf, alen, asq, uipVars, hist>>

(* The forced transition at the end of connect, accept and close. *)
ForceClosed ==
    /\ AppAt("force")
    /\ state' = "CLOSED"
    /\ \/ state # "CLOSED" /\ apc' = "rst"
       \/ state = "CLOSED" /\ apc' = "idle"
    /\ aop' = "none"
    /\ out' = {}
    /\ UNCHANGED <<snd_nxt, rcv_nxt, peer_win, rxlen, txq, mem, free, abuf,
                   alen, asq, uipVars, hist>>

(* sendRst: the sequence number under the lock, then, without it, the      *)
(* packet; its system buffer is released before it returns.                *)
sendRst(pc, next) ==
    \/ /\ pc = "rst" /\ next = "rstTx"
       /\ snd_nxt' = snd_nxt + 1
       /\ out' = {}
    \/ /\ pc = "rstTx" /\ next = "idle"
       /\ out' = {setTxPacket({"RST", "ACK"}, snd_nxt, rcv_nxt, 0, rxlen)}
       /\ UNCHANGED snd_nxt

AppSendRst ==
    /\ sendRst(apc, apc')
    /\ UNCHANGED <<state, rcv_nxt, peer_win, rxlen, txq, mem, free, aop,
                   abuf, alen, asq, uipVars, hist>>

(* precv shows the application what the receive buffer holds ... *)
Precv ==
    /\ AppAt("idle")
    /\ state \in {"ESTABLISHED", "CLOSE_WAIT"} /\ rxlen > 0
    /\ alen' = rxlen /\ apc' = "seek"
    /\ out' = {}
    /\ UNCHANGED <<conn, txq, mem, free, aop, abuf, asq, uipVars, hist>>

(* ... and pseek drops n bytes of it and announces the new window. *)
Pseek(n) ==
    /\ AppAt("seek")
    /\ n \in 0 .. alen
    /\ rxlen' = u16(rxlen - n)
    /\ out' = IF n = 0 THEN {}
              ELSE {setTxPacket({"ACK"}, snd_nxt, rcv_nxt, 0, rxlen')}
    /\ alen' = 0 /\ apc' = "idle"
    /\ UNCHANGED <<state, snd_nxt, rcv_nxt, peer_win, txq, mem, free, aop,
                   abuf, asq, uipVars, hist>>

(* allocSendBuf: the buffer ... *)
AllocSendBuf ==
    /\ AppAt("idle")
    /\ state = "ESTABLISHED"
    /\ \E b \in free : abuf' = b /\ free' = free \ {b}
    /\ apc' = "window"
    /\ out' = {}
    /\ UNCHANGED <<conn, txq, mem, aop, alen, asq, uipVars, hist>>

(* ... then the peer's window, which bounds the size granted; lim is the   *)
(* bound that the buffer and the peer's MSS set.                           *)
AllocSendBufWindow(lim) ==
    /\ AppAt("window")
    /\ \/ /\ peer_win > 0
          /\ alen' = IF peer_win < lim THEN peer_win ELSE lim
          /\ apc' = "gotBuf"
          /\ UNCHANGED <<free, abuf>>
       \/ /\ peer_win = 0
          /\ free' = free \cup {abuf} /\ abuf' = NoBuf /\ apc' = "idle"
          /\ UNCHANGED alen
    /\ out' = {}
    /\ UNCHANGED <<conn, txq, mem, aop, asq, uipVars, hist>>

(* releaseSendBuf, also what send does when psend fails. *)
ReleaseSendBuf ==
    /\ AppAt("gotBuf")
    /\ free' = free \cup {abuf} /\ abuf' = NoBuf /\ alen' = 0 /\ apc' = "idle"
    /\ out' = {}
    /\ UNCHANGED <<conn, txq, mem, aop, asq, uipVars, hist>>

(* psend's check of the state, without the lock. *)
Psend ==
    /\ AppAt("gotBuf")
    /\ state = "ESTABLISHED"
    /\ apc' = "psendQ"
    /\ out' = {}
    /\ UNCHANGED <<conn, txq, mem, free, aop, abuf, alen, asq, uipVars, hist>>

(* psend of len bytes from the lock to the unlock; on failure the caller   *)
(* keeps the buffer.  The window is not looked at again.                   *)
PsendQueue(len) ==
    /\ AppAt("psendQ")
    /\ len \in 1 .. alen
    /\ \/ /\ state # "CLOSED"
          /\ snd_nxt + len <= MaxSeq
          /\ Enqueue({"ACK", "PSH"}, len, snd_nxt + len, "psendTx")
          /\ peer_win' = u16(peer_win - len)
       \/ /\ state = "CLOSED" \/ TxQFull
          /\ apc' = "gotBuf"
          /\ UNCHANGED <<txq, mem, snd_nxt, peer_win>>
    /\ out' = {}
    /\ UNCHANGED <<state, rcv_nxt, rxlen, free, aop, abuf, alen, asq,
                   uipVars, hist>>

PsendTx ==
    /\ AppAt("psendTx")
    /\ out' = {mem[abuf]}
    /\ abuf' = NoBuf /\ alen' = 0 /\ apc' = "idle"
    /\ UNCHANGED <<conn, txq, mem, free, aop, asq, uipVars, hist>>

(* finalize gives back what is queued and frees the table entry.  It does  *)
(* not touch the state of the connection ...                               *)
Finalize ==
    /\ AppAt("idle")
    /\ resetTxQ
    /\ free' = free \cup Packets(Len(txq))
    /\ used' = FALSE
    /\ out' = {}
    /\ UNCHANGED <<conn, mem, appVars, upc, udl, running, hist>>

(* ... initialize, when the entry is taken again, does. *)
Initialize ==
    /\ ~used
    /\ used' = TRUE
    /\ state' = "CLOSED"
    /\ rxlen' = 0
    /\ txq' = <<>>
    /\ emptied' = FALSE
    /\ out' = {}
    /\ UNCHANGED <<snd_nxt, rcv_nxt, peer_win, mem, free, appVars, upc, udl,
                   running, stray>>

App ==
    \/ \E rcv \in PeerSeq : ListenSyn(rcv)
    \/ Connect \/ Accept \/ Close
    \/ SwrAlloc \/ SwrQueue \/ SwrTx \/ WaitForTxRemove \/ CloseLoop
    \/ CloseLastAck \/ ForceClosed \/ AppSendRst
    \/ Precv \/ \E n \in 0 .. WinMod - 1 : Pseek(n)
    \/ AllocSendBuf \/ ReleaseSendBuf
    \/ \E lim \in 1 .. MaxLen : AllocSendBufWindow(lim)
    \/ Psend \/ \E len \in 1 .. MaxLen : PsendQueue(len)
    \/ PsendTx
    \/ Finalize \/ Initialize

-----------------------------------------------------------------------------
(* The uip task: parseRx. *)

isNewPacket(seg) == seg.seq = rcv_nxt

hasFlag(seg, f) == f \in seg.flags

One(b) == IF b THEN 1 ELSE 0

(* Mutant: the data is acknowledged but not added to the buffer. *)
RxEstablishedCounts(seg) ==
    LET new == isNewPacket(seg)
        fin == new /\ hasFlag(seg, "FIN")
    IN /\ rcv_nxt' = rcv_nxt + (IF new THEN seg.len ELSE 0) + One(fin)
       /\ state' = IF fin THEN "CLOSE_WAIT" ELSE "ESTABLISHED"
       /\ UNCHANGED rxlen

(* Mutant: a FIN is taken out of order. *)
RxEstablishedAnyFin(seg) ==
    LET fits == isNewPacket(seg) /\ getSpace(rxlen) >= seg.len
        took == IF fits THEN seg.len ELSE 0
    IN /\ rxlen' = u16(rxlen + took)
       /\ rcv_nxt' = rcv_nxt + took + One(hasFlag(seg, "FIN"))
       /\ state' = IF hasFlag(seg, "FIN") THEN "CLOSE_WAIT" ELSE "ESTABLISHED"

(* What a segment does in ESTABLISHED: addRecvData takes all the data or   *)
(* none; a FIN closes the receiving side.                                  *)
RxEstablished(seg) ==
    LET fits == isNewPacket(seg) /\ seg.len > 0 /\ getSpace(rxlen) >= seg.len
        fin  == isNewPacket(seg) /\ hasFlag(seg, "FIN")
        took == IF fits THEN seg.len ELSE 0
    IN /\ rxlen' = u16(rxlen + took)
       /\ rcv_nxt' = rcv_nxt + took + One(fin)
       /\ state' = IF fin THEN "CLOSE_WAIT" ELSE "ESTABLISHED"

RxSynRcvd(seg) ==
    \/ /\ getNumOfSending(seg.ack) = 0
       /\ isNewPacket(seg)
       /\ RxEstablished(seg)
    \/ /\ getNumOfSending(seg.ack) = 0
       /\ ~isNewPacket(seg)
       /\ state' = "ESTABLISHED" /\ UNCHANGED <<rcv_nxt, rxlen>>
    \/ /\ getNumOfSending(seg.ack) # 0
       /\ UNCHANGED <<state, rcv_nxt, rxlen>>

(* Data that arrives in FIN_WAIT_1 is acknowledged and thrown away. *)
RxFinWait1(seg) ==
    LET acked == getNumOfSending(seg.ack) = 0
        fin   == hasFlag(seg, "FIN")
    IN /\ \/ /\ isNewPacket(seg)
             /\ rcv_nxt' = rcv_nxt + seg.len + One(fin)
             /\ state' = IF ~fin THEN state
                         ELSE IF acked THEN "TIME_WAIT" ELSE "CLOSING"
          \/ /\ ~isNewPacket(seg)
             /\ state' = IF acked THEN "FIN_WAIT_2" ELSE state
             /\ UNCHANGED rcv_nxt
       /\ UNCHANGED rxlen

(* Mutant: a FIN is answered as in ESTABLISHED. *)
RxFinWait2AsEstablished(seg) ==
    LET fin == isNewPacket(seg) /\ hasFlag(seg, "FIN")
    IN /\ rcv_nxt' = rcv_nxt + One(fin)
       /\ state' = IF fin THEN "CLOSE_WAIT" ELSE state
       /\ UNCHANGED rxlen

RxFinWait2(seg) ==
    LET fin == isNewPacket(seg) /\ hasFlag(seg, "FIN")
    IN /\ rcv_nxt' = rcv_nxt + One(fin)
       /\ state' = IF fin THEN "TIME_WAIT" ELSE state
       /\ UNCHANGED rxlen

(* LAST_ACK and CLOSING leave on an acknowledgement. *)
RxAwaitAck(seg, next) ==
    /\ state' = IF getNumOfSending(seg.ack) = 0 THEN next ELSE state
    /\ UNCHANGED <<rcv_nxt, rxlen>>

RxSynSent(seg) ==
    LET acked == getNumOfSending(seg.ack) = 0
    IN /\ state' = IF acked THEN "ESTABLISHED" ELSE state
       /\ rcv_nxt' = IF acked THEN seg.seq + 1 ELSE rcv_nxt
       /\ UNCHANGED rxlen

RxByState(seg) ==
    \/ state = "SYN_RCVD" /\ RxSynRcvd(seg)
    \/ state = "ESTABLISHED" /\ RxEstablished(seg)
    \/ state = "LAST_ACK" /\ RxAwaitAck(seg, "CLOSED")
    \/ state = "FIN_WAIT_1" /\ RxFinWait1(seg)
    \/ state = "FIN_WAIT_2" /\ RxFinWait2(seg)
    \/ state = "CLOSING" /\ RxAwaitAck(seg, "TIME_WAIT")
    \/ state = "SYN_SENT" /\ RxSynSent(seg)
    \/ /\ state \in {"CLOSE_WAIT", "CLOSED", "TIME_WAIT"}
       /\ UNCHANGED <<state, rcv_nxt, rxlen>>

(* Mutant: an ACK that completes no packet takes them all. *)
AckedPacketsAll(seg) ==
    CASE ~hasFlag(seg, "ACK")  -> 0
      [] AckIndex(seg.ack) = 0 -> Len(txq)
      [] OTHER                 -> AckIndex(seg.ack)

(* updateTxQByIndex: an ACK takes the packets up to the one it completes.  *)
AckedPackets(seg) == IF hasFlag(seg, "ACK") THEN AckIndex(seg.ack) ELSE 0

(* Mutant: the whole header is rebuilt, with the current sequence number. *)
updateTxAckRebuilt(seg) ==
    mem' = [b \in Bufs |->
              IF isNewPacket(seg) /\ \E i \in 1 .. Len(txq') : txq'[i].packet = b
              THEN [mem[b] EXCEPT !.ack = rcv_nxt', !.seq = snd_nxt]
              ELSE mem[b]]

(* updateTxAck: what stays queued gets the new acknowledgement number, but *)
(* keeps the window it was built with.                                     *)
updateTxAck(seg) ==
    mem' = [b \in Bufs |->
              IF isNewPacket(seg) /\ \E i \in 1 .. Len(txq') : txq'[i].packet = b
              THEN [mem[b] EXCEPT !.ack = rcv_nxt'] ELSE mem[b]]

(* A pure ACK answers SYN and FIN, and data that is not the next expected. *)
PureAck(seg) ==
    IF \/ hasFlag(seg, "FIN") \/ hasFlag(seg, "SYN")
       \/ ~isNewPacket(seg) /\ seg.len > 0
    THEN {setTxPacket({"ACK"}, snd_nxt, rcv_nxt', 0, rxlen')}
    ELSE {}

(* parseRx.  The socket was looked up before the lock was taken, so that   *)
(* parseRx may find it closed.                                             *)
ParseRx(seg) ==
    /\ upc = "idle" /\ running /\ used
    /\ \/ /\ hasFlag(seg, "RST")
          /\ state' = "CLOSED" /\ out' = {}
          /\ UNCHANGED <<rcv_nxt, peer_win, rxlen, txq, mem, upc, udl>>
       \/ /\ ~hasFlag(seg, "RST")
          /\ RxByState(seg)
          /\ peer_win' = seg.wnd
          /\ txq' = SubSeq(txq, AckedPackets(seg) + 1, Len(txq))
          /\ udl' = Packets(AckedPackets(seg))
          /\ upc' = IF udl' = {} THEN "idle" ELSE "release"
          /\ updateTxAck(seg)
          /\ out' = PureAck(seg)
    /\ UNCHANGED <<snd_nxt, free, used, appVars, running, hist>>

(* The release of the packets taken off the queue, after the unlock. *)
Release ==
    /\ upc \in {"release", "releaseRst"}
    /\ free' = free \cup udl
    /\ udl' = {}
    /\ upc' = IF upc = "releaseRst" THEN "rst" ELSE "idle"
    /\ out' = {}
    /\ UNCHANGED <<conn, txq, mem, used, appVars, running, hist>>

(* resetTxQWithUnlock by the uip task, which goes on at pc, or with the    *)
(* reset at once when it has nothing to release.                           *)
UipReset(pc) ==
    /\ resetTxQ
    /\ udl' = Packets(Len(txq))
    /\ upc' = IF txq = <<>> THEN "rst" ELSE pc
    /\ out' = {}

(* periodic of a closed socket gives its packets back. *)
PeriodicClosed ==
    /\ upc = "idle" /\ running /\ used
    /\ state = "CLOSED" /\ txq # <<>>
    /\ UipReset("release")
    /\ UNCHANGED <<conn, mem, free, used, appVars, running, hist>>

(* The oldest packet's timer has expired: it is doubled, and the whole     *)
(* queue is sent again, unless the timer passes its maximum.               *)
Retransmits == /\ upc = "idle" /\ running /\ used
               /\ state # "CLOSED" /\ txq # <<>> /\ peer_win # 0

(* Mutant: the timer is not doubled. *)
PeriodicRetransmitSame ==
    /\ Retransmits
    /\ txq[1].rto * 2 <= MaxRto
    /\ out' = {mem[b] : b \in Packets(Len(txq))}
    /\ UNCHANGED <<conn, txq, mem, free, appVars, uipVars, hist>>

PeriodicRetransmit ==
    /\ Retransmits
    /\ txq[1].rto * 2 <= MaxRto
    /\ txq' = [txq EXCEPT ![1].rto = @ * 2]
    /\ out' = {mem[b] : b \in Packets(Len(txq))}
    /\ UNCHANGED <<conn, mem, free, appVars, uipVars, hist>>

PeriodicGiveUp ==
    /\ Retransmits
    /\ txq[1].rto * 2 > MaxRto
    /\ state' = "CLOSED"
    /\ UipReset("releaseRst")
    /\ UNCHANGED <<snd_nxt, rcv_nxt, peer_win, rxlen, mem, free, appVars,
                   running, used, hist>>

StopService ==
    /\ Restarts
    /\ upc = "idle" /\ running
    /\ running' = FALSE
    /\ \/ /\ used /\ state # "CLOSED"
          /\ state' = "CLOSED"
          /\ UipReset("releaseRst")
       \/ /\ ~used \/ state = "CLOSED"
          /\ out' = {} /\ UNCHANGED <<state, txq, udl, upc>>
    /\ UNCHANGED <<snd_nxt, rcv_nxt, peer_win, rxlen, mem, free, used,
                   appVars, hist>>

StartService ==
    /\ upc = "idle" /\ ~running
    /\ running' = TRUE
    /\ rxlen' = IF used THEN 0 ELSE rxlen
    /\ emptied' = IF used THEN apc = "seek" ELSE emptied
    /\ out' = {}
    /\ UNCHANGED <<state, snd_nxt, rcv_nxt, peer_win, txq, mem, free, used,
                   appVars, upc, udl, stray>>

UipSendRst ==
    /\ sendRst(upc, upc')
    /\ stray' = (stray \/ (upc = "rst" /\ state # "CLOSED"))
    /\ UNCHANGED <<state, rcv_nxt, peer_win, rxlen, txq, mem, free, used,
                   appVars, udl, running, emptied>>

Uip ==
    \/ \E seg \in InSegment : ParseRx(seg)
    \/ Release \/ UipSendRst
    \/ PeriodicClosed \/ PeriodicRetransmit \/ PeriodicGiveUp
    \/ StopService \/ StartService

Next == App \/ Uip

Spec == Init /\ [][Next]_vars

-----------------------------------------------------------------------------
(* Properties *)

Queued == Packets(Len(txq))

(* The buffer the application still has to hand over or release.  After    *)
(* the packet is queued the application only reads it, to send it.         *)
AppOwned ==
    IF apc \in {"swrQ", "window", "gotBuf", "psendQ"} THEN {abuf} ELSE {}

(* The socket's variables keep their types: windows and buffered lengths   *)
(* fit their 16 bits, and the queue keeps the empty slot of its ring.      *)
TypeOK ==
    /\ state \in State
    /\ snd_nxt \in Nat /\ rcv_nxt \in Nat
    /\ peer_win \in 0 .. WinMod - 1 /\ rxlen \in 0 .. WinMod - 1
    /\ txq \in Seq(Item) /\ Len(txq) < NUMBER_OF_TXQ
    /\ mem \in [Bufs -> Segment]
    /\ free \subseteq Bufs
    /\ running \in BOOLEAN /\ used \in BOOLEAN
    /\ apc \in AppPC /\ aop \in AppOp
    /\ abuf \in Bufs \cup {NoBuf}
    /\ alen \in Nat /\ asq \in Nat
    /\ upc \in UipPC
    /\ udl \subseteq Bufs
    /\ out \subseteq Segment
    /\ stray \in BOOLEAN /\ emptied \in BOOLEAN

(* Every transmission buffer has exactly one owner: the free list, the     *)
(* application, the retransmission queue or the uip task's dlist.  So none *)
(* is leaked by a failing call and none is released twice, whatever the    *)
(* order of ACK, RST, time-out and close.                                  *)
BufferOwnership ==
    /\ free \cup AppOwned \cup Queued \cup udl = Bufs
    /\ free \cap (AppOwned \cup Queued \cup udl) = {}
    /\ AppOwned \cap (Queued \cup udl) = {}
    /\ Queued \cap udl = {}
    /\ \A i, j \in 1 .. Len(txq) : txq[i].packet = txq[j].packet => i = j

(* The assertions of close (lines 1148 and 1181): when close sees its      *)
(* connection finished, nothing is left in the retransmission queue.       *)
CloseAsserts ==
    /\ apc = "closing" /\ state \in {"TIME_WAIT", "CLOSED"} => txq = <<>>
    /\ apc = "lastAck" /\ state = "CLOSED" => txq = <<>>

(* The call that waits for its SYN or FIN waits for the last packet of the *)
(* queue, so that its acknowledgement completes everything sent before it; *)
(* once the wait is over, close finds the queue empty for good.            *)
AwaitsLastPacket ==
    /\ apc \in {"swrTx", "wait"} /\ txq # <<>> => txq[Len(txq)].ack = asq
    /\ apc \in {"closing", "lastAck"} => txq = <<>>

(* close polls its connection only in the states its loop knows: in any    *)
(* other state it would spin with the socket mutex held, and stop the uip  *)
(* task of every socket.                                                   *)
CloseLoopStates ==
    apc = "closing" =>
        state \in {"FIN_WAIT_1", "FIN_WAIT_2", "CLOSING", "TIME_WAIT",
                   "CLOSED"}

SegmentEnd(seg) ==
    seg.seq + seg.len + One(hasFlag(seg, "SYN") \/ hasFlag(seg, "FIN"))

(* What is queued is what will be retransmitted: every packet ends where   *)
(* its acknowledgement number says, although the header was rewritten, and *)
(* is not empty, so that no two packets wait for the same number and an    *)
(* ACK identifies the packets it completes.                                *)
SendSequence ==
    \A i \in 1 .. Len(txq) :
        /\ SegmentEnd(mem[txq[i].packet]) = txq[i].ack
        /\ mem[txq[i].packet].seq < txq[i].ack
        /\ i > 1 => txq[i - 1].ack <= mem[txq[i].packet].seq

(* While the connection is open the queue is the gapless end of the send   *)
(* sequence: retransmitting it brings the peer up to snd_nxt.  Only the    *)
(* reset of the connection before it, which periodic and stopService send  *)
(* after the unlock (lines 1258 and 1300), can take a number out of it.    *)
SendGapless ==
    ~stray /\ state # "CLOSED" /\ txq # <<>> =>
        /\ txq[Len(txq)].ack = snd_nxt
        /\ \A i \in 2 .. Len(txq) : mem[txq[i].packet].seq = txq[i - 1].ack

(* addRecvData never writes past the end of the receive buffer, and pseek  *)
(* is never asked for more than the buffer holds (lines 699 and 925),      *)
(* unless startService emptied the buffer between precv and pseek.         *)
ReceiveBound ==
    ~emptied => /\ rxlen <= RxSize
                /\ apc = "seek" => alen <= rxlen

(* The assertion of sendRst (line 674), which looks before it waits for    *)
(* its buffer: both tasks call it on a closed socket.                      *)
RstClosed ==
    [][/\ apc # "rst" /\ apc' = "rst" => state' = "CLOSED"
       /\ upc # "rst" /\ upc' = "rst" => state' = "CLOSED"]_vars
=============================================================================
