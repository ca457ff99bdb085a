------------------------------ MODULE UdpSocket ------------------------------
(***************************************************************************)
(* A UDP socket, mimicip/NyLPC_cMiMicIpUdpSocket.c, with what it shares:   *)
(* the ARP table, the way a datagram goes out through sendIPv4Tx, and the  *)
(* start and stop orders of the uip task (NyLPC_cMiMicIpNetIf.c).          *)
(*                                                                         *)
(* Four actors: the uip task, which runs each of its handlers without      *)
(* interruption; a thread that reads the socket; a thread that sends on    *)
(* it; and the thread that starts and stops the interface.                 *)
(***************************************************************************)
EXTENDS IPv4Arp, Sequences, Functions

CONSTANTS
    Router,         \* dr_addr
    BROADCAST, BroadcastMac,
    Sizes,          \* sizes of received datagrams
    HeaderSize,     \* sizeof(struct NyLPC_TIPv4RxInfo)
    RxSize,         \* size of the receive buffer
    MaxTry,         \* 3
    Blocks,         \* blocks of memory that allocTxBuf chooses from: 26
    SendTo          \* the destinations of send

Dests == Ips \cup {BROADCAST}

ASSUME UdpAssumption ==
    /\ Router \in LocalIps
    /\ BROADCAST \notin LocalIps /\ BroadcastMac \notin Macs
    /\ Sizes \subseteq Nat /\ HeaderSize \in Nat \ {0}
    /\ RxSize \in Nat /\ MaxTry \in Nat \ {0} /\ Blocks \in Nat /\ SendTo \subseteq Dests

VARIABLES
    status,     \* bits of _status
    upc,        \* the uip task's place in updateTaskStatus
    ctl,        \* the thread that starts and stops: the order it waits for
    used, broadcast,            \* FLAGS_USED of the socket, FLAG_BROADCAST
    rxbuf,      \* the datagrams in the receive buffer; read: handed out by precv
    reading, cleared,           \* between precv and pseek; a start emptied rxbuf
    skipped,                    \* pseek removed a datagram that was never handed out
    spc, dest, try, frame,      \* the sender: step, argument, attempt, output
    refs,       \* blocks of memory that send has taken and not given back
    lost        \* history: blocks that send found too small, and forgot

rxVars  == <<used, broadcast, rxbuf, reading, cleared, skipped>>
txVars  == <<spc, dest, try, frame, refs, lost>>
runVars == <<status, upc, ctl>>
udpVars == <<arpVars, runVars, rxVars, txVars>>

NoFrame == [dest |-> ZERO, mac |-> NoMac]

UdpTypeOK ==
    /\ ArpTypeOK
    /\ status \subseteq {"IS_RUNNING", "ORDER_START", "ORDER_STOP"}
    /\ upc \in {"loop", "device", "started", "stopped"}
    /\ ctl \in {"idle", "start", "stop"}
    /\ {used, broadcast, reading, cleared, skipped} \subseteq BOOLEAN
    /\ rxbuf \in Seq([size : Sizes, read : BOOLEAN])
    /\ spc \in {"idle", "alloc", "psend", "sleep", "tx", "release"}
    /\ dest \in Dests /\ try \in 1 .. MaxTry
    /\ refs \in 0 .. Blocks /\ lost \in 0 .. Blocks
    /\ frame \in [dest : Dests, mac : Macs \cup {BroadcastMac}] \cup {NoFrame}

UdpInit ==
    /\ ArpInit
    /\ status = {} /\ upc = "loop" /\ ctl = "idle"
    /\ used = FALSE /\ broadcast = FALSE /\ rxbuf = <<>>
    /\ reading = FALSE /\ cleared = FALSE /\ skipped = FALSE
    /\ spc = "idle" /\ dest = Router /\ try = 1 /\ frame = NoFrame
    /\ refs = 0 /\ lost = 0

isRun == "IS_RUNNING" \in status

(* NyLPC_cFifoBuffer_getLength: every datagram follows its header. *)
Length(b) == SumFunction([i \in DOMAIN b |-> b[i].size + HeaderSize])

-----------------------------------------------------------------------------
(* Start and stop *)

(* NyLPC_cMiMicIpNetIf_start and _stop set an order and poll it every 10 ms. *)
Order(o, bit) ==
    /\ ctl = "idle" /\ isRun = (o = "stop")
    /\ status' = status \cup {bit} /\ ctl' = o
    /\ UNCHANGED <<arpVars, upc, rxVars, txVars>>

OrderDone(o, bit) ==
    /\ ctl = o /\ bit \notin status
    /\ ctl' = "idle"
    /\ UNCHANGED <<arpVars, status, upc, rxVars, txVars>>

(* updateTaskStatus when stopped: NyLPC_cIPv4_start makes the socket's      *)
(* startService empty its buffer, then the ARP table is initialized.       *)
UipStart ==
    /\ upc = "loop" /\ ~isRun /\ "ORDER_START" \in status
    /\ rxbuf' = <<>> /\ cleared' = reading
    /\ ArpStart
    /\ upc' = "device"
    /\ UNCHANGED <<status, ctl, used, broadcast, reading, skipped, txVars>>

(* Mutant: the order is acknowledged before the interface is running. *)
UipDeviceEarly ==
    /\ upc = "device"
    /\ status' = status \ {"ORDER_START"} /\ upc' = "started"
    /\ UNCHANGED <<arpVars, ctl, rxVars, txVars>>

(* The device's start is repeated until it succeeds; it waits for the PHY, *)
(* and other threads run.                                                  *)
UipDevice ==
    /\ upc = "device"
    /\ status' = status \cup {"IS_RUNNING"} /\ upc' = "started"
    /\ UNCHANGED <<arpVars, ctl, rxVars, txVars>>

UipStarted ==
    /\ upc = "started"
    /\ status' = status \ {"ORDER_START"} /\ upc' = "loop"
    /\ UNCHANGED <<arpVars, ctl, rxVars, txVars>>

UipStop ==
    /\ upc = "loop" /\ isRun /\ "ORDER_STOP" \in status
    /\ status' = status \ {"IS_RUNNING"} /\ upc' = "stopped"
    /\ UNCHANGED <<arpVars, ctl, rxVars, txVars>>

UipStopped ==
    /\ upc = "stopped"
    /\ status' = status \ {"ORDER_STOP"} /\ upc' = "loop"
    /\ UNCHANGED <<arpVars, ctl, rxVars, txVars>>

-----------------------------------------------------------------------------
(* The uip task while running *)

Running == upc = "loop" /\ isRun /\ "ORDER_STOP" \notin status

(* An ARP packet to us; the reply to a request is sent here as well. *)
UipArp(ip, mac) ==
    /\ Running
    /\ ArpRx(ip, mac)
    /\ UNCHANGED <<runVars, rxVars, txVars>>

UipPeriodic ==
    /\ Running
    /\ periodic
    /\ UNCHANGED <<runVars, rxVars, txVars>>

(* parseRx's conditions for a datagram that its onRx handler, if there is  *)
(* one, accepts.  udp_rx looks for a socket by the port alone.             *)
Stores(bcast, size) ==
    /\ used /\ (bcast => broadcast)
    /\ RxSize - Length(rxbuf) >= size + HeaderSize

(* An IP packet: the ARP table learns its sender, then udp_rx and parseRx  *)
(* store the datagram.                                                     *)
UipUdp(bcast, size) ==
    /\ Running
    /\ Stores(bcast, size)
    /\ \E ip \in Ips, mac \in Macs : incomingIp(ip, mac)
    /\ rxbuf' = Append(rxbuf, [size |-> size, read |-> FALSE])
    /\ UNCHANGED <<runVars, used, broadcast, reading, cleared, skipped, txVars>>

(* One that is not stored: for another socket, without space, a broadcast  *)
(* that was not asked for, or refused by the onRx handler.                 *)
UipDrop(ip, mac) ==
    /\ Running
    /\ incomingIp(ip, mac)
    /\ UNCHANGED <<runVars, rxVars, txVars>>

-----------------------------------------------------------------------------
(* The socket's users *)

(* createUdpSocetEx and NyLPC_cMiMicIpUdpSocket_initialize *)
Create ==
    /\ ~used
    /\ used' = TRUE /\ broadcast' = FALSE /\ rxbuf' = <<>>
    /\ UNCHANGED <<arpVars, runVars, reading, cleared, skipped, txVars>>

finalize ==
    /\ used /\ ~reading /\ spc = "idle"
    /\ used' = FALSE /\ broadcast' = FALSE /\ rxbuf' = <<>>
    /\ UNCHANGED <<arpVars, runVars, reading, cleared, skipped, txVars>>

setBroadcast ==
    /\ used /\ broadcast' = TRUE
    /\ UNCHANGED <<arpVars, runVars, used, rxbuf, reading, cleared, skipped, txVars>>

(* precv returns the size of the first datagram.  An empty one looks like a *)
(* time-out: its reader does not call pseek, and it stays where it is.     *)
precv ==
    /\ used /\ ~reading /\ rxbuf # <<>> /\ rxbuf[1].size > 0
    /\ rxbuf' = [rxbuf EXCEPT ![1].read = TRUE]
    /\ reading' = TRUE
    /\ UNCHANGED <<arpVars, runVars, used, broadcast, cleared, skipped, txVars>>

(* Mutant: pseek empties the buffer. *)
pseekAll ==
    /\ reading
    /\ reading' = FALSE /\ cleared' = FALSE
    /\ skipped' = (skipped \/ (~cleared /\ \E i \in DOMAIN rxbuf : ~rxbuf[i].read))
    /\ rxbuf' = <<>>
    /\ UNCHANGED <<arpVars, runVars, used, broadcast, txVars>>

pseek ==
    /\ reading
    /\ reading' = FALSE /\ cleared' = FALSE
    /\ IF rxbuf = <<>> THEN UNCHANGED <<rxbuf, skipped>>
       ELSE /\ rxbuf' = Tail(rxbuf)
            /\ skipped' = (skipped \/ (~cleared /\ ~rxbuf[1].read))
    /\ UNCHANGED <<arpVars, runVars, used, broadcast, txVars>>

-----------------------------------------------------------------------------
(* send *)

SendGoto(l) == spc' = l /\ UNCHANGED <<arpVars, runVars, rxVars>>

Send(d) ==
    /\ used /\ isRun /\ spc = "idle"
    /\ dest' = d
    /\ SendGoto("alloc") /\ UNCHANGED <<try, frame, refs, lost>>

(* One attempt of the loop.  What it gets depends on the other users of    *)
(* the memory too, unless send itself has forgotten all of it.  A block    *)
(* that is too small is kept and forgotten, or used all the same if it     *)
(* came with the last attempt.                                             *)
AllocSendBuf(b) ==
    /\ spc = "alloc"
    /\ IF b = "none" THEN UNCHANGED refs ELSE refs < Blocks /\ refs' = refs + 1
    /\ \/ /\ b # "enough" /\ try < MaxTry
          /\ try' = try + 1 /\ lost' = lost + (refs' - refs) /\ SendGoto("alloc")
       \/ /\ b = "enough" \/ (b = "small" /\ try = MaxTry)
          /\ try' = 1 /\ UNCHANGED lost /\ SendGoto("psend")
       \/ /\ b = "none" /\ try = MaxTry
          /\ try' = 1 /\ UNCHANGED lost /\ SendGoto("idle")
    /\ UNCHANGED <<dest, frame>>

(* Mutant: send keeps the memory when psend fails. *)
psendRefusedKeeps ==
    /\ spc = "psend" /\ dest = BROADCAST /\ ~broadcast
    /\ SendGoto("idle") /\ UNCHANGED <<dest, try, frame, refs, lost>>

(* psend refuses a broadcast on a socket without the flag, and send         *)
(* releases the memory.                                                    *)
psendRefused ==
    /\ spc = "psend" /\ dest = BROADCAST /\ ~broadcast
    /\ refs' = refs - 1
    /\ SendGoto("idle") /\ UNCHANGED <<dest, try, frame, lost>>

(* hasArpInfo is asked for the destination itself, a remote one included;  *)
(* if it is unknown an ARP request goes out and psend sleeps 30 ms.        *)
psend ==
    /\ spc = "psend" /\ (dest = BROADCAST => broadcast)
    /\ SendGoto(IF dest # BROADCAST /\ IPv4toEthAddr(dest) = NoMac THEN "sleep" ELSE "tx")
    /\ UNCHANGED <<dest, try, frame, refs, lost>>

Wake == spc = "sleep" /\ SendGoto("tx") /\ UNCHANGED <<dest, try, frame, refs, lost>>

NextHop(d) == IF d \in LocalIps THEN d ELSE Router

EthDest(d) == IF d = BROADCAST THEN BroadcastMac ELSE IPv4toEthAddr(NextHop(d))

(* sendIPv4Tx: without an address the datagram is dropped and an ARP        *)
(* request sent in its place.                                              *)
sendIPv4Tx ==
    /\ spc = "tx"
    /\ frame' = IF EthDest(dest) = NoMac THEN NoFrame
                                         ELSE [dest |-> dest, mac |-> EthDest(dest)]
    /\ SendGoto("release") /\ UNCHANGED <<dest, try, refs, lost>>

releaseTxBuf ==
    /\ spc = "release"
    /\ refs' = refs - 1 /\ frame' = NoFrame
    /\ SendGoto("idle") /\ UNCHANGED <<dest, try, lost>>

-----------------------------------------------------------------------------
UipNext ==
    \/ UipStart \/ UipDevice \/ UipStarted \/ UipStop \/ UipStopped \/ UipPeriodic
    \/ \E ip \in Ips \cup {ZERO}, mac \in Macs : UipArp(ip, mac)
    \/ \E bcast \in BOOLEAN, size \in Sizes : UipUdp(bcast, size)
    \/ \E ip \in LocalIps, mac \in Macs : UipDrop(ip, mac)

CtlNext ==
    \/ Order("start", "ORDER_START") \/ OrderDone("start", "ORDER_START")
    \/ Order("stop", "ORDER_STOP") \/ OrderDone("stop", "ORDER_STOP")

UserNext ==
    \/ Create \/ finalize \/ setBroadcast \/ precv \/ pseek
    \/ \E d \in SendTo : Send(d)
    \/ \E b \in {"none", "small", "enough"} : AllocSendBuf(b)
    \/ psendRefused \/ psend \/ Wake \/ sendIPv4Tx \/ releaseTxBuf

UdpNext == UipNext \/ CtlNext \/ UserNext

UdpSpec == UdpInit /\ [][UdpNext]_udpVars

-----------------------------------------------------------------------------

(* pseek removes the datagram that precv has handed out, also when others  *)
(* were stored meanwhile, unless a start has emptied the buffer between    *)
(* the two calls (startService does not take the socket's mutex).          *)
ReadBeforeSeek == ~skipped

(* After send has returned, with a datagram refused or dropped for want of *)
(* an address too, it holds no memory but the blocks that its loop found   *)
(* too small before the last attempt.  Those it never gives back.          *)
SendKeepsSmallOnly == spc = "idle" => refs = lost /\ frame = NoFrame

(* A frame goes to the address announced last for its next hop, although   *)
(* psend looks an address up, sleeps and looks it up again while the table *)
(* is updated, aged and emptied.                                           *)
RightNextHop == [][frame = NoFrame /\ frame' # NoFrame =>
    frame'.mac = IF frame'.dest = BROADCAST THEN BroadcastMac
                                            ELSE learned[NextHop(frame'.dest)]]_udpVars

(* start returns when the interface is running, stop when it is not.       *)
OrderObeyed == [][ctl # ctl' /\ ctl' = "idle" => isRun = (ctl = "start")]_udpVars

=============================================================================
