--------------------------- MODULE TcpLink_proofs ---------------------------
(* Proofs about TcpLink, for every size of the queue, the buffers and the  *)
(* windows, for every number of bytes the peer sends, for any number of    *)
(* segments under way, and wherever the uip task blocks in a handler.      *)
EXTENDS TcpLink, TcpSocket_proofs

-----------------------------------------------------------------------------
(* The inductive invariant *)

(* The socket is opened once, so that a reset finds it closed and nothing  *)
(* goes astray.                                                            *)
OpenedOnce ==
    /\ upc \in {"releaseRst", "rst"} => state = "CLOSED"
    /\ stray = FALSE /\ emptied = FALSE

(* What is known of the socket itself. *)
SocketInv == OwnInv /\ SeqInv /\ SendGapless /\ RstInv /\ RxInv /\ OpenedOnce

LinkType ==
    /\ toDev \subseteq AnySegment /\ toPeer \subseteq Segment
    /\ opened \in BOOLEAN
    /\ got \in Nat /\ cut \in Int /\ una \in Nat /\ nxt \in Nat /\ rcv \in Nat

(* Before the peer's SYN is taken nothing happens on the socket's side. *)
BeforeOpen ==
    ~opened =>
        /\ state = "CLOSED" /\ txq = <<>> /\ apc = "idle" /\ upc = "idle"
        /\ snd_nxt = 0 /\ rcv_nxt = 0 /\ got = 0 /\ cut = 0
        /\ toPeer = {} /\ rcv = ISS /\ una = 0

(* The socket does not connect. *)
Passive == state # "SYN_SENT" /\ aop # "connect"

(* What is under way to the socket: no reset, acknowledgements of what the *)
(* peer has, and the end of the stream where it is.                        *)
FromPeer(seg) ==
    /\ "RST" \notin seg.flags
    /\ "SYN" \in seg.flags => seg.seq = 0
    /\ seg.ack <= rcv
    /\ "FIN" \in seg.flags => seg.seq + seg.len = PeerBytes + 1

(* What the socket has built: a part of its send sequence, and an          *)
(* acknowledgement of what it has taken.                                   *)
FromSocket(seg) == SegmentEnd(seg) <= snd_nxt /\ seg.ack <= rcv_nxt

Underway ==
    /\ \A seg \in toDev : FromPeer(seg)
    /\ \A seg \in toPeer : "RST" \in seg.flags \/ FromSocket(seg)
    /\ \A b \in Bufs : FromSocket(mem[b])

(* Neither side is ahead of the other. *)
Behind == (opened => rcv <= snd_nxt) /\ una <= rcv_nxt

ReceivingStates == {"SYN_RCVD", "ESTABLISHED", "CLOSE_WAIT"}

(* The acknowledgement number counts the SYN, the bytes taken and the FIN. *)
Counted ==
    state \in ReceivingStates => rcv_nxt = 1 + got + One(state = "CLOSE_WAIT")

(* Nothing has been cut off before the FIN is taken. *)
EofInv == EofComplete /\ (state \in {"SYN_RCVD", "ESTABLISHED"} => cut = 0)

LinkInv ==
    /\ SocketInv /\ LinkType /\ BeforeOpen /\ Passive /\ Underway
    /\ Behind /\ Counted /\ EofInv /\ NothingLost

-----------------------------------------------------------------------------
(* The socket under the steps of the link *)

(* The link takes steps that TcpSocket allows in some environment.         *)
LEMMA LinkSteps == (LinkApp => AppStep) /\ (LinkTimer => UipStep)
  <1>1. MaxLen \in 1 .. MaxLen
    BY LinkAssumption, SocketAssumption
  <1>2. 1 .. WinMod - 1 \subseteq 0 .. WinMod - 1
    BY SocketAssumption
  <1> QED
    BY <1>1, <1>2 DEF LinkApp, AppStep, App, LinkTimer, UipStep, Uip

(* No call of an accepted connection opens the socket, and none takes      *)
(* anything that has arrived.                                              *)
LEMMA LinkAppConn ==
  ASSUME LinkApp
  PROVE  /\ state = "CLOSED" => state' = "CLOSED"
         /\ \/ state' \in {state, "CLOSED"}
            \/ state = "ESTABLISHED" /\ state' = "FIN_WAIT_1"
            \/ state = "CLOSE_WAIT" /\ state' = "LAST_ACK"
         /\ rcv_nxt' = rcv_nxt
         /\ aop' \in {aop, "none", "accept", "closeActive", "closePassive"}
  BY Zenon DEF LinkApp, Accept, Close, SwrAlloc, SwrQueue, Enqueue, SwrTx,
     WaitForTxRemove, CloseLoop, CloseLastAck, ForceClosed, AppSendRst, sendRst,
     Precv, Pseek, AllocSendBuf, AllocSendBufWindow, ReleaseSendBuf, Psend,
     PsendQueue, PsendTx, conn

(* Nor do the uip task's own steps.                                        *)
LEMMA LinkTimerConn ==
  ASSUME LinkTimer
  PROVE  /\ state' \in {state, "CLOSED"}
         /\ UNCHANGED <<rcv_nxt, running, aop, mem>>
  BY DEF LinkTimer, Release, UipSendRst, PeriodicClosed, PeriodicRetransmit,
     PeriodicGiveUp, conn, appVars, uipVars

(* Before the socket is opened neither task has anything to do.            *)
LEMMA NothingBeforeOpen ==
  ASSUME BeforeOpen, ~opened
  PROVE  ~LinkApp /\ ~LinkTimer
  BY DEF BeforeOpen, LinkApp, LinkTimer, AppAt, Accept, Close, SwrAlloc, SwrQueue,
     SwrTx, WaitForTxRemove, CloseLoop, CloseLastAck, ForceClosed, AppSendRst,
     sendRst, Precv, Pseek, AllocSendBuf, AllocSendBufWindow, ReleaseSendBuf,
     Psend, PsendQueue, PsendTx, Release, UipSendRst, PeriodicClosed,
     PeriodicRetransmit, PeriodicGiveUp, Retransmits

(* The socket is not opened while the uip task is inside a handler.        *)
OpensIdle == state = "CLOSED" /\ state' # "CLOSED" => upc = "idle"

(* The application leaves the uip task where it is, and spoils nothing.    *)
LEMMA AppLeavesUip ==
  ASSUME AppStep
  PROVE  /\ upc' = upc
         /\ stray' = FALSE \/ stray' = stray
         /\ emptied' = FALSE \/ emptied' = emptied
  BY Zenon DEF AppStep, App, ListenSyn, Connect, Open, Accept, Close, SwrAlloc, SwrQueue, SwrTx,
     WaitForTxRemove, CloseLoop, CloseLastAck, ForceClosed, AppSendRst, Precv, Pseek,
     AllocSendBuf, AllocSendBufWindow, ReleaseSendBuf, Psend, PsendQueue, PsendTx,
     Finalize, Initialize, uipVars, hist

(* A handler goes on to its reset only when it has closed the socket.      *)
LEMMA UipOpenedOnce ==
  ASSUME OpenedOnce, UipStep, running' = running, running \in BOOLEAN
  PROVE  OpenedOnce'
  <1>1. ~StopService /\ ~StartService
    BY DEF StopService, StartService
  <1>2. ASSUME NEW seg \in AnySegment, ParseRx(seg) PROVE OpenedOnce'
    <2>1. upc' \in {"releaseRst", "rst"} => FALSE
      BY <1>2 DEF ParseRx
    <2>2. UNCHANGED <<stray, emptied>>
      BY <1>2 DEF ParseRx, hist
    <2> QED
      BY <2>1, <2>2 DEF OpenedOnce
  <1>3. CASE Release
    BY <1>3 DEF Release, OpenedOnce, conn, hist
  <1>4. CASE UipSendRst
    <2>1. UNCHANGED <<stray, emptied, state>>
      BY <1>4 DEF UipSendRst, OpenedOnce
    <2>2. upc' \notin {"releaseRst", "rst"}
      BY <1>4 DEF UipSendRst, sendRst
    <2> QED
      BY <2>1, <2>2 DEF OpenedOnce
  <1>5. CASE PeriodicClosed \/ PeriodicRetransmit \/ PeriodicGiveUp
    BY <1>5 DEF PeriodicClosed, PeriodicRetransmit, PeriodicGiveUp, Retransmits,
       UipReset, OpenedOnce, conn, uipVars, hist
  <1> QED
    BY InSegmentAny, <1>1, <1>2, <1>3, <1>4, <1>5 DEF UipStep, Uip

LEMMA SocketApp ==
  ASSUME SocketInv, AppStep, OpensIdle
  PROVE  SocketInv'
  <1>1. OwnInv'
    BY AppType, OwnershipApp, UnusedStep DEF SocketInv, OwnInv
  <1>2. SeqInv' /\ SendGapless' /\ RstInv'
    BY SequenceApp, GaplessApp, RstApp DEF SocketInv
  <1>3. RxInv'
    BY ReceiveApp DEF SocketInv, OwnInv, TypeInv
  <1>4. OpenedOnce'
    BY AppLeavesUip DEF SocketInv, OpenedOnce, OpensIdle
  <1> QED
    BY <1>1, <1>2, <1>3, <1>4 DEF SocketInv

LEMMA SocketUip ==
  ASSUME SocketInv, UipStep, running' = running
  PROVE  SocketInv'
  <1>1. OwnInv'
    BY UipType, OwnershipUip, UnusedStep DEF SocketInv, OwnInv
  <1>2. SeqInv' /\ SendGapless' /\ RstInv'
    BY SequenceUip, GaplessUip, RstUip DEF SocketInv
  <1>3. RxInv'
    BY ReceiveUip DEF SocketInv, OwnInv, TypeInv
  <1>4. OpenedOnce'
    BY UipOpenedOnce DEF SocketInv, OwnInv, TypeInv, TypeOK
  <1> QED
    BY <1>1, <1>2, <1>3, <1>4 DEF SocketInv

(* A step that the socket takes no part in, but for what is on the wire.   *)
LEMMA SocketQuiet ==
  ASSUME SocketInv, UNCHANGED <<conn, txq, mem, free, appVars, uipVars, hist>>,
         out' \subseteq Segment
  PROVE  SocketInv'
  <1>1. UNCHANGED <<state, snd_nxt, rcv_nxt, peer_win, rxlen, txq, mem, free, apc, aop,
                    abuf, alen, asq, upc, udl, running, used, stray, emptied>>
    BY DEF conn, appVars, uipVars, hist
  <1>2. TypeInv'
    BY <1>1 DEF SocketInv, OwnInv, TypeInv, TypeOK, HoldsBuffer
  <1>3. Queued' = Queued /\ AppOwned' = AppOwned
    BY <1>1, SameQueue DEF AppOwned
  <1>4. OwnInv'
    BY <1>1, <1>2, <1>3 DEF SocketInv, OwnInv, BufferOwnership, UdlInv, UnusedInv
  <1>5. SeqInv'
    <2>1. TypeOK /\ snd_nxt \in Nat
      BY DEF SocketInv, OwnInv, TypeInv, TypeOK
    <2> QED
      BY <1>1, <2>1, SameKeeps, KeepsSequence DEF SocketInv
  <1>6. SendGapless' /\ RstInv' /\ RxInv' /\ OpenedOnce'
    BY <1>1 DEF SocketInv, SendGapless, RstInv, RxInv, ReceiveBound, OpenedOnce
  <1> QED
    BY <1>4, <1>5, <1>6 DEF SocketInv

-----------------------------------------------------------------------------
(* What the socket builds and sends *)

(* A segment's numbers.                                                    *)
LEMMA SegmentNumbers ==
  ASSUME NEW seg \in Segment
  PROVE  /\ seg.seq \in Nat /\ seg.ack \in Nat /\ seg.len \in Nat
         /\ SegmentEnd(seg) \in Nat /\ seg.seq + seg.len <= SegmentEnd(seg)
         /\ SegmentEnd(seg) = seg.seq + seg.len + One(hasFlag(seg, "SYN")
                                                      \/ hasFlag(seg, "FIN"))
  <1>1. seg.seq \in Nat /\ seg.ack \in Nat /\ seg.len \in Nat
    BY DEF Segment
  <1> QED
    BY <1>1 DEF SegmentEnd, One

(* The types that the proofs below need.                                   *)
LEMMA SocketTypes ==
  ASSUME SocketInv
  PROVE  /\ TypeInv /\ TypeOK /\ BufferOwnership /\ txq \in Seq(Item)
         /\ snd_nxt \in Nat /\ rcv_nxt \in Nat /\ rxlen \in Nat
         /\ mem \in [Bufs -> Segment]
  BY SocketAssumption DEF SocketInv, OwnInv, TypeInv, TypeOK

(* What is a part of the send sequence stays one while it grows.           *)
LEMMA FromSocketGrows ==
  ASSUME NEW seg \in Segment, FromSocket(seg), snd_nxt \in Nat, rcv_nxt \in Nat,
         snd_nxt' \in Nat, rcv_nxt' \in Nat,
         snd_nxt <= snd_nxt', rcv_nxt <= rcv_nxt'
  PROVE  SegmentEnd(seg) <= snd_nxt' /\ seg.ack <= rcv_nxt'
  BY SegmentNumbers DEF FromSocket

(* A packet that is queued is a part of the sequence up to the new snd_nxt. *)
LEMMA EnqueueBuilds ==
  ASSUME TypeOK, abuf \in Bufs, \A b \in Bufs : FromSocket(mem[b]),
         NEW f \in SUBSET Flag, NEW len \in Nat, NEW a \in Nat, NEW pc,
         Enqueue(f, len, a, pc),
         a = snd_nxt + len + One("SYN" \in f \/ "FIN" \in f), snd_nxt < a,
         rcv_nxt' = rcv_nxt
  PROVE  /\ snd_nxt' \in Nat /\ snd_nxt <= snd_nxt'
         /\ \A b \in Bufs : FromSocket(mem[b])'
         /\ mem'[abuf].seq = snd_nxt
  <1> DEFINE s == setTxPacket(f, snd_nxt, rcv_nxt, len, rxlen)
  <1>1. /\ snd_nxt \in Nat /\ rcv_nxt \in Nat
        /\ mem \in [Bufs -> Segment] /\ snd_nxt' = a
        /\ mem' = [mem EXCEPT ![abuf] = s]
    BY DEF TypeOK, Enqueue
  <1>2. SegmentEnd(s) = a /\ s.ack = rcv_nxt /\ s.seq = snd_nxt
    BY DEF setTxPacket, SegmentEnd, hasFlag
  <1> HIDE DEF s
  <1>3. mem'[abuf] = s /\ \A b \in Bufs \ {abuf} : mem'[b] = mem[b]
    BY <1>1
  <1>4. \A b \in Bufs \ {abuf} : SegmentEnd(mem[b]) <= snd_nxt' /\ mem[b].ack <= rcv_nxt'
    BY <1>1, FromSocketGrows
  <1>5. ASSUME NEW b \in Bufs PROVE FromSocket(mem[b])'
    BY <1>1, <1>2, <1>3, <1>4 DEF FromSocket
  <1> QED
    BY <1>1, <1>2, <1>3, <1>5

(* The application's steps keep every buffer a part of the send sequence,  *)
(* and send such parts, or a reset.                                        *)
LEMMA AppBuilds ==
  ASSUME SocketInv, \A b \in Bufs : FromSocket(mem[b]), LinkApp
  PROVE  /\ snd_nxt' \in Nat /\ snd_nxt <= snd_nxt'
         /\ \A b \in Bufs : FromSocket(mem[b])'
         /\ \A seg \in out' : "RST" \in seg.flags \/ FromSocket(seg)'
  <1> DEFINE Goal == /\ snd_nxt' \in Nat /\ snd_nxt <= snd_nxt'
                     /\ \A b \in Bufs : FromSocket(mem[b])'
                     /\ \A seg \in out' : "RST" \in seg.flags \/ FromSocket(seg)'
  <1>1. /\ TypeInv /\ TypeOK /\ snd_nxt \in Nat /\ rcv_nxt \in Nat /\ rxlen \in Nat
        /\ mem \in [Bufs -> Segment]
    BY SocketTypes
  <1>2. rcv_nxt' = rcv_nxt
    BY LinkAppConn
  (* Nothing is built. *)
  <1>a. ASSUME UNCHANGED <<mem, snd_nxt>>,
               \A seg \in out' : (\E b \in Bufs : seg = mem[b]) \/ "RST" \in seg.flags
        PROVE  Goal
    BY <1>1, <1>2, <1>a DEF FromSocket
  <1>3. CASE SwrQueue
    <2>1. CASE Enqueue(ControlFlags, 0, snd_nxt + 1, "swrTx")
      <3>1. /\ ControlFlags \in SUBSET Flag
            /\ "SYN" \in ControlFlags \/ "FIN" \in ControlFlags
        BY DEF ControlFlags, Flag
      <3>2. abuf \in Bufs /\ out' = {}
        BY <1>1, <1>3 DEF SwrQueue, AppAt, TypeInv, HoldsBuffer
      <3>3. snd_nxt + 1 \in Nat /\ snd_nxt < snd_nxt + 1
            /\ snd_nxt + 1 = snd_nxt + 0 + One("SYN" \in ControlFlags \/ "FIN" \in ControlFlags)
        BY <1>1, <3>1 DEF One
      <3> HIDE DEF ControlFlags
      <3> QED
        BY <1>1, <1>2, <2>1, <3>1, <3>2, <3>3, EnqueueBuilds
    <2>2. CASE UNCHANGED <<txq, mem, snd_nxt>>
      BY <1>3, <1>a, <2>2 DEF SwrQueue
    <2> QED
      BY <1>3, <2>1, <2>2 DEF SwrQueue
  <1>4. ASSUME NEW len \in 1 .. MaxLen, PsendQueue(len) PROVE Goal
    <2>1. CASE Enqueue({"ACK", "PSH"}, len, snd_nxt + len, "psendTx")
      <3> DEFINE f == {"ACK", "PSH"}
      <3>1. f \in SUBSET Flag /\ ~("SYN" \in f \/ "FIN" \in f)
        BY DEF Flag
      <3>2. abuf \in Bufs /\ out' = {}
        BY <1>1, <1>4 DEF PsendQueue, AppAt, TypeInv, HoldsBuffer
      <3>3. len \in Nat /\ snd_nxt + len \in Nat /\ snd_nxt < snd_nxt + len
        BY <1>1, SocketAssumption
      <3>4. snd_nxt + len = snd_nxt + len + One("SYN" \in f \/ "FIN" \in f)
        BY <1>1, <3>1, <3>3 DEF One
      <3>5. Enqueue(f, len, snd_nxt + len, "psendTx")
        BY <2>1
      <3> HIDE DEF f
      <3> QED
        BY <1>1, <1>2, <3>1, <3>2, <3>3, <3>4, <3>5, EnqueueBuilds
    <2>2. CASE UNCHANGED <<txq, mem, snd_nxt>>
      BY <1>4, <1>a, <2>2 DEF PsendQueue
    <2> QED
      BY <1>4, <2>1, <2>2 DEF PsendQueue
  <1>5. CASE AppSendRst
    <2>1. setTxPacket({"RST", "ACK"}, snd_nxt, rcv_nxt, 0, rxlen).flags = {"RST", "ACK"}
      BY DEF setTxPacket
    <2>2. CASE snd_nxt' = snd_nxt + 1 /\ out' = {}
      <3>1. snd_nxt' \in Nat /\ snd_nxt <= snd_nxt' /\ rcv_nxt <= rcv_nxt'
            /\ rcv_nxt' \in Nat /\ mem' = mem
        BY <1>1, <1>2, <1>5, <2>2 DEF AppSendRst
      <3>2. \A b \in Bufs : SegmentEnd(mem[b]) <= snd_nxt' /\ mem[b].ack <= rcv_nxt'
        BY <1>1, <3>1, FromSocketGrows
      <3> QED
        BY <2>2, <3>1, <3>2 DEF FromSocket
    <2>3. CASE /\ UNCHANGED snd_nxt
               /\ out' = {setTxPacket({"RST", "ACK"}, snd_nxt, rcv_nxt, 0, rxlen)}
      BY <1>5, <1>a, <2>1, <2>3 DEF AppSendRst
    <2> QED
      BY <1>5, <2>2, <2>3 DEF AppSendRst, sendRst
  <1>6. ASSUME NEW n \in 1 .. WinMod - 1, Pseek(n) PROVE Goal
    <2>1. /\ UNCHANGED <<mem, snd_nxt>>
          /\ out' \subseteq {setTxPacket({"ACK"}, snd_nxt, rcv_nxt, 0, rxlen')}
      BY <1>6 DEF Pseek
    <2> DEFINE p == setTxPacket({"ACK"}, snd_nxt, rcv_nxt, 0, rxlen')
    <2>2. SegmentEnd(p) = snd_nxt /\ p.ack = rcv_nxt
      BY <1>1 DEF setTxPacket, SegmentEnd, hasFlag, One
    <2> HIDE DEF p
    <2>3. \A seg \in out' : FromSocket(seg)'
      BY <1>1, <1>2, <2>1, <2>2 DEF FromSocket, p
    <2> QED
      BY <1>1, <1>2, <2>1, <2>3 DEF FromSocket
  <1>7. CASE SwrTx \/ PsendTx
    <2>1. abuf \in Bufs /\ out' = {mem[abuf]} /\ UNCHANGED <<mem, snd_nxt>>
      BY <1>1, <1>7 DEF SwrTx, PsendTx, AppAt, TypeInv, HoldsBuffer, conn
    <2> QED
      BY <1>a, <2>1
  <1>8. CASE \/ Accept \/ Close \/ SwrAlloc \/ WaitForTxRemove \/ CloseLoop
             \/ CloseLastAck \/ ForceClosed \/ Precv \/ AllocSendBuf
             \/ ReleaseSendBuf \/ AllocSendBufWindow(MaxLen) \/ Psend
    <2>1. out' = {} /\ UNCHANGED <<mem, snd_nxt>>
      BY <1>8 DEF Accept, Close, SwrAlloc, WaitForTxRemove, CloseLoop,
         CloseLastAck, ForceClosed, Precv, AllocSendBuf,
         ReleaseSendBuf, AllocSendBufWindow, Psend, conn
    <2> QED
      BY <1>a, <2>1
  <1> QED
    BY <1>3, <1>4, <1>5, <1>6, <1>7, <1>8 DEF LinkApp

(* So do the uip task's own steps: a retransmission sends what is queued.  *)
LEMMA TimerBuilds ==
  ASSUME SocketInv, \A b \in Bufs : FromSocket(mem[b]), LinkTimer
  PROVE  /\ snd_nxt' \in Nat /\ snd_nxt <= snd_nxt'
         /\ \A b \in Bufs : FromSocket(mem[b])'
         /\ \A seg \in out' : "RST" \in seg.flags \/ FromSocket(seg)'
  <1>1. /\ TypeOK /\ snd_nxt \in Nat /\ rcv_nxt \in Nat /\ txq \in Seq(Item)
        /\ mem \in [Bufs -> Segment]
    BY SocketTypes
  <1>2. rcv_nxt' = rcv_nxt /\ mem' = mem
    BY LinkTimerConn
  <1>3. snd_nxt' = snd_nxt \/ snd_nxt' = snd_nxt + 1
    BY DEF LinkTimer, Release, UipSendRst, sendRst, PeriodicClosed,
       PeriodicRetransmit, PeriodicGiveUp, conn
  <1>4. snd_nxt' \in Nat /\ snd_nxt <= snd_nxt' /\ rcv_nxt <= rcv_nxt' /\ rcv_nxt' \in Nat
    BY <1>1, <1>2, <1>3
  <1>5. \A b \in Bufs : FromSocket(mem[b])'
    <2>1. \A b \in Bufs : SegmentEnd(mem[b]) <= snd_nxt' /\ mem[b].ack <= rcv_nxt'
      BY <1>1, <1>4, FromSocketGrows
    <2> QED
      BY <1>2, <2>1 DEF FromSocket
  <1>6. \A seg \in out' : "RST" \in seg.flags \/ \E b \in Bufs : seg = mem'[b]
    <2>1. CASE PeriodicRetransmit
      <3>1. Packets(Len(txq)) \subseteq Bufs
        BY <1>1, PacketsType, LenProperties
      <3> QED
        BY <1>2, <2>1, <3>1 DEF PeriodicRetransmit
    <2>2. CASE UipSendRst
      <3>1. setTxPacket({"RST", "ACK"}, snd_nxt, rcv_nxt, 0, rxlen).flags = {"RST", "ACK"}
        BY DEF setTxPacket
      <3> QED
        BY <2>2, <3>1 DEF UipSendRst, sendRst
    <2>3. CASE Release \/ PeriodicClosed \/ PeriodicGiveUp
      BY <2>3 DEF Release, PeriodicClosed, PeriodicGiveUp, UipReset
    <2> QED
      BY <2>1, <2>2, <2>3 DEF LinkTimer
  <1> QED
    BY <1>4, <1>5, <1>6 DEF FromSocket

-----------------------------------------------------------------------------
(* Nothing is dropped before the peer has it *)

(* Where the socket could send again from, on a connection.                *)
LEMMA KeptOpen ==
  ASSUME opened
  PROVE  SendKept = IF txq = <<>> THEN snd_nxt ELSE mem[txq[1].packet].seq
  BY DEF SendKept

LEMMA KeptOpenNext ==
  ASSUME opened'
  PROVE  SendKept' = IF txq' = <<>> THEN snd_nxt' ELSE mem'[txq'[1].packet].seq
  BY DEF SendKept

LEMMA KeptType ==
  ASSUME TypeOK, SeqInv, opened
  PROVE  SendKept \in Nat /\ SendKept <= snd_nxt
  <1>1. snd_nxt \in Nat /\ txq \in Seq(Item) /\ Len(txq) \in Nat
    BY LenProperties DEF TypeOK
  <1>2. CASE txq = <<>>
    BY <1>1, <1>2, KeptOpen
  <1>3. CASE txq # <<>>
    <2>1. 1 \in 1 .. Len(txq)
      BY <1>1, <1>3, EmptySeq
    <2>2. mem[txq[1].packet].seq \in Nat /\ txq[1].ack \in Nat
      BY <2>1, QueueTypes
    <2>3. mem[txq[1].packet].seq < txq[1].ack /\ txq[1].ack <= snd_nxt
      BY <2>1 DEF SeqInv, SendSequence, Below
    <2> QED
      BY <1>1, <1>3, <2>2, <2>3, KeptOpen
  <1> QED
    BY <1>2, <1>3

LEMMA KeptTypeNext ==
  ASSUME TypeOK', opened'
  PROVE  SendKept' \in Nat
  <1>1. snd_nxt' \in Nat /\ txq' \in Seq(Item) /\ mem' \in [Bufs -> Segment]
    BY DEF TypeOK
  <1>2. CASE txq' = <<>>
    BY <1>1, <1>2, KeptOpenNext
  <1>3. CASE txq' # <<>>
    <2>1. 1 \in 1 .. Len(txq')
      BY <1>1, <1>3, EmptySeq, LenProperties
    <2>2. txq'[1] \in Item
      BY <1>1, <2>1, ElementOfSeq
    <2>3. mem'[txq'[1].packet] \in Segment
      BY <1>1, <2>2 DEF Item
    <2> QED
      BY <1>3, <2>3, KeptOpenNext DEF Segment
  <1> QED
    BY <1>2, <1>3

(* With a peer that is not ahead, nothing is lost when the socket could    *)
(* send again from what the peer expects, or from before.                  *)
LEMMA KeptNothingLost ==
  ASSUME NothingLost, opened, UNCHANGED <<opened, rcv>>, rcv \in Nat,
         rcv <= snd_nxt, snd_nxt \in Nat, snd_nxt' \in Nat, snd_nxt <= snd_nxt',
         state = "CLOSED" => state' = "CLOSED",
         state' # "CLOSED" => SendKept' = SendKept
  PROVE  NothingLost'
  <1> SUFFICES ASSUME state' # "CLOSED"
               PROVE  IF txq' = <<>> THEN rcv = snd_nxt'
                      ELSE mem'[txq'[1].packet].seq <= rcv
    BY DEF NothingLost
  <1>1. SendKept <= rcv
    BY KeptOpen DEF NothingLost
  <1>2. SendKept' <= rcv
    BY <1>1
  <1>3. CASE txq' = <<>>
    <2>1. snd_nxt' <= rcv
      BY <1>2, <1>3, KeptOpenNext
    <2> QED
      BY <1>3, <2>1
  <1>4. CASE txq' # <<>>
    BY <1>2, <1>4, KeptOpenNext
  <1> QED
    BY <1>3, <1>4

(* The queue is in the order of the send sequence: what an acknowledgement *)
(* leaves in it begins later.                                              *)
LEMMA KeepsKept ==
  ASSUME TypeOK, txq' \in Seq(Item), SeqInv, opened, UNCHANGED <<opened, snd_nxt>>,
         NEW k, Keeps(k)
  PROVE  SendKept <= SendKept' /\ (k = 0 => SendKept' = SendKept)
  <1>1. /\ Len(txq) \in Nat /\ k \in 0 .. Len(txq) /\ Len(txq') = Len(txq) - k
        /\ txq \in Seq(Item) /\ snd_nxt \in Nat
    BY QueueTypes DEF Keeps, TypeOK
  <1>2. (txq' = <<>> <=> k = Len(txq)) /\ (txq = <<>> <=> Len(txq) = 0)
    BY <1>1, EmptySeq
  <1>3. SendKept \in Nat /\ SendKept <= snd_nxt
    BY KeptType
  <1>4. CASE txq' = <<>>
    BY <1>1, <1>2, <1>3, <1>4, KeptOpen, KeptOpenNext
  <1>5. CASE txq' # <<>>
    <2>1. 1 \in 1 .. Len(txq') /\ 1 + k \in 1 .. Len(txq) /\ 1 \in 1 .. Len(txq)
          /\ txq # <<>> /\ k \in Nat
      BY <1>1, <1>2, <1>5
    <2>2. SendKept' = mem[txq[1 + k].packet].seq /\ SendKept = mem[txq[1].packet].seq
      BY <1>5, <2>1, KeptOpen, KeptOpenNext DEF Keeps
    <2>3. CASE k = 0
      <3>1. 1 + k = 1
        BY <2>3
      <3> QED
        BY <1>3, <2>2, <2>3, <3>1
    <2>4. CASE k # 0
      <3>1. 1 < 1 + k
        BY <2>1, <2>4
      <3>2. txq[1].ack <= mem[txq[1 + k].packet].seq
        BY <2>1, <3>1 DEF SeqInv, Ordered
      <3>3. mem[txq[1].packet].seq < txq[1].ack
        BY <2>1 DEF SeqInv, SendSequence
      <3>4. txq[1].ack \in Nat /\ mem[txq[1 + k].packet].seq \in Nat
        BY <2>1, QueueTypes
      <3> QED
        BY <1>3, <2>2, <2>4, <3>2, <3>3, <3>4
    <2> QED
      BY <2>3, <2>4
  <1> QED
    BY <1>4, <1>5

(* The packets that an acknowledgement takes off the queue are packets the *)
(* peer has, so that what it expects next still begins in the queue.       *)
LEMMA KeepsNothingLost ==
  ASSUME TypeOK, txq' \in Seq(Item), NothingLost, SendGapless, ~stray,
         opened, opened' = opened, rcv' = rcv, snd_nxt' = snd_nxt,
         rcv \in Nat, rcv <= snd_nxt, state = "CLOSED" => state' = "CLOSED",
         NEW k, Keeps(k), k # 0 => txq[k].ack <= rcv
  PROVE  NothingLost'
  <1> SUFFICES ASSUME state' # "CLOSED"
               PROVE  IF txq' = <<>> THEN rcv = snd_nxt
                      ELSE mem'[txq'[1].packet].seq <= rcv
    BY DEF NothingLost
  <1>1. /\ Len(txq) \in Nat /\ k \in 0 .. Len(txq) /\ Len(txq') = Len(txq) - k
        /\ txq \in Seq(Item) /\ snd_nxt \in Nat
    BY QueueTypes DEF Keeps, TypeOK
  <1>2. state # "CLOSED" /\ (txq' = <<>> <=> k = Len(txq))
        /\ (txq = <<>> <=> Len(txq) = 0)
    BY <1>1, EmptySeq
  <1>3. CASE txq' = <<>>
    <2>1. CASE k = 0
      BY <1>2, <1>3, <2>1 DEF NothingLost
    <2>2. CASE k # 0
      <3>1. txq[k].ack = snd_nxt
        BY <1>1, <1>2, <1>3, <2>2 DEF SendGapless
      <3> QED
        BY <1>1, <1>3, <2>2, <3>1
    <2> QED
      BY <2>1, <2>2
  <1>4. CASE txq' # <<>>
    <2>1. 1 \in 1 .. Len(txq') /\ k + 1 \in 1 .. Len(txq) /\ txq # <<>>
      BY <1>1, <1>2, <1>4
    <2>2. mem'[txq'[1].packet].seq = mem[txq[1 + k].packet].seq
      BY <2>1 DEF Keeps
    <2>3. CASE k = 0
      BY <1>2, <1>4, <2>1, <2>2, <2>3 DEF NothingLost
    <2>4. CASE k # 0
      <3>1. 1 + k \in 2 .. Len(txq) /\ (1 + k) - 1 = k
        BY <1>1, <2>1, <2>4
      <3>2. mem[txq[1 + k].packet].seq = txq[(1 + k) - 1].ack
        BY <1>2, <2>1, <3>1 DEF SendGapless
      <3> QED
        BY <1>4, <2>2, <2>4, <3>1, <3>2
    <2> QED
      BY <2>3, <2>4
  <1> QED
    BY <1>3, <1>4

(* A step that leaves the queue alone.                                     *)
LEMMA SameKept ==
  ASSUME UNCHANGED <<txq, mem, snd_nxt, opened>>
  PROVE  SendKept' = SendKept
  BY DEF SendKept

(* A packet that is queued: in an empty queue it begins at snd_nxt.        *)
LEMMA EnqueueKept ==
  ASSUME SocketInv, opened, UNCHANGED opened, apc \in {"swrQ", "psendQ"},
         NEW f \in SUBSET Flag, NEW len \in Nat, NEW a \in Nat, NEW pc,
         Enqueue(f, len, a, pc)
  PROVE  SendKept' = SendKept
  <1>1. /\ TypeInv /\ TypeOK /\ txq \in Seq(Item) /\ BufferOwnership
        /\ snd_nxt \in Nat /\ mem \in [Bufs -> Segment]
    BY SocketTypes
  <1>2. abuf \in Bufs /\ abuf \notin Queued
    BY <1>1 DEF TypeInv, HoldsBuffer, BufferOwnership, AppOwned
  <1>3. /\ Len(txq') = Len(txq) + 1 /\ txq' \in Seq(Item)
        /\ \A i \in 1 .. Len(txq) : txq'[i] = txq[i]
        /\ txq'[Len(txq')].packet = abuf
    BY <1>1, <1>2, EnqueueType
  <1>4. Len(txq) \in Nat /\ txq' # <<>> /\ (txq = <<>> => Len(txq) = 0)
    BY <1>1, <1>3, EmptySeq, LenProperties
  <1>5. mem'[abuf].seq = snd_nxt /\ \A b \in Bufs \ {abuf} : mem'[b] = mem[b]
    BY <1>1, <1>2 DEF Enqueue, setTxPacket
  <1>6. SendKept' = mem'[txq'[1].packet].seq
    BY <1>4, KeptOpenNext
  <1>7. CASE txq = <<>>
    BY <1>3, <1>4, <1>5, <1>6, <1>7, KeptOpen
  <1>8. CASE txq # <<>>
    <2>1. 1 \in 1 .. Len(txq)
      BY <1>1, <1>4, <1>8, EmptySeq
    <2>2. txq[1].packet \in Bufs \ {abuf} /\ txq'[1] = txq[1]
      BY <1>1, <1>2, <1>3, <2>1, QueueTypes DEF Queued, Packets
    <2> QED
      BY <1>5, <1>6, <1>8, <2>2, KeptOpen
  <1> QED
    BY <1>7, <1>8

(* The application's steps add to the end of the queue, if anything.       *)
LEMMA AppKept ==
  ASSUME SocketInv, LinkApp, opened, state' # "CLOSED"
  PROVE  SendKept' = SendKept
  <1>1. snd_nxt \in Nat /\ UNCHANGED opened /\ state # "CLOSED"
    BY SocketTypes, LinkAppConn DEF LinkApp
  <1>2. CASE SwrQueue
    <2>1. CASE Enqueue(ControlFlags, 0, snd_nxt + 1, "swrTx")
      <3>1. ControlFlags \in SUBSET Flag
        BY DEF ControlFlags, Flag
      <3>2. apc \in {"swrQ", "psendQ"} /\ snd_nxt + 1 \in Nat /\ 0 \in Nat
        BY <1>1, <1>2 DEF SwrQueue, AppAt
      <3> HIDE DEF ControlFlags
      <3> QED
        BY <1>1, <2>1, <3>1, <3>2, EnqueueKept
    <2>2. CASE UNCHANGED <<txq, mem, snd_nxt>>
      BY <1>1, <2>2, SameKept
    <2> QED
      BY <1>2, <2>1, <2>2 DEF SwrQueue
  <1>3. ASSUME NEW len \in 1 .. MaxLen, PsendQueue(len) PROVE SendKept' = SendKept
    <2>1. CASE Enqueue({"ACK", "PSH"}, len, snd_nxt + len, "psendTx")
      <3>1. {"ACK", "PSH"} \in SUBSET Flag
        BY DEF Flag
      <3>2. apc \in {"swrQ", "psendQ"} /\ len \in Nat /\ snd_nxt + len \in Nat
        BY <1>1, <1>3, SocketAssumption DEF PsendQueue, AppAt
      <3> QED
        BY <1>1, <2>1, <3>1, <3>2, EnqueueKept
    <2>2. CASE UNCHANGED <<txq, mem, snd_nxt>>
      BY <1>1, <2>2, SameKept
    <2> QED
      BY <1>3, <2>1, <2>2 DEF PsendQueue
  <1>4. CASE AppSendRst
    <2>1. apc # "rst"
      BY <1>1 DEF SocketInv, RstInv
    <2> QED
      BY <1>1, <1>4, <2>1, SameKept DEF AppSendRst, sendRst
  <1>5. CASE \/ Accept \/ Close \/ SwrAlloc \/ SwrTx \/ WaitForTxRemove
             \/ CloseLoop \/ CloseLastAck \/ ForceClosed \/ Precv
             \/ \E n \in 1 .. WinMod - 1 : Pseek(n)
             \/ AllocSendBuf \/ ReleaseSendBuf \/ AllocSendBufWindow(MaxLen)
             \/ Psend \/ PsendTx
    <2>1. UNCHANGED <<txq, mem, snd_nxt>>
      BY <1>5 DEF Accept, Close, SwrAlloc, SwrTx, WaitForTxRemove, CloseLoop,
         CloseLastAck, ForceClosed, Precv, Pseek, AllocSendBuf,
         ReleaseSendBuf, AllocSendBufWindow, Psend, PsendTx, conn
    <2> QED
      BY <1>1, <2>1, SameKept
  <1> QED
    BY <1>2, <1>3, <1>4, <1>5 DEF LinkApp

(* The uip task's own steps leave the queue as it is, or close.            *)
LEMMA TimerKept ==
  ASSUME SocketInv, LinkTimer, opened, state' # "CLOSED"
  PROVE  SendKept' = SendKept /\ snd_nxt' = snd_nxt
  <1>1. TypeOK /\ UNCHANGED <<opened, mem>> /\ state # "CLOSED"
    BY SocketTypes, LinkTimerConn DEF LinkTimer
  <1>2. CASE PeriodicRetransmit
    <2>1. snd_nxt' = snd_nxt /\ txq' \in Seq(Item) /\ Keeps(0)
      BY <1>1, <1>2, RetransmitQueue, RetransmitKeeps DEF PeriodicRetransmit, conn
    <2> QED
      BY <1>1, <2>1, KeepsKept DEF SocketInv
  <1>3. CASE UipSendRst
    <2>1. upc # "rst"
      BY <1>1 DEF SocketInv, OpenedOnce
    <2> QED
      BY <1>1, <1>3, <2>1, SameKept DEF UipSendRst, sendRst
  <1>4. CASE Release
    BY <1>1, <1>4, SameKept DEF Release, conn
  <1>5. CASE PeriodicClosed \/ PeriodicGiveUp
    BY <1>1, <1>5 DEF PeriodicClosed, PeriodicGiveUp
  <1> QED
    BY <1>2, <1>3, <1>4, <1>5 DEF LinkTimer

-----------------------------------------------------------------------------
(* A segment arrives *)

(* What ESTABLISHED does with a segment: what is added to the receive      *)
(* buffer, and the FIN, is what is acknowledged.                           *)
LEMMA EstablishedTakes ==
  ASSUME SocketInv, NEW seg \in AnySegment, RxEstablished(seg)
  PROVE  /\ rxlen <= rxlen' /\ rxlen' \in Nat
         /\ \/ /\ state' = "ESTABLISHED"
               /\ rcv_nxt' = rcv_nxt + (rxlen' - rxlen)
            \/ /\ state' = "CLOSE_WAIT"
               /\ rcv_nxt' = rcv_nxt + (rxlen' - rxlen) + 1
               /\ "FIN" \in seg.flags /\ seg.seq = rcv_nxt
               /\ seg.len = 0 => rxlen' = rxlen
  <1> DEFINE fits == isNewPacket(seg) /\ seg.len > 0 /\ getSpace(rxlen) >= seg.len
             fin  == isNewPacket(seg) /\ hasFlag(seg, "FIN")
             took == IF fits THEN seg.len ELSE 0
  <1>1. /\ rxlen' = u16(rxlen + took)
        /\ rcv_nxt' = rcv_nxt + took + One(fin)
        /\ state' = IF fin THEN "CLOSE_WAIT" ELSE "ESTABLISHED"
    BY DEF RxEstablished
  <1>2. seg.len \in Nat /\ rxlen \in Nat /\ rxlen <= RxSize /\ RxSize \in Nat
        /\ RxSize < WinMod /\ WinMod \in Nat /\ rcv_nxt \in Nat
    <2>1. rxlen <= RxSize
      BY DEF SocketInv, RxInv, ReceiveBound, OpenedOnce
    <2>2. RxSize \in Nat /\ RxSize < WinMod /\ WinMod \in Nat
      BY SocketAssumption
    <2> QED
      BY <2>1, <2>2, SocketTypes, AnySegmentFields
  <1>3. getSpace(rxlen) = RxSize - rxlen
    BY <1>2 DEF getSpace, u16
  <1>4. took \in Nat /\ took <= RxSize - rxlen /\ (seg.len = 0 => took = 0)
    BY <1>2, <1>3
  <1> HIDE DEF took
  <1>5. rxlen' = rxlen + took
    BY <1>1, <1>2, <1>4 DEF u16
  <1>6. CASE fin
    <2>1. One(fin) = 1 /\ "FIN" \in seg.flags /\ seg.seq = rcv_nxt
          /\ state' = "CLOSE_WAIT"
      BY <1>1, <1>6 DEF One, isNewPacket, hasFlag
    <2> HIDE DEF fin
    <2> QED
      BY <1>1, <1>2, <1>4, <1>5, <2>1
  <1>7. CASE ~fin
    <2>1. One(fin) = 0 /\ state' = "ESTABLISHED"
      BY <1>1, <1>7 DEF One
    <2> HIDE DEF fin
    <2> QED
      BY <1>1, <1>2, <1>4, <1>5, <2>1
  <1> QED
    BY <1>6, <1>7

(* In the states after close nothing is added to the receive buffer; in    *)
(* all of them the acknowledgement number never goes back.                 *)
LEMMA ByStateTakes ==
  ASSUME SocketInv, Passive, NEW seg \in AnySegment, RxByState(seg)
  PROVE  \/ state \in {"SYN_RCVD", "ESTABLISHED"} /\ RxEstablished(seg)
         \/ /\ state = "SYN_RCVD" /\ state' \in {"SYN_RCVD", "ESTABLISHED"}
            /\ UNCHANGED <<rcv_nxt, rxlen>>
         \/ /\ state = "CLOSE_WAIT" /\ UNCHANGED <<state, rcv_nxt, rxlen>>
         \/ /\ state = "LAST_ACK" /\ state' \in {"LAST_ACK", "CLOSED"}
            /\ UNCHANGED <<rcv_nxt, rxlen>>
         \/ /\ state' \in CloseStates
            /\ rcv_nxt' \in Nat /\ rcv_nxt <= rcv_nxt' /\ UNCHANGED rxlen
  <1>1. seg.len \in Nat /\ rcv_nxt \in Nat
    BY SocketTypes, AnySegmentFields
  <1>2. \A c : One(c) \in {0, 1}
    BY DEF One
  <1>3. ASSUME state = "FIN_WAIT_1", RxFinWait1(seg)
        PROVE  /\ state' \in CloseStates
               /\ rcv_nxt' \in Nat /\ rcv_nxt <= rcv_nxt' /\ UNCHANGED rxlen
    BY <1>1, <1>2, <1>3 DEF RxFinWait1, CloseStates
  <1>4. ASSUME state = "FIN_WAIT_2", RxFinWait2(seg)
        PROVE  /\ state' \in CloseStates
               /\ rcv_nxt' \in Nat /\ rcv_nxt <= rcv_nxt' /\ UNCHANGED rxlen
    BY <1>1, <1>2, <1>4 DEF RxFinWait2, CloseStates
  <1>5. ASSUME state = "CLOSING", RxAwaitAck(seg, "TIME_WAIT")
        PROVE  /\ state' \in CloseStates
               /\ rcv_nxt' \in Nat /\ rcv_nxt <= rcv_nxt' /\ UNCHANGED rxlen
    BY <1>1, <1>5 DEF RxAwaitAck, CloseStates
  <1>6. ASSUME state = "LAST_ACK", RxAwaitAck(seg, "CLOSED")
        PROVE  state' \in {"LAST_ACK", "CLOSED"} /\ UNCHANGED <<rcv_nxt, rxlen>>
    BY <1>6 DEF RxAwaitAck
  <1>7. ASSUME state = "SYN_RCVD", RxSynRcvd(seg)
        PROVE  \/ RxEstablished(seg)
               \/ /\ state' \in {"SYN_RCVD", "ESTABLISHED"}
                  /\ UNCHANGED <<rcv_nxt, rxlen>>
    BY <1>7 DEF RxSynRcvd
  <1>8. ASSUME state \in {"CLOSED", "TIME_WAIT"}, UNCHANGED <<state, rcv_nxt, rxlen>>
        PROVE  /\ state' \in CloseStates
               /\ rcv_nxt' \in Nat /\ rcv_nxt <= rcv_nxt' /\ UNCHANGED rxlen
    BY <1>1, <1>8 DEF CloseStates
  <1> QED
    BY <1>3, <1>4, <1>5, <1>6, <1>7, <1>8 DEF RxByState, Passive

(* The acknowledgement number counts what was taken, and a FIN is taken    *)
(* only where the stream ends.                                             *)
LEMMA DeliverTakes ==
  ASSUME SocketInv, LinkType, Passive, Counted, EofInv,
         NEW seg \in AnySegment, FromPeer(seg), ParseRx(seg),
         got' = got + rxlen' - rxlen,
         cut' = IF state # "CLOSE_WAIT" /\ state' = "CLOSE_WAIT"
                THEN seg.len - (rxlen' - rxlen) ELSE cut
  PROVE  /\ rcv_nxt' \in Nat /\ rcv_nxt <= rcv_nxt' /\ got' \in Nat /\ cut' \in Int
         /\ state' # "SYN_SENT" /\ Counted' /\ EofInv'
  <1>1. RxByState(seg)
    BY DEF ParseRx, FromPeer, hasFlag
  <1>2. /\ seg.len \in Nat /\ seg.seq \in Nat /\ rcv_nxt \in Nat /\ rxlen \in Nat
        /\ got \in Nat /\ cut \in Int /\ PeerBytes \in Nat
    BY SocketTypes, AnySegmentFields, LinkAssumption DEF LinkType
  <1>3. CASE state \in {"SYN_RCVD", "ESTABLISHED"} /\ RxEstablished(seg)
    <2>1. rcv_nxt = 1 + got
      BY <1>2, <1>3 DEF Counted, ReceivingStates, One
    <2>2. PICK n \in Nat : rxlen' = rxlen + n
      <3>1. rxlen <= rxlen' /\ rxlen' \in Nat
        BY <1>3, EstablishedTakes
      <3> QED
        BY <1>2, <3>1
    <2>a. got' = got + n /\ rxlen' - rxlen = n
      BY <1>2, <2>2
    <2>3. CASE /\ state' = "ESTABLISHED"
               /\ rcv_nxt' = rcv_nxt + (rxlen' - rxlen)
      <3>1. rcv_nxt' = 1 + got' /\ got' \in Nat /\ rcv_nxt <= rcv_nxt'
        BY <1>2, <2>1, <2>2, <2>3, <2>a
      <3>2. cut' = 0
        BY <1>3, <2>3 DEF EofInv
      <3> QED
        BY <2>3, <3>1, <3>2 DEF Counted, EofInv, EofComplete, One
    <2>4. CASE /\ state' = "CLOSE_WAIT"
               /\ rcv_nxt' = rcv_nxt + (rxlen' - rxlen) + 1
               /\ "FIN" \in seg.flags /\ seg.seq = rcv_nxt
               /\ seg.len = 0 => rxlen' = rxlen
      <3>1. rcv_nxt' = 1 + got' + 1 /\ got' \in Nat /\ rcv_nxt <= rcv_nxt'
        BY <1>2, <2>1, <2>2, <2>4, <2>a
      <3>2. Counted'
        BY <2>4, <3>1 DEF Counted, One
      <3>3. cut' \in Int /\ got' + cut' = PeerBytes
        <4>1. cut' = seg.len - n
          BY <1>3, <2>4, <2>a
        <4>2. seg.seq + seg.len = PeerBytes + 1
          BY <2>4 DEF FromPeer
        <4> QED
          BY <1>2, <2>1, <2>4, <2>a, <4>1, <4>2
      <3>4. rcv_nxt' \in Nat
        BY <3>1
      <3> QED
        BY <2>4, <3>1, <3>2, <3>3, <3>4 DEF EofInv, EofComplete
    <2> QED
      BY <1>3, <2>3, <2>4, EstablishedTakes
  <1>4. CASE /\ state = "SYN_RCVD" /\ state' \in {"SYN_RCVD", "ESTABLISHED"}
             /\ UNCHANGED <<rcv_nxt, rxlen>>
    BY <1>2, <1>4 DEF Counted, ReceivingStates, One, EofInv, EofComplete
  <1>5. CASE state = "CLOSE_WAIT" /\ UNCHANGED <<state, rcv_nxt, rxlen>>
    BY <1>2, <1>5 DEF Counted, ReceivingStates, One, EofInv, EofComplete
  <1>6. CASE /\ state = "LAST_ACK" /\ state' \in {"LAST_ACK", "CLOSED"}
             /\ UNCHANGED <<rcv_nxt, rxlen>>
    BY <1>2, <1>6 DEF Counted, ReceivingStates, EofInv, EofComplete
  <1>7. CASE /\ state' \in CloseStates
             /\ rcv_nxt' \in Nat /\ rcv_nxt <= rcv_nxt' /\ UNCHANGED rxlen
    BY <1>2, <1>7 DEF Counted, ReceivingStates, CloseStates, EofInv, EofComplete
  <1> QED
    BY <1>1, <1>3, <1>4, <1>5, <1>6, <1>7, ByStateTakes

(* What parseRx leaves in the buffers and answers is built from the        *)
(* connection as it is after the step.                                     *)
LEMMA DeliverBuilds ==
  ASSUME SocketInv, \A b \in Bufs : FromSocket(mem[b]),
         NEW seg \in AnySegment, FromPeer(seg), ParseRx(seg),
         rcv_nxt' \in Nat, rcv_nxt <= rcv_nxt'
  PROVE  /\ snd_nxt' = snd_nxt
         /\ \A b \in Bufs : FromSocket(mem[b])'
         /\ \A s \in out' : FromSocket(s)'
  <1>1. /\ snd_nxt' = snd_nxt /\ updateTxAck(seg) /\ out' = PureAck(seg)
    BY DEF ParseRx, FromPeer, hasFlag
  <1>2. snd_nxt \in Nat /\ rcv_nxt \in Nat /\ mem \in [Bufs -> Segment]
    BY SocketTypes
  <1>3. ASSUME NEW b \in Bufs PROVE FromSocket(mem[b])'
    <2>1. mem[b] \in Segment
      BY <1>2
    <2>2. SegmentEnd(mem[b]) <= snd_nxt' /\ mem[b].ack <= rcv_nxt'
      BY <1>1, <1>2, <2>1, FromSocketGrows
    <2>3. mem'[b] \in {mem[b], [mem[b] EXCEPT !.ack = rcv_nxt']}
      BY <1>1 DEF updateTxAck
    <2>4. CASE mem'[b] = [mem[b] EXCEPT !.ack = rcv_nxt']
      <3>1. /\ mem'[b].ack = rcv_nxt' /\ mem'[b].seq = mem[b].seq
            /\ mem'[b].len = mem[b].len /\ mem'[b].flags = mem[b].flags
        BY <2>1, <2>4 DEF Segment
      <3>2. SegmentEnd(mem'[b]) = SegmentEnd(mem[b])
        BY <3>1 DEF SegmentEnd, hasFlag
      <3> QED
        BY <2>2, <3>1, <3>2 DEF FromSocket
    <2>5. CASE mem'[b] = mem[b]
      BY <2>2, <2>5 DEF FromSocket
    <2> QED
      BY <2>3, <2>4, <2>5
  <1>4. \A s \in out' : FromSocket(s)'
    <2> DEFINE p == setTxPacket({"ACK"}, snd_nxt, rcv_nxt', 0, rxlen')
    <2>1. SegmentEnd(p) = snd_nxt /\ p.ack = rcv_nxt'
      BY <1>2 DEF setTxPacket, SegmentEnd, hasFlag, One
    <2>2. out' \subseteq {p}
      BY <1>1 DEF PureAck
    <2> HIDE DEF p
    <2> QED
      BY <1>1, <1>2, <2>1, <2>2 DEF FromSocket
  <1> QED
    BY <1>1, <1>3, <1>4

(* An acknowledgement of what the peer has takes off only what it has.     *)
LEMMA DeliverNothingLost ==
  ASSUME SocketInv, SocketInv', NothingLost, opened, UNCHANGED <<opened, rcv>>,
         rcv \in Nat, rcv <= snd_nxt,
         NEW seg \in AnySegment, FromPeer(seg), ParseRx(seg)
  PROVE  NothingLost'
  <1>1. TypeOK /\ txq' \in Seq(Item) /\ snd_nxt' = snd_nxt /\ SendGapless /\ ~stray
        /\ (state = "CLOSED" => state' = "CLOSED")
    BY SocketTypes, ParseRxClosed
    DEF ParseRx, SocketInv, OwnInv, TypeInv, TypeOK, OpenedOnce
  <1>2. PICK k : Keeps(k) /\ (k # 0 => txq[k].ack = seg.ack)
    BY <1>1, ParseRxKeeps
  <1>3. k # 0 => txq[k].ack <= rcv
    BY <1>2 DEF FromPeer
  <1> QED
    BY <1>1, <1>2, <1>3, KeepsNothingLost

-----------------------------------------------------------------------------
(* The invariant is inductive *)

LEMMA LinkInitInv == LinkInit => LinkInv
  <1> SUFFICES ASSUME LinkInit PROVE LinkInv
    OBVIOUS
  <1> USE DEF LinkInit
  <1>1. SocketInv
    <2>1. RxInv /\ RstInv /\ SendGapless /\ OpenedOnce
      BY SocketAssumption DEF Init, RxInv, ReceiveBound, RstInv, SendGapless, OpenedOnce
    <2> QED
      BY <2>1, OwnInit, SeqInit DEF SocketInv
  <1>2. LinkType /\ BeforeOpen /\ Passive
    <2>1. /\ toDev \subseteq AnySegment /\ toPeer \subseteq Segment
          /\ opened \in BOOLEAN /\ ISS \in Nat
      BY SocketAssumption
    <2>2. LinkType
      BY <2>1 DEF LinkType
    <2>3. BeforeOpen /\ Passive
      BY DEF BeforeOpen, Passive, Init
    <2> QED
      BY <2>2, <2>3
  <1>3. Underway
    <2>1. ASSUME NEW b \in Bufs PROVE FromSocket(mem[b])
      <3>1. mem[b] = BlankSegment /\ snd_nxt = 0 /\ rcv_nxt = 0
        BY DEF Init
      <3>2. SegmentEnd(BlankSegment) = 0 /\ BlankSegment.ack = 0
        BY DEF BlankSegment, SegmentEnd, hasFlag, One
      <3> QED
        BY <3>1, <3>2 DEF FromSocket
    <2> QED
      BY <2>1 DEF Underway
  <1>4. Behind /\ Counted /\ EofInv /\ NothingLost
    BY DEF Init, Behind, Counted, ReceivingStates, EofInv, EofComplete, NothingLost
  <1> QED
    BY <1>1, <1>2, <1>3, <1>4 DEF LinkInv

(* What was under way and what is sent arrives at the peer, or does not.   *)
LEMMA SentUnderway ==
  ASSUME SocketInv, SocketInv', LinkType, Underway,
         snd_nxt <= snd_nxt', rcv_nxt <= rcv_nxt',
         toPeer' \subseteq toPeer \cup out',
         \A seg \in out' : "RST" \in seg.flags \/ FromSocket(seg)'
  PROVE  /\ toPeer' \subseteq Segment
         /\ \A seg \in toPeer' : "RST" \in seg.flags \/ FromSocket(seg)'
  <1>1. /\ snd_nxt \in Nat /\ rcv_nxt \in Nat /\ snd_nxt' \in Nat /\ rcv_nxt' \in Nat
        /\ out' \subseteq Segment
    BY DEF SocketInv, OwnInv, TypeInv, TypeOK
  <1>2. toPeer \subseteq Segment
    BY DEF LinkType
  <1>3. ASSUME NEW seg \in toPeer, "RST" \notin seg.flags PROVE FromSocket(seg)'
    <2>1. seg \in Segment /\ FromSocket(seg)
      BY <1>2, <1>3 DEF Underway
    <2>2. SegmentEnd(seg) <= snd_nxt' /\ seg.ack <= rcv_nxt'
      BY <1>1, <2>1, FromSocketGrows
    <2> QED
      BY <2>2 DEF FromSocket
  <1> QED
    BY <1>1, <1>2, <1>3

(* What was under way to the socket stays what it was.                     *)
LEMMA ArrivesUnderway ==
  ASSUME LinkType, Underway, toDev' \subseteq toDev, rcv' = rcv
  PROVE  toDev' \subseteq AnySegment /\ \A seg \in toDev' : FromPeer(seg)'
  BY DEF LinkType, Underway, FromPeer

(* The application's steps.                                                *)
LEMMA AppLinkInv ==
  ASSUME LinkInv, LinkApp
  PROVE  LinkInv'
  <1>1. /\ SocketInv /\ LinkType /\ BeforeOpen /\ Passive /\ Underway
        /\ Behind /\ Counted /\ EofInv /\ NothingLost
    BY DEF LinkInv
  <1>2. opened /\ UNCHANGED <<toDev, opened, got, cut, una, nxt, rcv>> /\ Transmit
    BY <1>1, NothingBeforeOpen DEF LinkApp, peer, LinkType
  <1>3. SocketInv'
    BY <1>1, SocketApp, LinkSteps, LinkAppConn DEF OpensIdle
  <1>4. /\ snd_nxt' \in Nat /\ snd_nxt <= snd_nxt'
        /\ \A b \in Bufs : FromSocket(mem[b])'
        /\ \A seg \in out' : "RST" \in seg.flags \/ FromSocket(seg)'
    BY <1>1, AppBuilds DEF Underway
  <1>5. /\ snd_nxt \in Nat /\ rcv_nxt \in Nat /\ rcv_nxt' = rcv_nxt /\ rcv_nxt <= rcv_nxt'
        /\ rcv \in Nat
    BY <1>1, SocketTypes, LinkAppConn DEF LinkType
  <1>6. LinkType' /\ Underway'
    <2>1. toPeer' \subseteq toPeer \cup out'
      BY <1>2 DEF Transmit
    <2> QED
      BY <1>1, <1>2, <1>3, <1>4, <1>5, <2>1, SentUnderway, ArrivesUnderway
      DEF LinkType, Underway
  <1>7. BeforeOpen' /\ Passive'
    BY <1>1, <1>2, LinkAppConn DEF BeforeOpen, Passive
  <1>8. Behind'
    BY <1>1, <1>2, <1>4, <1>5 DEF Behind
  <1>9. Counted' /\ EofInv'
    BY <1>1, <1>2, <1>5, LinkAppConn DEF Counted, ReceivingStates, EofInv, EofComplete
  <1>10. NothingLost'
    BY <1>1, <1>2, <1>4, <1>5, AppKept, KeptNothingLost, LinkAppConn DEF Behind
  <1> QED
    BY <1>3, <1>6, <1>7, <1>8, <1>9, <1>10 DEF LinkInv

(* The uip task's own steps.                                               *)
LEMMA TimerLinkInv ==
  ASSUME LinkInv, LinkTimer
  PROVE  LinkInv'
  <1>1. /\ SocketInv /\ LinkType /\ BeforeOpen /\ Passive /\ Underway
        /\ Behind /\ Counted /\ EofInv /\ NothingLost
    BY DEF LinkInv
  <1>2. opened /\ UNCHANGED <<toDev, opened, got, cut, una, nxt, rcv>> /\ Transmit
    BY <1>1, NothingBeforeOpen DEF LinkTimer, peer, LinkType
  <1>3. SocketInv'
    BY <1>1, SocketUip, LinkSteps, LinkTimerConn
  <1>4. /\ snd_nxt' \in Nat /\ snd_nxt <= snd_nxt'
        /\ \A b \in Bufs : FromSocket(mem[b])'
        /\ \A seg \in out' : "RST" \in seg.flags \/ FromSocket(seg)'
    BY <1>1, TimerBuilds DEF Underway
  <1>5. /\ snd_nxt \in Nat /\ rcv_nxt \in Nat /\ rcv_nxt' = rcv_nxt /\ rcv_nxt <= rcv_nxt'
        /\ rcv \in Nat
    BY <1>1, SocketTypes, LinkTimerConn DEF LinkType
  <1>6. LinkType' /\ Underway'
    <2>1. toPeer' \subseteq toPeer \cup out'
      BY <1>2 DEF Transmit
    <2> QED
      BY <1>1, <1>2, <1>3, <1>4, <1>5, <2>1, SentUnderway, ArrivesUnderway
      DEF LinkType, Underway
  <1>7. BeforeOpen' /\ Passive'
    BY <1>1, <1>2, LinkTimerConn DEF BeforeOpen, Passive
  <1>8. Behind'
    BY <1>1, <1>2, <1>4, <1>5 DEF Behind
  <1>9. Counted' /\ EofInv'
    BY <1>1, <1>2, <1>5, LinkTimerConn DEF Counted, ReceivingStates, EofInv, EofComplete
  <1>10. NothingLost'
    BY <1>1, <1>2, <1>4, <1>5, TimerKept, KeptNothingLost, LinkTimerConn DEF Behind
  <1> QED
    BY <1>3, <1>6, <1>7, <1>8, <1>9, <1>10 DEF LinkInv

(* The SYN is taken: the connection begins where both sides count from.    *)
LEMMA ListenLinkInv ==
  ASSUME LinkInv, Listen
  PROVE  LinkInv'
  <1>1. /\ SocketInv /\ LinkType /\ BeforeOpen /\ Passive /\ Underway
        /\ Behind /\ Counted /\ EofInv /\ NothingLost
    BY DEF LinkInv
  <1>2. /\ ~opened /\ opened' = TRUE
        /\ UNCHANGED <<toPeer, got, cut, una, nxt, rcv>>
    BY DEF Listen, peer
  <1>3. PICK seg \in toDev : /\ hasFlag(seg, "SYN") /\ ListenSyn(seg.seq + 1)
                             /\ toDev' = toDev \ {seg}
    BY DEF Listen
  <1>4. seg.seq = 0 /\ seg.seq + 1 = 1
    BY <1>1, <1>3 DEF Underway, FromPeer, hasFlag
  <1>5. /\ state' = "SYN_RCVD" /\ snd_nxt' = ISS /\ rcv_nxt' = 1 /\ txq' = <<>>
        /\ out' = {} /\ UNCHANGED <<mem, aop>>
    BY <1>3, <1>4 DEF ListenSyn, Open, resetTxQ, appVars
  <1>6. /\ upc = "idle" /\ snd_nxt = 0 /\ rcv_nxt = 0 /\ got = 0 /\ cut = 0 /\ toPeer = {}
        /\ rcv = ISS /\ una = 0 /\ ISS \in Nat
    BY <1>1, <1>2, SocketAssumption DEF BeforeOpen
  <1>7. SocketInv'
    <2>1. AppStep /\ OpensIdle
      BY <1>3, <1>4, <1>6 DEF AppStep, OpensIdle
    <2> QED
      BY <1>1, <2>1, SocketApp
  <1>8. LinkType' /\ Underway'
    <2>1. snd_nxt <= snd_nxt' /\ rcv_nxt <= rcv_nxt' /\ snd_nxt \in Nat /\ rcv_nxt \in Nat
          /\ snd_nxt' \in Nat /\ rcv_nxt' \in Nat
      BY <1>5, <1>6
    <2>2. \A b \in Bufs : FromSocket(mem[b])'
      <3>1. \A b \in Bufs : mem[b] \in Segment /\ FromSocket(mem[b])
        BY <1>1, SocketTypes DEF Underway
      <3>2. \A b \in Bufs : SegmentEnd(mem[b]) <= snd_nxt' /\ mem[b].ack <= rcv_nxt'
        BY <2>1, <3>1, FromSocketGrows
      <3> QED
        BY <1>5, <3>2 DEF FromSocket
    <2>3. toDev' \subseteq AnySegment /\ \A s \in toDev' : FromPeer(s)'
      BY <1>1, <1>2, <1>3, ArrivesUnderway
    <2> QED
      BY <1>1, <1>2, <1>6, <2>2, <2>3 DEF LinkType, Underway
  <1>9. BeforeOpen' /\ Passive'
    BY <1>1, <1>2, <1>5 DEF BeforeOpen, Passive
  <1>10. Behind' /\ Counted' /\ EofInv' /\ NothingLost'
    BY <1>2, <1>5, <1>6 DEF Behind, Counted, One, EofInv, EofComplete, NothingLost
  <1> QED
    BY <1>7, <1>8, <1>9, <1>10 DEF LinkInv

(* A segment of the peer arrives.                                          *)
LEMMA DeliverLinkInv ==
  ASSUME LinkInv, Deliver
  PROVE  LinkInv'
  <1>1. /\ SocketInv /\ LinkType /\ BeforeOpen /\ Passive /\ Underway
        /\ Behind /\ Counted /\ EofInv /\ NothingLost
    BY DEF LinkInv
  <1>2. opened /\ UNCHANGED <<opened, una, nxt, rcv>> /\ Transmit
    BY <1>1 DEF Deliver, peer, BeforeOpen, LinkType
  <1>3. PICK seg \in toDev :
          /\ ParseRx(seg) /\ toDev' = toDev \ {seg}
          /\ cut' = IF state # "CLOSE_WAIT" /\ state' = "CLOSE_WAIT"
                    THEN seg.len - (rxlen' - rxlen) ELSE cut
    BY DEF Deliver
  <1>4. seg \in AnySegment /\ FromPeer(seg)
    BY <1>1 DEF LinkType, Underway
  <1>5. SocketInv'
    <2>1. UipStep /\ running' = running
      BY <1>3, <1>4 DEF UipStep, ParseRx
    <2> QED
      BY <1>1, <2>1, SocketUip
  <1>6. /\ rcv_nxt' \in Nat /\ rcv_nxt <= rcv_nxt' /\ got' \in Nat /\ cut' \in Int
        /\ state' # "SYN_SENT" /\ Counted' /\ EofInv'
    BY <1>1, <1>3, <1>4, DeliverTakes DEF Deliver
  <1>7. /\ snd_nxt' = snd_nxt
        /\ \A b \in Bufs : FromSocket(mem[b])'
        /\ \A s \in out' : FromSocket(s)'
    BY <1>1, <1>3, <1>4, <1>6, DeliverBuilds DEF Underway
  <1>8. snd_nxt \in Nat /\ rcv_nxt \in Nat /\ rcv \in Nat /\ una \in Nat
        /\ snd_nxt <= snd_nxt'
    BY <1>1, <1>7, SocketTypes DEF LinkType
  <1>9. LinkType' /\ Underway'
    <2>1. toPeer' \subseteq toPeer \cup out'
      BY <1>2 DEF Transmit
    <2> QED
      BY <1>1, <1>2, <1>3, <1>5, <1>6, <1>7, <1>8, <2>1, SentUnderway, ArrivesUnderway
      DEF LinkType, Underway
  <1>10. BeforeOpen' /\ Passive'
    BY <1>1, <1>2, <1>3, <1>6 DEF BeforeOpen, Passive, ParseRx, appVars
  <1>11. Behind'
    BY <1>1, <1>2, <1>6, <1>7, <1>8 DEF Behind
  <1>12. NothingLost'
    BY <1>1, <1>2, <1>3, <1>4, <1>5, <1>8, DeliverNothingLost DEF Behind
  <1> QED
    BY <1>5, <1>6, <1>9, <1>10, <1>11, <1>12 DEF LinkInv

(* A step that the socket takes no part in keeps what is said of it.       *)
LEMMA QuietLinkInv ==
  ASSUME LinkInv, UNCHANGED <<conn, txq, mem, free, appVars, uipVars, hist>>,
         UNCHANGED <<opened, got, cut>>, out' \subseteq Segment
  PROVE  /\ SocketInv' /\ Passive' /\ Counted' /\ EofInv'
         /\ UNCHANGED <<state, snd_nxt, rcv_nxt, txq, mem, apc, upc>>
         /\ \A b \in Bufs : FromSocket(mem[b])'
  <1>1. SocketInv'
    BY SocketQuiet DEF LinkInv
  <1>2. UNCHANGED <<state, snd_nxt, rcv_nxt, txq, mem, apc, aop, upc>>
    BY DEF conn, appVars, uipVars
  <1>3. \A b \in Bufs : FromSocket(mem[b])'
    BY <1>2 DEF LinkInv, Underway, FromSocket
  <1> QED
    BY <1>1, <1>2, <1>3 DEF LinkInv, Passive, Counted, EofInv, EofComplete

(* The segments that are built from the blank one.                         *)
LEMMA BuiltSegments ==
  ASSUME NEW a \in Nat, NEW q \in Nat, NEW w \in 0 .. WinMod - 1
  PROVE  /\ LET s == [BlankSegment EXCEPT !.flags = {"RST", "ACK"}, !.seq = q, !.ack = a]
            IN s \in Segment /\ s.flags = {"RST", "ACK"}
         /\ LET s == [BlankSegment EXCEPT !.flags = {"SYN"}, !.wnd = w]
            IN /\ s \in AnySegment /\ s.flags = {"SYN"}
               /\ s.seq = 0 /\ s.ack = 0 /\ s.len = 0
  <1>1. BlankSegment \in Segment /\ BlankSegment \in AnySegment
        /\ BlankSegment.seq = 0 /\ BlankSegment.ack = 0 /\ BlankSegment.len = 0
    BY SocketAssumption DEF BlankSegment, Segment, AnySegment
  <1>2. {"RST", "ACK"} \in SUBSET Flag /\ {"SYN"} \in SUBSET Flag
    BY DEF Flag
  <1>3. ASSUME NEW f \in SUBSET Flag, NEW b \in Segment
        PROVE  LET s == [b EXCEPT !.flags = f, !.seq = q, !.ack = a]
               IN s \in Segment /\ s.flags = f
    BY DEF Segment
  <1>4. ASSUME NEW f \in SUBSET Flag, NEW b \in AnySegment
        PROVE  LET s == [b EXCEPT !.flags = f, !.wnd = w]
               IN /\ s \in AnySegment /\ s.flags = f
                  /\ s.seq = b.seq /\ s.ack = b.ack /\ s.len = b.len
    BY DEF AnySegment
  <1>5. LET s == [BlankSegment EXCEPT !.flags = {"SYN"}, !.wnd = w]
        IN /\ s \in AnySegment /\ s.flags = {"SYN"}
           /\ s.seq = BlankSegment.seq /\ s.ack = BlankSegment.ack
           /\ s.len = BlankSegment.len
    BY <1>1, <1>2, <1>4
  <1>6. LET s == [BlankSegment EXCEPT !.flags = {"RST", "ACK"}, !.seq = q, !.ack = a]
        IN s \in Segment /\ s.flags = {"RST", "ACK"}
    BY <1>1, <1>2, <1>3
  <1> QED
    BY <1>1, <1>5, <1>6

(* A reset answers a segment for the closed connection.                    *)
LEMMA RefuseLinkInv ==
  ASSUME LinkInv, Refuse
  PROVE  LinkInv'
  <1>1. /\ SocketInv /\ LinkType /\ BeforeOpen /\ Underway /\ Behind /\ NothingLost
    BY DEF LinkInv
  <1>2. /\ opened /\ UNCHANGED <<opened, got, cut, una, nxt, rcv>> /\ Transmit
        /\ UNCHANGED <<conn, txq, mem, free, appVars, uipVars, hist>>
        /\ toDev' \subseteq toDev
    BY DEF Refuse, peer
  <1>3. \A seg \in out' : seg \in Segment /\ "RST" \in seg.flags
    <2>1. PICK seg \in toDev :
            out' = {[BlankSegment EXCEPT !.flags = {"RST", "ACK"},
                                         !.seq = seg.ack, !.ack = seg.seq + 1]}
      BY DEF Refuse
    <2>2. seg.ack \in Nat /\ seg.seq + 1 \in Nat
      BY <1>1, AnySegmentFields DEF LinkType
    <2> DEFINE a == seg.seq + 1
               s == [BlankSegment EXCEPT !.flags = {"RST", "ACK"},
                                         !.seq = seg.ack, !.ack = a]
    <2>3. out' = {s} /\ a \in Nat
      BY <2>1, <2>2
    <2>4. s \in Segment /\ s.flags = {"RST", "ACK"}
      <3> HIDE DEF a
      <3> QED
        BY <2>2, <2>3, BuiltSegments, LinkAssumption
    <2> HIDE DEF s
    <2> QED
      BY <2>3, <2>4
  <1>4. /\ SocketInv' /\ Passive' /\ Counted' /\ EofInv'
        /\ UNCHANGED <<state, snd_nxt, rcv_nxt, txq, mem, apc, upc>>
        /\ \A b \in Bufs : FromSocket(mem[b])'
    BY <1>2, <1>3, QuietLinkInv
  <1>5. LinkType' /\ Underway'
    <2>1. toPeer' \subseteq toPeer \cup out'
      BY <1>2 DEF Transmit
    <2>2. snd_nxt <= snd_nxt' /\ rcv_nxt <= rcv_nxt'
      BY <1>1, <1>4, SocketTypes
    <2> QED
      BY <1>1, <1>2, <1>3, <1>4, <2>1, <2>2, SentUnderway, ArrivesUnderway
      DEF LinkType, Underway
  <1>6. BeforeOpen' /\ Behind' /\ NothingLost'
    BY <1>1, <1>2, <1>4 DEF BeforeOpen, Behind, NothingLost
  <1> QED
    BY <1>4, <1>5, <1>6 DEF LinkInv

(* The peer puts a segment on the wire.                                    *)
LEMMA PutLinkInv ==
  ASSUME LinkInv, NEW seg \in AnySegment, FromPeer(seg), NEW next \in Nat,
         PeerPut(seg, next)
  PROVE  LinkInv'
  <1>1. /\ SocketInv /\ LinkType /\ BeforeOpen /\ Underway /\ Behind /\ NothingLost
    BY DEF LinkInv
  <1>2. /\ UNCHANGED <<toPeer, opened, got, cut, una, rcv>> /\ toDev' = toDev \cup {seg}
        /\ UNCHANGED <<conn, txq, mem, free, appVars, uipVars, hist>> /\ out' = {}
        /\ nxt' = IF next > nxt THEN next ELSE nxt
    BY DEF PeerPut, Quiet
  <1>3. /\ SocketInv' /\ Passive' /\ Counted' /\ EofInv'
        /\ UNCHANGED <<state, snd_nxt, rcv_nxt, txq, mem, apc, upc>>
        /\ \A b \in Bufs : FromSocket(mem[b])'
    BY <1>2, QuietLinkInv
  <1>4. LinkType'
    BY <1>1, <1>2 DEF LinkType
  <1>5. Underway'
    <2>1. \A s \in toDev' : FromPeer(s)'
      BY <1>1, <1>2 DEF Underway, FromPeer
    <2>2. \A s \in toPeer' : "RST" \in s.flags \/ FromSocket(s)'
      BY <1>1, <1>2, <1>3 DEF Underway, FromSocket
    <2> QED
      BY <1>3, <2>1, <2>2 DEF Underway
  <1>6. BeforeOpen' /\ Behind' /\ NothingLost'
    BY <1>1, <1>2, <1>3 DEF BeforeOpen, Behind, NothingLost
  <1> QED
    BY <1>3, <1>4, <1>5, <1>6 DEF LinkInv

LEMMA PeerSendsLinkInv ==
  ASSUME LinkInv, PeerSyn \/ PeerSend
  PROVE  LinkInv'
  <1>1. rcv \in Nat /\ una \in Nat /\ nxt \in Nat
        /\ PeerWindow \in 0 .. WinMod - 1 /\ PeerBytes \in Nat
    BY LinkAssumption DEF LinkInv, LinkType
  <1>2. CASE PeerSyn
    <2> DEFINE s == [BlankSegment EXCEPT !.flags = {"SYN"}, !.wnd = PeerWindow]
    <2>1. s \in AnySegment /\ s.flags = {"SYN"} /\ s.seq = 0 /\ s.ack = 0
      BY <1>1, BuiltSegments
    <2>2. FromPeer(s)
      BY <1>1, <2>1 DEF FromPeer
    <2>3. PeerPut(s, 1)
      BY <1>2 DEF PeerSyn
    <2> HIDE DEF s
    <2> QED
      BY <2>1, <2>2, <2>3, PutLinkInv
  <1>3. CASE PeerSend
    <2>1. PICK seq \in {una, nxt}, len \in 0 .. PeerBytes, fin \in BOOLEAN :
            /\ fin => seq + len = PeerBytes + 1
            /\ PeerPut(PeerSegment(seq, len, fin), seq + len + One(fin))
      BY <1>3 DEF PeerSend
    <2> DEFINE s == PeerSegment(seq, len, fin)
               n == seq + len + One(fin)
    <2>2. seq \in Nat /\ len \in Nat /\ n \in Nat
      BY <1>1 DEF One
    <2>3. /\ s.flags = {"ACK"} \cup (IF fin THEN {"FIN"} ELSE {})
          /\ s.seq = seq /\ s.ack = rcv /\ s.len = len
      BY DEF PeerSegment
    <2>4. s \in AnySegment
      BY <1>1, <2>2 DEF AnySegment, Flag, PeerSegment
    <2>5. PeerPut(s, n)
      BY <2>1
    <2> HIDE DEF s, n
    <2>6. FromPeer(s)
      BY <1>1, <2>1, <2>3 DEF FromPeer
    <2> QED
      BY <2>2, <2>4, <2>5, <2>6, PutLinkInv
  <1> QED
    BY <1>2, <1>3

(* The peer takes a segment: never more than the socket has sent, and      *)
(* never an acknowledgement of what it has not taken.                      *)
LEMMA PeerTakes ==
  ASSUME LinkInv, NEW seg \in toPeer, "RST" \notin seg.flags,
         rcv' = IF seg.seq # rcv THEN rcv
                ELSE rcv + seg.len + One(hasFlag(seg, "SYN") \/ hasFlag(seg, "FIN"))
  PROVE  /\ opened /\ seg.ack \in Nat /\ seg.ack <= rcv_nxt
         /\ rcv' \in Nat /\ rcv <= rcv' /\ rcv' <= snd_nxt
         /\ rcv = snd_nxt => rcv' = rcv
  <1>1. opened
    BY DEF LinkInv, LinkType, BeforeOpen
  <1>2. /\ rcv \in Nat /\ snd_nxt \in Nat /\ rcv <= snd_nxt /\ seg \in Segment
        /\ SegmentEnd(seg) <= snd_nxt /\ seg.ack <= rcv_nxt
    BY <1>1, SocketTypes DEF LinkInv, LinkType, Behind, Underway, FromSocket
  <1>3. /\ seg.seq \in Nat /\ seg.ack \in Nat /\ seg.len \in Nat
        /\ SegmentEnd(seg) \in Nat /\ seg.seq + seg.len <= SegmentEnd(seg)
        /\ SegmentEnd(seg) = seg.seq + seg.len + One(hasFlag(seg, "SYN")
                                                     \/ hasFlag(seg, "FIN"))
    BY <1>2, SegmentNumbers
  <1>4. CASE seg.seq # rcv
    BY <1>1, <1>2, <1>3, <1>4
  <1>5. CASE seg.seq = rcv
    <2>1. rcv' = SegmentEnd(seg)
      BY <1>3, <1>5
    <2> QED
      BY <1>1, <1>2, <1>3, <1>5, <2>1
  <1> QED
    BY <1>4, <1>5

LEMMA PeerReceiveLinkInv ==
  ASSUME LinkInv, PeerReceive
  PROVE  LinkInv'
  <1>1. /\ SocketInv /\ LinkType /\ BeforeOpen /\ Underway /\ Behind /\ NothingLost
    BY DEF LinkInv
  <1>2. PICK seg \in toPeer :
          /\ toPeer' = toPeer \ {seg}
          /\ \/ /\ "RST" \notin seg.flags /\ una' = seg.ack
                /\ rcv' = IF seg.seq # rcv THEN rcv
                          ELSE rcv + seg.len + One(hasFlag(seg, "SYN")
                                                   \/ hasFlag(seg, "FIN"))
             \/ UNCHANGED <<una, rcv>>
          /\ Quiet /\ UNCHANGED <<toDev, opened, got, cut, nxt>>
    BY DEF PeerReceive, hasFlag
  <1>3. /\ UNCHANGED <<conn, txq, mem, free, appVars, uipVars, hist>> /\ out' = {}
    BY <1>2 DEF Quiet
  <1>4. /\ SocketInv' /\ Passive' /\ Counted' /\ EofInv'
        /\ UNCHANGED <<state, snd_nxt, rcv_nxt, txq, mem, apc, upc>>
        /\ \A b \in Bufs : FromSocket(mem[b])'
    BY <1>2, <1>3, QuietLinkInv
  <1>5. opened /\ rcv \in Nat /\ una \in Nat /\ snd_nxt \in Nat /\ rcv_nxt \in Nat
        /\ rcv <= snd_nxt /\ una <= rcv_nxt
    BY <1>1, SocketTypes DEF LinkType, BeforeOpen, Behind
  <1>6. /\ una' \in Nat /\ una' <= rcv_nxt /\ rcv' \in Nat
        /\ rcv <= rcv' /\ rcv' <= snd_nxt /\ (rcv = snd_nxt => rcv' = rcv)
    <2>1. CASE UNCHANGED <<una, rcv>>
      BY <1>5, <2>1
    <2>2. CASE ~UNCHANGED <<una, rcv>>
      BY <1>2, <2>2, PeerTakes
    <2> QED
      BY <2>1, <2>2
  <1>7. LinkType'
    BY <1>1, <1>2, <1>6 DEF LinkType
  <1>8. Underway'
    <2>1. ASSUME NEW s \in toDev' PROVE FromPeer(s)'
      <3>1. s \in toDev /\ FromPeer(s)
        BY <1>1, <1>2 DEF Underway
      <3>2. s.ack \in Nat
        BY <1>1, <3>1, AnySegmentFields DEF LinkType
      <3>3. s.ack <= rcv'
        BY <1>5, <1>6, <3>1, <3>2 DEF FromPeer
      <3> QED
        BY <3>1, <3>3 DEF FromPeer
    <2>2. \A s \in toPeer' : "RST" \in s.flags \/ FromSocket(s)'
      BY <1>1, <1>2, <1>4 DEF Underway, FromSocket
    <2> QED
      BY <1>4, <2>1, <2>2 DEF Underway
  <1>9. BeforeOpen' /\ Behind'
    BY <1>2, <1>4, <1>5, <1>6 DEF BeforeOpen, Behind
  <1>10. NothingLost'
    <2> SUFFICES ASSUME state # "CLOSED"
                 PROVE  IF txq = <<>> THEN rcv' = snd_nxt
                        ELSE mem[txq[1].packet].seq <= rcv'
      BY <1>4 DEF NothingLost
    <2>1. CASE txq = <<>>
      BY <1>1, <1>5, <1>6, <2>1 DEF NothingLost
    <2>2. CASE txq # <<>>
      <3>1. 1 \in 1 .. Len(txq)
        BY <1>1, <2>2, SocketTypes, EmptySeq, LenProperties
      <3>2. mem[txq[1].packet].seq \in Nat
        BY <1>1, <3>1, SocketTypes, QueueTypes
      <3>3. mem[txq[1].packet].seq <= rcv
        BY <1>1, <1>5, <2>2 DEF NothingLost
      <3> QED
        BY <1>5, <1>6, <2>2, <3>2, <3>3
    <2> QED
      BY <2>1, <2>2
  <1> QED
    BY <1>4, <1>7, <1>8, <1>9, <1>10 DEF LinkInv

(* Nothing moves.                                                          *)
LEMMA StutterLinkInv ==
  ASSUME LinkInv, UNCHANGED linkVars
  PROVE  LinkInv'
  <1>1. /\ SocketInv /\ LinkType /\ BeforeOpen /\ Underway /\ Behind /\ NothingLost
    BY DEF LinkInv
  <1>2. /\ UNCHANGED <<conn, txq, mem, free, appVars, uipVars, hist, out>>
        /\ UNCHANGED <<toDev, toPeer, opened, got, cut, una, nxt, rcv>>
    BY DEF linkVars, vars, net, peer
  <1>3. out' \subseteq Segment
    BY <1>1, <1>2 DEF SocketInv, OwnInv, TypeInv, TypeOK
  <1>4. /\ SocketInv' /\ Passive' /\ Counted' /\ EofInv'
        /\ UNCHANGED <<state, snd_nxt, rcv_nxt, txq, mem, apc, upc>>
        /\ \A b \in Bufs : FromSocket(mem[b])'
    BY <1>2, <1>3, QuietLinkInv
  <1>5. LinkType' /\ BeforeOpen' /\ Behind' /\ NothingLost'
    BY <1>1, <1>2, <1>4 DEF LinkType, BeforeOpen, Behind, NothingLost
  <1>6. Underway'
    BY <1>1, <1>2, <1>4 DEF Underway, FromPeer, FromSocket
  <1> QED
    BY <1>4, <1>5, <1>6 DEF LinkInv

LEMMA LinkInvariant == LinkSpec => []LinkInv
  <1>1. LinkInv /\ [LinkNext]_linkVars => LinkInv'
    <2> SUFFICES ASSUME LinkInv, [LinkNext]_linkVars PROVE LinkInv'
      OBVIOUS
    <2>1. CASE LinkApp
      BY <2>1, AppLinkInv
    <2>2. CASE LinkTimer
      BY <2>2, TimerLinkInv
    <2>3. CASE Listen
      BY <2>3, ListenLinkInv
    <2>4. CASE Deliver
      BY <2>4, DeliverLinkInv
    <2>5. CASE Refuse
      BY <2>5, RefuseLinkInv
    <2>6. CASE PeerSyn \/ PeerSend
      BY <2>6, PeerSendsLinkInv
    <2>7. CASE PeerReceive
      BY <2>7, PeerReceiveLinkInv
    <2>8. CASE UNCHANGED linkVars
      BY <2>8, StutterLinkInv
    <2> QED
      BY <2>1, <2>2, <2>3, <2>4, <2>5, <2>6, <2>7, <2>8 DEF LinkNext
  <1> QED
    BY <1>1, LinkInitInv, PTL DEF LinkSpec

-----------------------------------------------------------------------------
(* Each direction of the connection is a stream *)

(* What the peer sends changes nothing but its own next number.            *)
LEMMA PutLeaves ==
  ASSUME PeerSyn \/ PeerSend
  PROVE  UNCHANGED <<state, snd_nxt, rcv_nxt, txq, mem, opened, got, cut, una, rcv>>
  <1>1. ASSUME NEW seg, NEW next, PeerPut(seg, next)
        PROVE  UNCHANGED <<state, snd_nxt, rcv_nxt, txq, mem, opened, got, cut, una, rcv>>
    BY <1>1 DEF PeerPut, Quiet, conn
  <1> QED
    BY <1>1, Zenon DEF PeerSyn, PeerSend

(* A stream that was given up stays given up.                              *)
LEMMA SendingEnds ==
  ASSUME LinkInv, LinkNext, ~Sending
  PROVE  ~Sending'
  <1>1. opened /\ state = "CLOSED"
    BY DEF Sending
  <1>2. CASE LinkApp
    BY <1>1, <1>2, LinkAppConn DEF LinkApp, Sending
  <1>3. CASE LinkTimer
    BY <1>1, <1>3, LinkTimerConn DEF LinkTimer, Sending
  <1>4. CASE Listen \/ Deliver
    BY <1>1, <1>4 DEF Listen, Deliver
  <1>5. CASE Refuse \/ PeerReceive
    BY <1>1, <1>5, Zenon DEF Refuse, PeerReceive, Quiet, conn, Sending
  <1>6. CASE PeerSyn \/ PeerSend
    BY <1>1, <1>6, PutLeaves DEF Sending
  <1> QED
    BY <1>2, <1>3, <1>4, <1>5, <1>6 DEF LinkNext

(* The steps of the socket's own stream.                                   *)
LEMMA OutSteps ==
  ASSUME Sending, Sending', opened, opened',
         snd_nxt \in Nat, snd_nxt' \in Nat, rcv \in Nat, rcv' \in Nat,
         SendKept \in Nat, SendKept' \in Nat,
         \/ snd_nxt <= snd_nxt' /\ UNCHANGED <<rcv, SendKept>>
         \/ rcv <= rcv' /\ rcv' <= snd_nxt /\ UNCHANGED <<snd_nxt, SendKept>>
         \/ SendKept <= SendKept' /\ SendKept' <= rcv /\ UNCHANGED <<snd_nxt, rcv>>
  PROVE  [Out!StreamNext]_(Out!streamVars)
  <1>1. Sending = TRUE /\ Sending' = TRUE
    BY DEF Sending
  <1> QED
    BY <1>1 DEF Out!StreamNext, Out!streamVars, Out!Send, Out!Take, Out!Forget

LEMMA OutGivesUp ==
  ASSUME ~Sending'
  PROVE  [Out!StreamNext]_(Out!streamVars)
  <1>1. Sending \in BOOLEAN /\ Sending' = FALSE
    BY DEF Sending
  <1> QED
    BY <1>1 DEF Out!StreamNext, Out!streamVars, Out!GiveUp, Out!AtFirst

(* Every step of the link is a step of the socket's stream, or leaves it   *)
(* alone.                                                                  *)
LEMMA OutNext ==
  ASSUME LinkInv, LinkInv', LinkNext
  PROVE  [Out!StreamNext]_(Out!streamVars)
  <1>1. CASE ~Sending'
    BY <1>1, OutGivesUp
  <1>2. CASE Sending' /\ ~opened
    <2>1. ~LinkApp /\ ~LinkTimer /\ ~Deliver /\ ~Refuse /\ ~PeerReceive
      BY <1>2, NothingBeforeOpen
      DEF LinkInv, BeforeOpen, Deliver, Refuse, PeerReceive
    <2>2. /\ Sending = TRUE /\ Sending' = TRUE /\ SendKept = ISS
          /\ opened \in BOOLEAN /\ opened' \in BOOLEAN
      BY <1>2 DEF LinkInv, LinkType, Sending, SendKept
    <2>3. rcv' = rcv /\ SendKept' = ISS /\ (opened' => snd_nxt' = ISS)
      <3>1. CASE Listen
        <4>1. opened' /\ rcv' = rcv /\ txq' = <<>> /\ snd_nxt' = ISS
          BY <3>1 DEF Listen, ListenSyn, Open, resetTxQ, peer
        <4> QED
          BY <4>1, KeptOpenNext
      <3>2. CASE PeerSyn \/ PeerSend
        <4>1. ~opened' /\ rcv' = rcv
          BY <1>2, <3>2, PutLeaves
        <4> QED
          BY <4>1 DEF SendKept
      <3> QED
        BY <2>1, <3>1, <3>2 DEF LinkNext
    <2> QED
      BY <1>2, <2>2, <2>3 DEF Out!streamVars
  <1>3. CASE Sending' /\ opened
    <2>1. /\ SocketInv /\ SocketInv' /\ Sending /\ opened' /\ state # "CLOSED"
          /\ state' # "CLOSED" /\ UNCHANGED opened
      <3>1. Sending
        BY <1>3, SendingEnds
      <3>2. opened' = opened
        BY <1>3 DEF LinkNext, LinkApp, LinkTimer, Listen, Deliver, Refuse, PeerSyn,
           PeerSend, PeerPut, PeerReceive
      <3> QED
        BY <1>3, <3>1, <3>2 DEF LinkInv, Sending
    <2>2. /\ snd_nxt \in Nat /\ snd_nxt' \in Nat /\ rcv \in Nat /\ rcv' \in Nat
          /\ TypeOK /\ SeqInv /\ NothingLost' /\ rcv <= snd_nxt
      BY <1>3, <2>1, SocketTypes DEF LinkInv, LinkType, Behind, SocketInv, OwnInv, TypeInv,
         TypeOK
    <2>3. SendKept \in Nat /\ SendKept' \in Nat
      <3>1. SendKept \in Nat
        BY <1>3, <2>2, KeptType
      <3>2. TypeOK'
        BY <2>1 DEF SocketInv, OwnInv, TypeInv
      <3>3. SendKept' \in Nat
        BY <2>1, <3>2, KeptTypeNext
      <3> QED
        BY <3>1, <3>3
    <2>4. CASE LinkApp
      <3>1. snd_nxt <= snd_nxt' /\ rcv' = rcv /\ SendKept' = SendKept
        BY <1>3, <2>1, <2>4, AppBuilds, AppKept DEF LinkInv, Underway, LinkApp, peer
      <3> QED
        BY <1>3, <2>1, <2>2, <2>3, <3>1, OutSteps
    <2>5. CASE LinkTimer
      <3>1. snd_nxt <= snd_nxt' /\ rcv' = rcv /\ SendKept' = SendKept
        BY <1>3, <2>1, <2>2, <2>5, TimerKept DEF LinkTimer, peer
      <3> QED
        BY <1>3, <2>1, <2>2, <2>3, <3>1, OutSteps
    <2>6. CASE Deliver
      <3>1. PICK seg \in toDev : ParseRx(seg)
        BY <2>6 DEF Deliver
      <3>2. seg \in AnySegment /\ rcv' = rcv /\ snd_nxt' = snd_nxt
        BY <2>6, <3>1 DEF LinkInv, LinkType, ParseRx, Deliver, peer
      <3>3. PICK k : Keeps(k)
        BY <2>2, <3>1, <3>2, ParseRxKeeps
      <3>4. txq' \in Seq(Item)
        BY <2>1 DEF SocketInv, OwnInv, TypeInv, TypeOK
      <3>5. SendKept <= SendKept'
        BY <1>3, <2>1, <2>2, <3>2, <3>3, <3>4, KeepsKept
      <3>6. SendKept' <= rcv
        BY <2>1, <2>2, <3>2, KeptOpenNext DEF NothingLost
      <3> QED
        BY <1>3, <2>1, <2>2, <2>3, <3>2, <3>5, <3>6, OutSteps
    <2>7. CASE PeerReceive
      <3>1. UNCHANGED <<snd_nxt, txq, mem>>
        BY <2>7 DEF PeerReceive, Quiet, conn
      <3>2. SendKept' = SendKept
        BY <2>1, <3>1, SameKept
      <3>3. rcv <= rcv' /\ rcv' <= snd_nxt
        <4>1. PICK seg \in toPeer :
                 \/ /\ "RST" \notin seg.flags
                    /\ rcv' = IF seg.seq # rcv THEN rcv
                              ELSE rcv + seg.len + One(hasFlag(seg, "SYN")
                                                       \/ hasFlag(seg, "FIN"))
                 \/ UNCHANGED rcv
          BY <2>7 DEF PeerReceive, hasFlag
        <4> QED
          BY <2>2, <4>1, PeerTakes
      <3> QED
        BY <1>3, <2>1, <2>2, <2>3, <3>1, <3>2, <3>3, OutSteps
    <2>8. CASE PeerSyn \/ PeerSend
      <3>1. UNCHANGED <<snd_nxt, txq, mem, rcv>>
        BY <2>8, PutLeaves
      <3>2. SendKept' = SendKept
        BY <2>1, <3>1, SameKept
      <3> QED
        BY <1>3, <2>1, <2>2, <2>3, <3>1, <3>2, OutSteps
    <2> QED
      BY <1>3, <2>1, <2>4, <2>5, <2>6, <2>7, <2>8 DEF LinkNext, Listen, Refuse
  <1>4. opened \in BOOLEAN
    BY DEF LinkInv, LinkType
  <1> QED
    BY <1>1, <1>2, <1>3, <1>4

-----------------------------------------------------------------------------
(* The peer's stream *)

(* What is under way to the socket ends at or before the peer's next number. *)
PeerSent == \A seg \in toDev : SegmentEnd(seg) <= nxt

(* A segment's end.                                                        *)
LEMMA AnySegmentEnd ==
  ASSUME NEW seg \in AnySegment
  PROVE  /\ SegmentEnd(seg) \in Nat
         /\ SegmentEnd(seg) = seg.seq + seg.len + One("SYN" \in seg.flags
                                                      \/ "FIN" \in seg.flags)
  BY AnySegmentFields DEF SegmentEnd, hasFlag, One

(* The peer's next number grows, and with it what may be under way.        *)
LEMMA PutSent ==
  ASSUME LinkInv, PeerSent, NEW seg \in AnySegment, NEW next \in Nat,
         PeerPut(seg, next), SegmentEnd(seg) <= next
  PROVE  PeerSent' /\ nxt' \in Nat /\ nxt <= nxt'
  <1>1. nxt \in Nat /\ \A s \in toDev : s \in AnySegment
    BY DEF LinkInv, LinkType
  <1>2. nxt' = (IF next > nxt THEN next ELSE nxt) /\ toDev' = toDev \cup {seg}
    BY DEF PeerPut
  <1>3. nxt' \in Nat /\ nxt <= nxt' /\ next <= nxt'
    BY <1>1, <1>2
  <1>4. ASSUME NEW s \in toDev' PROVE SegmentEnd(s) <= nxt'
    <2>1. SegmentEnd(s) \in Nat
      BY <1>1, <1>2, AnySegmentEnd
    <2>2. SegmentEnd(s) <= nxt \/ SegmentEnd(s) <= next
      BY <1>2 DEF PeerSent
    <2> QED
      BY <1>1, <1>3, <2>1, <2>2
  <1> QED
    BY <1>3, <1>4 DEF PeerSent

LEMMA PeerSendsSent ==
  ASSUME LinkInv, PeerSent, PeerSyn \/ PeerSend
  PROVE  PeerSent' /\ nxt' \in Nat /\ nxt <= nxt'
  <1>1. rcv \in Nat /\ una \in Nat /\ nxt \in Nat
        /\ PeerWindow \in 0 .. WinMod - 1 /\ PeerBytes \in Nat
    BY LinkAssumption DEF LinkInv, LinkType
  <1>2. CASE PeerSyn
    <2> DEFINE s == [BlankSegment EXCEPT !.flags = {"SYN"}, !.wnd = PeerWindow]
    <2>1. s \in AnySegment /\ s.flags = {"SYN"} /\ s.seq = 0 /\ s.len = 0
      BY <1>1, BuiltSegments
    <2>2. PeerPut(s, 1)
      BY <1>2 DEF PeerSyn
    <2> HIDE DEF s
    <2>3. SegmentEnd(s) <= 1
      BY <2>1, AnySegmentEnd DEF One
    <2> QED
      BY <2>1, <2>2, <2>3, PutSent
  <1>3. CASE PeerSend
    <2>1. PICK seq \in {una, nxt}, len \in 0 .. PeerBytes, fin \in BOOLEAN :
            PeerPut(PeerSegment(seq, len, fin), seq + len + One(fin))
      BY <1>3 DEF PeerSend
    <2> DEFINE s == PeerSegment(seq, len, fin)
               n == seq + len + One(fin)
    <2>2. seq \in Nat /\ len \in Nat /\ n \in Nat
      BY <1>1 DEF One
    <2>3. /\ s.flags = {"ACK"} \cup (IF fin THEN {"FIN"} ELSE {})
          /\ s.seq = seq /\ s.len = len
      BY DEF PeerSegment
    <2>4. s \in AnySegment
      BY <1>1, <2>2 DEF AnySegment, Flag, PeerSegment
    <2>5. SegmentEnd(s) <= n
      <3> HIDE DEF s
      <3>1. ("SYN" \in s.flags \/ "FIN" \in s.flags) <=> fin
        BY <2>3
      <3>2. SegmentEnd(s) = seq + len + One(fin)
        BY <2>3, <2>4, <3>1, AnySegmentEnd DEF One
      <3> QED
        BY <2>2, <3>2
    <2>6. PeerPut(s, n)
      BY <2>1
    <2> HIDE DEF s, n
    <2> QED
      BY <2>2, <2>4, <2>5, <2>6, PutSent
  <1> QED
    BY <1>2, <1>3

LEMMA PeerSentStep ==
  ASSUME LinkInv, PeerSent, [LinkNext]_linkVars
  PROVE  PeerSent'
  <1>1. CASE PeerSyn \/ PeerSend
    BY <1>1, PeerSendsSent
  <1>2. CASE toDev' \subseteq toDev /\ nxt' = nxt
    BY <1>2 DEF PeerSent
  <1>3. CASE LinkApp \/ LinkTimer \/ Listen \/ Deliver
    BY <1>2, <1>3 DEF LinkApp, LinkTimer, Listen, Deliver, peer
  <1>4. CASE Refuse \/ PeerReceive \/ UNCHANGED linkVars
    BY <1>2, <1>4, Zenon DEF Refuse, PeerReceive, linkVars, net, peer
  <1> QED
    BY <1>1, <1>3, <1>4 DEF LinkNext

(* What is acknowledged anew was in the segment that has just arrived.     *)
LEMMA EstablishedWithin ==
  ASSUME SocketInv, NEW seg \in AnySegment, RxEstablished(seg)
  PROVE  rcv_nxt' = rcv_nxt \/ rcv_nxt' <= SegmentEnd(seg)
  <1> DEFINE fits == isNewPacket(seg) /\ seg.len > 0 /\ getSpace(rxlen) >= seg.len
             fin  == isNewPacket(seg) /\ hasFlag(seg, "FIN")
             took == IF fits THEN seg.len ELSE 0
             ends == "SYN" \in seg.flags \/ "FIN" \in seg.flags
  <1>1. rcv_nxt' = rcv_nxt + took + One(fin)
    BY DEF RxEstablished
  <1>2. seg.len \in Nat /\ seg.seq \in Nat /\ rcv_nxt \in Nat
        /\ SegmentEnd(seg) = seg.seq + seg.len + One(ends)
    BY SocketTypes, AnySegmentFields, AnySegmentEnd
  <1>3. CASE isNewPacket(seg)
    <2>1. seg.seq = rcv_nxt
      BY <1>3 DEF isNewPacket
    <2>2. took \in Nat /\ took <= seg.len
      BY <1>2
    <2>3. One(fin) \in Nat /\ One(ends) \in Nat /\ One(fin) <= One(ends)
      BY DEF One, hasFlag
    <2> HIDE DEF took, fin, ends
    <2> QED
      BY <1>1, <1>2, <2>1, <2>2, <2>3
  <1>4. CASE ~isNewPacket(seg)
    <2>1. took = 0 /\ One(fin) = 0
      BY <1>4 DEF One
    <2> HIDE DEF took, fin
    <2> QED
      BY <1>1, <1>2, <2>1
  <1> QED
    BY <1>3, <1>4

(* The steps of the peer's stream.                                         *)
LEMMA InSteps ==
  ASSUME Receiving, Receiving', opened, opened', Counted, Counted',
         una \in Nat, una' \in Nat, nxt \in Nat, nxt' \in Nat,
         rcv_nxt \in Nat, rcv_nxt' \in Nat,
         \/ nxt <= nxt' /\ UNCHANGED <<una, rcv_nxt>>
         \/ rcv_nxt <= rcv_nxt' /\ rcv_nxt' <= nxt /\ UNCHANGED <<una, nxt>>
         \/ una <= una' /\ una' <= rcv_nxt /\ UNCHANGED <<nxt, rcv_nxt>>
  PROVE  [In!StreamNext]_(In!streamVars)
  <1>1. Receiving = TRUE /\ Receiving' = TRUE
    BY DEF Receiving
  <1>2. rcv_nxt = 1 + got + One(state = "CLOSE_WAIT")
    BY DEF Receiving, Counted, ReceivingStates
  <1>3. rcv_nxt' = 1 + got' + One(state' = "CLOSE_WAIT")
    BY DEF Receiving, Counted, ReceivingStates
  <1> QED
    BY <1>1, <1>2, <1>3 DEF In!StreamNext, In!streamVars, In!Send, In!Take, In!Forget

LEMMA InGivesUp ==
  ASSUME ~Receiving'
  PROVE  [In!StreamNext]_(In!streamVars)
  <1>1. Receiving \in BOOLEAN /\ Receiving' = FALSE
    BY DEF Receiving
  <1> QED
    BY <1>1 DEF In!StreamNext, In!streamVars, In!GiveUp, In!AtFirst

(* A connection that has given up receiving does not receive again.        *)
LEMMA ReceivingEnds ==
  ASSUME LinkInv, LinkNext, ~Receiving
  PROVE  ~Receiving'
  <1>1. /\ opened
        /\ state \notin ReceivingStates \/ (state = "CLOSE_WAIT" /\ cut # 0)
    BY DEF Receiving, ReceivingStates, LinkInv, EofInv
  <1>2. CASE LinkApp
    BY <1>1, <1>2, LinkAppConn DEF LinkApp, Receiving, ReceivingStates
  <1>3. CASE LinkTimer
    BY <1>1, <1>3, LinkTimerConn DEF LinkTimer, Receiving, ReceivingStates
  <1>4. CASE Listen
    BY <1>1, <1>4 DEF Listen
  <1>5. CASE Deliver
    <2>1. PICK seg \in toDev : ParseRx(seg)
      BY <1>5 DEF Deliver
    <2>2. seg \in AnySegment /\ FromPeer(seg) /\ SocketInv /\ Passive
      BY DEF LinkInv, LinkType, Underway
    <2>3. RxByState(seg)
      BY <2>1, <2>2 DEF ParseRx, FromPeer, hasFlag
    <2>4. \/ state' \in CloseStates \cup {"LAST_ACK"}
          \/ state = "CLOSE_WAIT" /\ state' = "CLOSE_WAIT" /\ cut # 0
      BY <1>1, <2>2, <2>3, ByStateTakes DEF ReceivingStates, CloseStates
    <2>5. state = "CLOSE_WAIT" => cut' = cut
      BY <1>5 DEF Deliver
    <2> QED
      BY <1>1, <1>5, <2>4, <2>5 DEF Deliver, Receiving, CloseStates
  <1>6. CASE Refuse \/ PeerReceive
    <2>1. UNCHANGED <<state, opened, cut>>
      BY <1>6, Zenon DEF Refuse, PeerReceive, Quiet, conn
    <2> QED
      BY <1>1, <2>1 DEF Receiving, ReceivingStates
  <1>7. CASE PeerSyn \/ PeerSend
    BY <1>1, <1>7, PutLeaves DEF Receiving, ReceivingStates
  <1> QED
    BY <1>2, <1>3, <1>4, <1>5, <1>6, <1>7 DEF LinkNext

(* Every step of the link is a step of the peer's stream, or leaves it     *)
(* alone.                                                                  *)
LEMMA InNext ==
  ASSUME LinkInv, LinkInv', PeerSent, LinkNext
  PROVE  [In!StreamNext]_(In!streamVars)
  <1>1. CASE ~Receiving'
    BY <1>1, InGivesUp
  <1>2. CASE Receiving' /\ ~opened
    <2>1. ~LinkApp /\ ~LinkTimer /\ ~Deliver /\ ~Refuse /\ ~PeerReceive
      BY <1>2, NothingBeforeOpen
      DEF LinkInv, BeforeOpen, Deliver, Refuse, PeerReceive
    <2>2. /\ Receiving = TRUE /\ Receiving' = TRUE /\ una = 0 /\ nxt \in Nat
          /\ opened \in BOOLEAN /\ opened' \in BOOLEAN
      BY <1>2 DEF LinkInv, LinkType, BeforeOpen, Receiving
    <2>3. CASE Listen
      <3>1. PICK seg \in toDev : hasFlag(seg, "SYN") /\ ListenSyn(seg.seq + 1)
        BY <2>3 DEF Listen
      <3>2. opened' /\ state' = "SYN_RCVD" /\ UNCHANGED <<una, nxt, got>> /\ got = 0
        BY <1>2, <2>3, <3>1 DEF Listen, ListenSyn, Open, peer, LinkInv, BeforeOpen
      <3>3. 1 <= nxt
        <4>1. seg \in AnySegment /\ SegmentEnd(seg) <= nxt
          BY DEF LinkInv, LinkType, PeerSent
        <4>2. SegmentEnd(seg) = seg.seq + seg.len + 1 /\ seg.seq \in Nat /\ seg.len \in Nat
          BY <3>1, <4>1, AnySegmentEnd, AnySegmentFields DEF hasFlag, One
        <4> QED
          BY <2>2, <4>1, <4>2
      <3>4. 1 + got' + One(state' = "CLOSE_WAIT") = 1
        BY <3>2 DEF One
      <3> QED
        BY <1>2, <2>2, <3>2, <3>3, <3>4 DEF In!StreamNext, In!Take
    <2>4. CASE PeerSyn \/ PeerSend
      <3>1. ~opened' /\ una' = una
        BY <1>2, <2>4, PutLeaves
      <3>2. nxt' \in Nat /\ nxt <= nxt'
        BY <2>4, PeerSendsSent
      <3> QED
        BY <1>2, <2>2, <3>1, <3>2 DEF In!StreamNext, In!streamVars, In!Send
    <2> QED
      BY <2>1, <2>3, <2>4 DEF LinkNext
  <1>3. CASE Receiving' /\ opened
    <2>1. Receiving /\ UNCHANGED opened
      <3>1. Receiving
        BY <1>3, ReceivingEnds
      <3>2. opened' = opened
        BY <1>3 DEF LinkNext, LinkApp, LinkTimer, Listen, Deliver, Refuse, PeerSyn,
           PeerSend, PeerPut, PeerReceive
      <3> QED
        BY <3>1, <3>2
    <2>2. /\ una \in Nat /\ una' \in Nat /\ nxt \in Nat /\ nxt' \in Nat
          /\ rcv_nxt \in Nat /\ rcv_nxt' \in Nat /\ Counted /\ Counted'
          /\ state \in ReceivingStates /\ state' \in ReceivingStates
      BY <1>3, <2>1 DEF LinkInv, LinkType, SocketInv, OwnInv, TypeInv, TypeOK, Receiving,
         ReceivingStates
    <2>3. CASE UNCHANGED <<una, nxt, rcv_nxt>>
      BY <1>3, <2>1, <2>2, <2>3, InSteps
    <2>4. CASE LinkApp \/ LinkTimer
      BY <2>3, <2>4, LinkAppConn, LinkTimerConn DEF LinkApp, LinkTimer, peer
    <2>5. CASE Deliver
      <3>1. PICK seg \in toDev :
              /\ ParseRx(seg)
              /\ cut' = IF state # "CLOSE_WAIT" /\ state' = "CLOSE_WAIT"
                        THEN seg.len - (rxlen' - rxlen) ELSE cut
        BY <2>5 DEF Deliver
      <3>2. /\ seg \in AnySegment /\ FromPeer(seg) /\ SocketInv /\ Passive
            /\ SegmentEnd(seg) <= nxt /\ UNCHANGED <<una, nxt>>
        BY <2>5 DEF LinkInv, LinkType, Underway, PeerSent, Deliver, peer
      <3>3. RxByState(seg)
        BY <3>1, <3>2 DEF ParseRx, FromPeer, hasFlag
      <3>4. CASE RxEstablished(seg)
        <4>1. rcv_nxt' = rcv_nxt \/ rcv_nxt' <= SegmentEnd(seg)
          BY <3>2, <3>4, EstablishedWithin
        <4>2. rcv_nxt <= rcv_nxt'
          BY <2>5, <3>1, <3>2, DeliverTakes DEF LinkInv, Deliver
        <4>3. SegmentEnd(seg) \in Nat
          BY <3>2, AnySegmentEnd
        <4>4. rcv_nxt' = rcv_nxt \/ rcv_nxt' <= nxt
          BY <2>2, <3>2, <4>1, <4>3
        <4> QED
          BY <1>3, <2>1, <2>2, <2>3, <3>2, <4>2, <4>4, InSteps
      <3>5. CASE UNCHANGED rcv_nxt
        BY <2>3, <3>2, <3>5
      <3> QED
        BY <2>2, <3>2, <3>3, <3>4, <3>5, ByStateTakes DEF ReceivingStates, CloseStates
    <2>6. CASE PeerReceive
      <3>1. UNCHANGED <<rcv_nxt, nxt>>
        BY <2>6 DEF PeerReceive, Quiet, conn
      <3>2. una <= una' /\ una' <= rcv_nxt
        <4>1. una' = una \/ una' \in una .. nxt
          BY <2>6, Zenon DEF PeerReceive
        <4>2. una <= una'
          BY <2>2, <4>1
        <4>3. una' <= rcv_nxt'
          BY DEF LinkInv, Behind
        <4> QED
          BY <3>1, <4>2, <4>3
      <3> QED
        BY <1>3, <2>1, <2>2, <3>1, <3>2, InSteps
    <2>7. CASE PeerSyn \/ PeerSend
      <3>1. UNCHANGED <<una, rcv_nxt>>
        BY <2>7, PutLeaves
      <3>2. nxt <= nxt'
        BY <2>7, PeerSendsSent
      <3> QED
        BY <1>3, <2>1, <2>2, <3>1, <3>2, InSteps
    <2>8. ~Listen /\ ~Refuse
      BY <1>3, <2>2 DEF Listen, Refuse, ReceivingStates
    <2> QED
      BY <2>4, <2>5, <2>6, <2>7, <2>8 DEF LinkNext
  <1>4. opened \in BOOLEAN
    BY DEF LinkInv, LinkType
  <1> QED
    BY <1>1, <1>2, <1>3, <1>4

-----------------------------------------------------------------------------
(* Results *)

(* Nothing is dropped from the retransmission queue before the peer has    *)
(* it, whatever the network loses, repeats or reorders: parseRx takes off  *)
(* the packets up to the one an acknowledgement completes, and the peer    *)
(* acknowledges only what it has.                                          *)
THEOREM NothingIsLost == LinkSpec => []NothingLost
  <1>1. LinkInv => NothingLost
    BY DEF LinkInv
  <1> QED
    BY <1>1, LinkInvariant, PTL

(* The socket's own half of the connection is a stream, whatever the       *)
(* network loses, repeats or reorders: what it has sent it keeps until the *)
(* peer has it, and the peer takes it once and in order.                   *)
THEOREM SocketKeepsItsStream == LinkSpec => SendStream
  <1>1. LinkInit => Out!StreamInit
    BY DEF LinkInit, Init, Out!StreamInit, Out!AtFirst, Sending, SendKept
  <1>2. LinkInv /\ LinkInv' /\ [LinkNext]_linkVars => [Out!StreamNext]_(Out!streamVars)
    <2> SUFFICES ASSUME LinkInv, LinkInv', [LinkNext]_linkVars
                 PROVE  [Out!StreamNext]_(Out!streamVars)
      OBVIOUS
    <2>1. CASE LinkNext
      BY <2>1, OutNext
    <2>2. CASE UNCHANGED linkVars
      BY <2>2 DEF linkVars, vars, conn, net, peer, Out!streamVars, Sending, SendKept
    <2> QED
      BY <2>1, <2>2
  <1> QED
    BY <1>1, <1>2, LinkInvariant, PTL DEF LinkSpec, SendStream, Out!StreamSpec

(* The peer's half is one too, counted by what addRecvData has put into    *)
(* the receive buffer: the peer may forget only what has been put there,   *)
(* and what is put there is what the peer sent, once and in order.         *)
THEOREM SocketTakesTheStream == LinkSpec => ReceiveStream
  <1>1. LinkInit => In!StreamInit /\ PeerSent
    BY DEF LinkInit, In!StreamInit, In!AtFirst, Receiving, PeerSent
  <1>2. LinkInv /\ PeerSent /\ [LinkNext]_linkVars => PeerSent'
    BY PeerSentStep
  <1>3. LinkInv /\ LinkInv' /\ PeerSent /\ [LinkNext]_linkVars
          => [In!StreamNext]_(In!streamVars)
    <2> SUFFICES ASSUME LinkInv, LinkInv', PeerSent, [LinkNext]_linkVars
                 PROVE  [In!StreamNext]_(In!streamVars)
      OBVIOUS
    <2>1. CASE LinkNext
      BY <2>1, InNext
    <2>2. CASE UNCHANGED linkVars
      BY <2>2 DEF linkVars, vars, conn, net, peer, In!streamVars, Receiving
    <2> QED
      BY <2>1, <2>2
  <1> QED
    BY <1>1, <1>2, <1>3, LinkInvariant, PTL DEF LinkSpec, ReceiveStream, In!StreamSpec

(* What the peer may forget has been put into the receive buffer: parseRx  *)
(* acknowledges what addRecvData took, and a retransmission, whose header  *)
(* updateTxAck rewrites, acknowledges no more.                             *)
THEOREM AckedBytesTaken == LinkSpec => []AckedIsTaken
  <1>1. LinkInv => AckedIsTaken
    BY DEF LinkInv, AckedIsTaken, Counted, ReceivingStates, Behind
  <1> QED
    BY <1>1, LinkInvariant, PTL

(* When the end of the stream is reported, all of the stream has been      *)
(* taken, but for what parseRx cut off with the FIN: at most the data of   *)
(* the FIN's own segment, whatever the network did before.                 *)
THEOREM EofIsComplete == LinkSpec => []EofComplete
  <1>1. LinkInv => EofComplete
    BY DEF LinkInv, EofInv
  <1> QED
    BY <1>1, LinkInvariant, PTL

(* On one connection nothing goes astray, wherever the uip task blocks:    *)
(* the queue is gapless and the receive buffer keeps its bounds without    *)
(* exception, because nothing opens the socket again.                      *)
THEOREM OneConnectionSafe ==
  LinkSpec => [](~stray /\ ~emptied /\ SendGapless /\ ReceiveBound /\ BufferOwnership)
  <1>1. LinkInv => ~stray /\ ~emptied /\ SendGapless /\ ReceiveBound /\ BufferOwnership
    BY DEF LinkInv, SocketInv, OpenedOnce, RxInv, OwnInv
  <1> QED
    BY <1>1, LinkInvariant, PTL
=============================================================================
