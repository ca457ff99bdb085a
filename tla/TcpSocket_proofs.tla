-------------------------- MODULE TcpSocket_proofs --------------------------
(* Proofs about TcpSocket, for every size of the queue, of the buffer pool *)
(* and of the receive buffer, and for every environment.                   *)
EXTENDS TcpSocket, SequenceTheorems, WellFoundedInduction, TLAPS

-----------------------------------------------------------------------------
(* The steps of the two tasks in every environment: any segment may arrive *)
(* and any SYN may be taken from a listener.  The lemmas about steps are   *)
(* stated for these, so that a composition with a particular peer can use  *)
(* them as well.                                                           *)

AnySegment == [flags : SUBSET Flag, seq : Nat, ack : Nat, len : Nat,
               wnd : 0 .. WinMod - 1]

AppStep == App \/ \E rcv \in Nat : ListenSyn(rcv)

UipStep == Uip \/ \E seg \in AnySegment : ParseRx(seg)

(* The environment of TcpSocket is one of them.                            *)
LEMMA StepsOfNext == Next => AppStep \/ UipStep
  BY DEF Next, AppStep, UipStep

(* The fields of a segment that arrives.                                   *)
LEMMA AnySegmentFields ==
  \A seg \in AnySegment : /\ seg.flags \in SUBSET Flag
                          /\ seg.seq \in Nat /\ seg.ack \in Nat
                          /\ seg.len \in Nat /\ seg.wnd \in 0 .. WinMod - 1
  BY DEF AnySegment

LEMMA InSegmentAny == InSegment \subseteq AnySegment /\ PeerSeq \subseteq Nat
  BY SocketAssumption DEF AnySegment

-----------------------------------------------------------------------------
(* Helpers *)

(* A non-empty set of naturals has a least element. *)
LEMMA LeastNat ==
  ASSUME NEW T \in SUBSET Nat, T # {}
  PROVE  \E x \in T : \A y \in T : x <= y
  <1> DEFINE R == OpToRel(<, Nat)
  <1>1. PICK x \in T : \A y \in T : ~(<<y, x>> \in R)
    <2> HIDE DEF R
    <2>1. IsWellFoundedOn(R, Nat)
      BY NatLessThanWellFounded DEF R
    <2> QED
      BY <2>1, WFMin
  <1>2. \A y \in T : y < x => <<y, x>> \in R
    BY DEF OpToRel
  <1> HIDE DEF R
  <1>3. \A y \in T : ~(y < x)
    BY <1>1, <1>2
  <1>4. \A y \in T : x <= y
    BY <1>3
  <1> QED
    BY <1>4

(* 16-bit arithmetic stays in range. *)
LEMMA U16Range == \A n \in Int : u16(n) \in 0 .. WinMod - 1
  BY SocketAssumption DEF u16

(* A header built by setTxPacket is a segment. *)
LEMMA PacketType ==
  ASSUME NEW f \in SUBSET Flag, NEW s \in Nat, NEW a \in Nat, NEW l \in Nat,
         NEW r \in Nat
  PROVE  setTxPacket(f, s, a, l, r) \in Segment
  <1>1. getSpace(r) \in Nat
    BY U16Range, SocketAssumption DEF getSpace
  <1> QED
    BY <1>1 DEF setTxPacket, Segment

(* An acknowledgement number points at a packet of the queue, or at 0 when *)
(* no packet waits for it.                                                 *)
LEMMA AckIndexRange ==
  ASSUME NEW a, txq \in Seq(Item)
  PROVE  /\ AckIndex(a) \in 0 .. Len(txq)
         /\ AckIndex(a) = 0 => \A i \in 1 .. Len(txq) : txq[i].ack # a
         /\ AckIndex(a) # 0 => txq[AckIndex(a)].ack = a
  <1>1. Len(txq) \in Nat
    BY LenProperties
  <1>2. CASE \E i \in 1 .. Len(txq) : txq[i].ack = a
    <2> DEFINE T == {i \in 1 .. Len(txq) : txq[i].ack = a}
    <2>1. T \in SUBSET Nat /\ T # {}
      BY <1>1, <1>2
    <2>2. PICK x \in T : \A y \in T : x <= y
      BY <2>1, LeastNat
    <2>3. /\ x \in 1 .. Len(txq)
          /\ txq[x].ack = a
          /\ \A j \in 1 .. x - 1 : txq[j].ack # a
      BY <1>1, <2>2
    <2>4. AckIndex(a) \in 1 .. Len(txq) /\ txq[AckIndex(a)].ack = a
      BY <1>2, <2>3 DEF AckIndex
    <2> QED
      BY <1>1, <2>4
  <1>3. CASE ~\E i \in 1 .. Len(txq) : txq[i].ack = a
    BY <1>1, <1>3 DEF AckIndex
  <1> QED
    BY <1>2, <1>3

(* What is left of the queue when its first k packets are taken off. *)
LEMMA TakeOff ==
  ASSUME NEW q \in Seq(Item), NEW k \in 0 .. Len(q)
  PROVE  LET r == SubSeq(q, k + 1, Len(q))
         IN /\ r \in Seq(Item)
            /\ Len(r) = Len(q) - k
            /\ \A i \in 1 .. Len(r) : r[i] = q[i + k]
  <1>1. Len(q) \in Nat /\ \A i \in k + 1 .. Len(q) : q[i] \in Item
    BY ElementOfSeq, LenProperties
  <1>2. /\ SubSeq(q, k + 1, Len(q)) \in Seq(Item)
        /\ Len(SubSeq(q, k + 1, Len(q)))
             = IF k + 1 <= Len(q) THEN Len(q) - (k + 1) + 1 ELSE 0
        /\ \A i \in 1 .. Len(q) - (k + 1) + 1 :
             SubSeq(q, k + 1, Len(q))[i] = q[(k + 1) + i - 1]
    BY <1>1, SubSeqProperties
  <1> QED
    BY <1>1, <1>2

(* The buffers of queued packets are buffers. *)
LEMMA PacketsType ==
  ASSUME txq \in Seq(Item), NEW n \in 0 .. Len(txq)
  PROVE  Packets(n) \subseteq Bufs
  <1>1. \A i \in 1 .. n : txq[i] \in Item
    BY ElementOfSeq, LenProperties
  <1> QED
    BY <1>1 DEF Packets, Item

-----------------------------------------------------------------------------
(* Type correctness *)

(* parseRx changes the connection within its types. *)
LEMMA RxByStateType ==
  ASSUME TypeOK, NEW seg \in AnySegment, RxByState(seg)
  PROVE  /\ state' \in State /\ rcv_nxt' \in Nat
         /\ rxlen' \in 0 .. WinMod - 1
  <1>1. seg.len \in Nat /\ seg.seq \in Nat
    BY AnySegmentFields
  <1>2. \A f : One(f) \in {0, 1}
    BY DEF One
  <1>3. ASSUME RxEstablished(seg)
        PROVE  /\ state' \in State /\ rcv_nxt' \in Nat
               /\ rxlen' \in 0 .. WinMod - 1
    <2>1. PICK took \in Nat, fin \in {0, 1} :
            rxlen' = u16(rxlen + took) /\ rcv_nxt' = rcv_nxt + took + fin
      BY <1>1, <1>2, <1>3 DEF RxEstablished
    <2>2. rxlen' \in 0 .. WinMod - 1 /\ rcv_nxt' \in Nat
      BY <2>1, U16Range, SocketAssumption DEF TypeOK
    <2> QED
      BY <1>3, <2>2 DEF RxEstablished, State
  <1>4. ASSUME RxSynRcvd(seg)
        PROVE  /\ state' \in State /\ rcv_nxt' \in Nat
               /\ rxlen' \in 0 .. WinMod - 1
    BY <1>3, <1>4 DEF RxSynRcvd, TypeOK, State
  <1>5. ASSUME RxFinWait1(seg)
        PROVE  /\ state' \in State /\ rcv_nxt' \in Nat
               /\ rxlen' \in 0 .. WinMod - 1
    BY <1>1, <1>2, <1>5 DEF RxFinWait1, TypeOK, State
  <1>6. ASSUME RxFinWait2(seg)
        PROVE  /\ state' \in State /\ rcv_nxt' \in Nat
               /\ rxlen' \in 0 .. WinMod - 1
    BY <1>2, <1>6 DEF RxFinWait2, TypeOK, State
  <1>7. ASSUME RxSynSent(seg)
        PROVE  /\ state' \in State /\ rcv_nxt' \in Nat
               /\ rxlen' \in 0 .. WinMod - 1
    BY <1>1, <1>7 DEF RxSynSent, TypeOK, State
  <1>8. ASSUME NEW st \in State, RxAwaitAck(seg, st)
        PROVE  /\ state' \in State /\ rcv_nxt' \in Nat
               /\ rxlen' \in 0 .. WinMod - 1
    BY <1>8 DEF RxAwaitAck, TypeOK
  <1>9. "CLOSED" \in State /\ "TIME_WAIT" \in State
    BY DEF State
  <1> QED
    BY <1>3, <1>4, <1>5, <1>6, <1>7, <1>8, <1>9 DEF RxByState, TypeOK

(* The queue after parseRx has taken acknowledged packets off. *)
LEMMA AckedQueue ==
  ASSUME TypeOK, NEW seg \in AnySegment
  PROVE  /\ AckedPackets(seg) \in 0 .. Len(txq)
         /\ LET r == SubSeq(txq, AckedPackets(seg) + 1, Len(txq))
            IN /\ r \in Seq(Item)
               /\ Len(r) = Len(txq) - AckedPackets(seg)
               /\ \A i \in 1 .. Len(r) : r[i] = txq[i + AckedPackets(seg)]
  <1>1. txq \in Seq(Item) /\ Len(txq) \in Nat
    BY LenProperties DEF TypeOK
  <1>2. AckedPackets(seg) \in 0 .. Len(txq)
    BY <1>1, AckIndexRange DEF AckedPackets
  <1> QED
    BY <1>1, <1>2, TakeOff

LEMMA ParseRxType ==
  ASSUME TypeOK, NEW seg \in AnySegment, ParseRx(seg)
  PROVE  TypeOK'
  <1>1. txq \in Seq(Item) /\ Len(txq) \in Nat
    BY LenProperties DEF TypeOK
  <1>2. CASE hasFlag(seg, "RST")
    <2>1. /\ state' = "CLOSED" /\ out' = {}
          /\ UNCHANGED <<rcv_nxt, peer_win, rxlen, txq, mem, upc, udl,
                         snd_nxt, free, appVars, running, used, hist>>
      BY <1>2 DEF ParseRx
    <2> QED
      BY <2>1 DEF TypeOK, State, appVars, hist
  <1>3. CASE ~hasFlag(seg, "RST")
    <2> DEFINE k == AckedPackets(seg)
    <2>1. /\ RxByState(seg) /\ peer_win' = seg.wnd
          /\ txq' = SubSeq(txq, k + 1, Len(txq))
          /\ udl' = Packets(k)
          /\ upc' = IF udl' = {} THEN "idle" ELSE "release"
          /\ updateTxAck(seg) /\ out' = PureAck(seg)
          /\ UNCHANGED <<snd_nxt, free, appVars, running, used, hist>>
      BY <1>3 DEF ParseRx
    <2>2. /\ state' \in State /\ rcv_nxt' \in Nat
          /\ rxlen' \in 0 .. WinMod - 1
      BY <2>1, RxByStateType
    <2>3. seg.wnd \in 0 .. WinMod - 1
      BY AnySegmentFields
    <2>4. txq' \in Seq(Item) /\ Len(txq') < NUMBER_OF_TXQ /\ udl' \subseteq Bufs
      <3>1. /\ k \in 0 .. Len(txq)
            /\ txq' \in Seq(Item)
            /\ Len(txq') = Len(txq) - k
        BY <2>1, AckedQueue
      <3> QED
        BY <1>1, <2>1, <3>1, PacketsType, SocketAssumption DEF TypeOK
    <2>5. mem' \in [Bufs -> Segment]
      <3>1. \A b \in Bufs : [mem[b] EXCEPT !.ack = rcv_nxt'] \in Segment
        BY <2>2 DEF TypeOK, Segment
      <3> QED
        BY <2>1, <3>1 DEF updateTxAck, TypeOK
    <2>6. out' \subseteq Segment
      <3>1. snd_nxt \in Nat /\ rxlen' \in Nat /\ rcv_nxt' \in Nat
        BY <2>2, SocketAssumption DEF TypeOK
      <3>2. setTxPacket({"ACK"}, snd_nxt, rcv_nxt', 0, rxlen') \in Segment
        BY <3>1, PacketType DEF Flag
      <3> QED
        BY <2>1, <3>2 DEF PureAck
    <2> QED
      BY <2>1, <2>2, <2>3, <2>4, <2>5, <2>6 DEF TypeOK, appVars, hist, UipPC
  <1> QED
    BY <1>2, <1>3

(* A packet that is queued keeps the queue and the buffers well typed. *)
LEMMA EnqueueType ==
  ASSUME TypeOK, abuf \in Bufs,
         NEW f \in SUBSET Flag, NEW len \in Nat, NEW a \in Nat, NEW pc,
         Enqueue(f, len, a, pc)
  PROVE  /\ txq' \in Seq(Item) /\ Len(txq') < NUMBER_OF_TXQ
         /\ mem' \in [Bufs -> Segment] /\ snd_nxt' \in Nat /\ apc' = pc
         /\ Len(txq') = Len(txq) + 1
         /\ \A i \in 1 .. Len(txq) : txq'[i] = txq[i]
         /\ txq'[Len(txq')].ack = a /\ txq'[Len(txq')].packet = abuf
  <1>1. PICK r \in InitialRto :
          txq' = Append(txq, [ack |-> a, packet |-> abuf, rto |-> r])
    BY DEF Enqueue
  <1>2. [ack |-> a, packet |-> abuf, rto |-> r] \in Item
    BY SocketAssumption DEF Item
  <1>3. txq \in Seq(Item) /\ Len(txq) \in Nat /\ Len(txq) < NUMBER_OF_TXQ
    BY LenProperties DEF TypeOK
  <1> DEFINE x == [ack |-> a, packet |-> abuf, rto |-> r]
  <1>4. /\ txq' \in Seq(Item) /\ Len(txq') = Len(txq) + 1
        /\ \A i \in 1 .. Len(txq) : txq'[i] = txq[i]
        /\ txq'[Len(txq) + 1] = x
    <2> HIDE DEF x
    <2> QED
      BY <1>1, <1>2, <1>3, AppendProperties DEF x
  <1>5. Len(txq') < NUMBER_OF_TXQ
    BY <1>3, <1>4, SocketAssumption DEF Enqueue, TxQFull
  <1>6. setTxPacket(f, snd_nxt, rcv_nxt, len, rxlen) \in Segment
    BY PacketType, SocketAssumption DEF TypeOK
  <1> QED
    BY <1>3, <1>4, <1>5, <1>6 DEF Enqueue, TypeOK

(* A retransmission doubles the oldest packet's timer and changes nothing  *)
(* else of the queue.                                                      *)
LEMMA RetransmitQueue ==
  ASSUME TypeOK, PeriodicRetransmit
  PROVE  /\ txq' \in Seq(Item) /\ Len(txq') = Len(txq)
         /\ \A i \in 1 .. Len(txq) :
              txq'[i].packet = txq[i].packet /\ txq'[i].ack = txq[i].ack
  <1>1. txq \in Seq(Item) /\ Len(txq) \in Nat
    BY LenProperties DEF TypeOK
  <1>2. 1 \in 1 .. Len(txq)
    BY <1>1, EmptySeq DEF PeriodicRetransmit, Retransmits
  <1>3. txq[1] \in Item
    BY <1>1, <1>2, ElementOfSeq
  <1> DEFINE e == [txq[1] EXCEPT !.rto = @ * 2]
  <1>4. e \in Item /\ e.packet = txq[1].packet /\ e.ack = txq[1].ack
    <2>1. txq[1].rto * 2 \in 1 .. MaxRto
      BY <1>3 DEF PeriodicRetransmit, Item
    <2>2. e \in Item
      BY <1>3, <2>1 DEF Item
    <2>3. e.packet = txq[1].packet /\ e.ack = txq[1].ack
      BY <1>3 DEF Item
    <2> QED
      BY <2>2, <2>3
  <1>5. txq' = [txq EXCEPT ![1] = e]
    BY DEF PeriodicRetransmit
  <1> HIDE DEF e
  <1>6. /\ txq' \in Seq(Item) /\ Len(txq') = Len(txq)
        /\ \A j \in 1 .. Len(txq) : txq'[j] = IF j = 1 THEN e ELSE txq[j]
    BY <1>1, <1>2, <1>4, <1>5, ExceptSeq
  <1> QED
    BY <1>4, <1>6

(* The application holds a buffer at every step that uses one. *)
HoldsBuffer ==
    apc \in {"swrQ", "swrTx", "window", "gotBuf", "psendQ", "psendTx"}
        => abuf \in Bufs

TypeInv == TypeOK /\ HoldsBuffer

LEMMA TypeInit == Init => TypeInv
  <1> SUFFICES ASSUME Init PROVE TypeInv
    OBVIOUS
  <1>1. txq \in Seq(Item) /\ Len(txq) < NUMBER_OF_TXQ
    BY EmptySeq, SocketAssumption DEF Init
  <1>2. mem \in [Bufs -> Segment]
    BY DEF Init, BlankSegment, Segment
  <1>3. rxlen \in 0 .. WinMod - 1 /\ peer_win \in 0 .. WinMod - 1
    BY SocketAssumption DEF Init
  <1> QED
    BY <1>1, <1>2, <1>3
    DEF Init, TypeInv, TypeOK, HoldsBuffer, State, AppPC, AppOp, UipPC

LEMMA OpenType ==
  ASSUME TypeOK, NEW st \in State, NEW rcv \in Nat,
         NEW win \in 0 .. WinMod - 1, Open(st, rcv, win)
  PROVE  /\ state' \in State /\ snd_nxt' \in Nat /\ rcv_nxt' \in Nat
         /\ peer_win' \in 0 .. WinMod - 1 /\ rxlen' \in 0 .. WinMod - 1
         /\ txq' \in Seq(Item) /\ Len(txq') < NUMBER_OF_TXQ
         /\ free' \subseteq Bufs /\ out' \subseteq Segment
         /\ stray' = FALSE /\ emptied' = FALSE
  <1>1. txq' \in Seq(Item) /\ Len(txq') < NUMBER_OF_TXQ
    BY EmptySeq, SocketAssumption DEF Open, resetTxQ
  <1>2. Packets(Len(txq)) \subseteq Bufs
    BY PacketsType, LenProperties DEF TypeOK
  <1> QED
    BY <1>1, <1>2, SocketAssumption DEF Open, TypeOK

(* Every step of the application preserves the types. *)
LEMMA AppType == TypeInv /\ AppStep => TypeInv'
  <1> SUFFICES ASSUME TypeInv, AppStep PROVE TypeInv'
    OBVIOUS
  <1> USE SocketAssumption DEF TypeInv, HoldsBuffer, AppAt, conn, appVars, uipVars, hist
  <1>1. txq \in Seq(Item) /\ Len(txq) \in Nat /\ <<>> \in Seq(Item)
        /\ Len(<<>>) = 0 /\ Len(<<>>) < NUMBER_OF_TXQ
    BY LenProperties, EmptySeq DEF TypeOK
  <1>2. Packets(Len(txq)) \subseteq Bufs
    BY <1>1, PacketsType
  <1>3. ASSUME NEW rcv \in Nat, ListenSyn(rcv) PROVE TypeInv'
    <2>1. "SYN_RCVD" \in State /\ rcv \in Nat /\ 0 \in 0 .. WinMod - 1
      BY DEF State
    <2>2. Open("SYN_RCVD", rcv, 0) /\ UNCHANGED <<mem, appVars, uipVars>>
      BY <1>3 DEF ListenSyn
    <2> HIDE DEF HoldsBuffer
    <2>3. HoldsBuffer'
      BY <2>2 DEF HoldsBuffer
    <2> QED
      BY <2>1, <2>2, <2>3, OpenType DEF TypeOK
  <1>4. CASE Connect
    <2>1. "SYN_SENT" \in State /\ 0 \in Nat /\ 1 \in 0 .. WinMod - 1
      BY DEF State
    <2> QED
      BY <1>4, <2>1, OpenType DEF Connect, TypeOK, AppPC, AppOp
  <1>5. CASE Accept
    BY <1>5 DEF Accept, TypeOK, AppPC, AppOp
  <1>6. CASE Close
    BY <1>6 DEF Close, TypeOK, AppPC, AppOp, State
  <1>7. CASE SwrAlloc
    BY <1>7 DEF SwrAlloc, TypeOK, AppPC
  <1>8. CASE SwrQueue
    <2>1. ControlFlags \in SUBSET Flag
      BY DEF ControlFlags, Flag
    <2>2. abuf \in Bufs /\ 0 \in Nat /\ snd_nxt + 1 \in Nat
      BY <1>8 DEF SwrQueue, TypeOK
    <2>3. CASE Enqueue(ControlFlags, 0, snd_nxt + 1, "swrTx") /\ asq' = snd_nxt + 1
               /\ UNCHANGED <<abuf, free>>
      <3>1. /\ txq' \in Seq(Item) /\ Len(txq') < NUMBER_OF_TXQ
            /\ mem' \in [Bufs -> Segment] /\ snd_nxt' \in Nat /\ apc' = "swrTx"
        BY <2>1, <2>2, <2>3, EnqueueType
      <3> QED
        BY <1>8, <2>2, <2>3, <3>1 DEF SwrQueue, TypeOK, AppPC
    <2> QED
      BY <1>8, <2>2, <2>3 DEF SwrQueue, TypeOK, AppPC
  <1>9. CASE SwrTx
    BY <1>9 DEF SwrTx, TypeOK, AppPC
  <1>10. CASE WaitForTxRemove
    BY <1>10 DEF WaitForTxRemove, TypeOK, AppPC, AppOp
  <1>11. CASE CloseLoop
    BY <1>11 DEF CloseLoop, TypeOK, AppPC, AppOp, State
  <1>12. CASE CloseLastAck
    BY <1>12 DEF CloseLastAck, TypeOK, AppPC, AppOp
  <1>13. CASE ForceClosed
    BY <1>13 DEF ForceClosed, TypeOK, AppPC, AppOp, State
  <1>14. CASE AppSendRst
    <2>1. setTxPacket({"RST", "ACK"}, snd_nxt, rcv_nxt, 0, rxlen) \in Segment
      BY PacketType DEF TypeOK, Flag
    <2> QED
      BY <1>14, <2>1 DEF AppSendRst, sendRst, TypeOK, AppPC
  <1>15. CASE Precv
    BY <1>15 DEF Precv, TypeOK, AppPC
  <1>16. ASSUME NEW n \in 0 .. WinMod - 1, Pseek(n) PROVE TypeInv'
    <2>1. rxlen' \in 0 .. WinMod - 1
      BY <1>16, U16Range DEF Pseek, TypeOK
    <2>2. setTxPacket({"ACK"}, snd_nxt, rcv_nxt, 0, rxlen') \in Segment
      BY <2>1, PacketType DEF TypeOK, Flag
    <2> QED
      BY <1>16, <2>1, <2>2 DEF Pseek, TypeOK, AppPC
  <1>17. CASE AllocSendBuf
    BY <1>17 DEF AllocSendBuf, TypeOK, AppPC
  <1>18. ASSUME NEW lim \in 1 .. MaxLen, AllocSendBufWindow(lim) PROVE TypeInv'
    BY <1>18 DEF AllocSendBufWindow, TypeOK, AppPC
  <1>19. CASE ReleaseSendBuf
    BY <1>19 DEF ReleaseSendBuf, TypeOK, AppPC
  <1>20. CASE Psend
    BY <1>20 DEF Psend, TypeOK, AppPC
  <1>21. ASSUME NEW len \in 1 .. MaxLen, PsendQueue(len) PROVE TypeInv'
    <2>1. {"ACK", "PSH"} \in SUBSET Flag /\ len \in Nat /\ snd_nxt + len \in Nat
      BY DEF Flag, TypeOK
    <2>2. abuf \in Bufs
      BY <1>21 DEF PsendQueue
    <2>3. CASE Enqueue({"ACK", "PSH"}, len, snd_nxt + len, "psendTx")
               /\ peer_win' = u16(peer_win - len)
      <3>1. /\ txq' \in Seq(Item) /\ Len(txq') < NUMBER_OF_TXQ
            /\ mem' \in [Bufs -> Segment] /\ snd_nxt' \in Nat
            /\ apc' = "psendTx"
        BY <2>1, <2>2, <2>3, EnqueueType
      <3>2. peer_win' \in 0 .. WinMod - 1
        BY <2>3, U16Range DEF TypeOK
      <3> QED
        BY <1>21, <2>2, <3>1, <3>2 DEF PsendQueue, TypeOK, AppPC
    <2> QED
      BY <1>21, <2>2, <2>3 DEF PsendQueue, TypeOK, AppPC
  <1>22. CASE PsendTx
    BY <1>22 DEF PsendTx, TypeOK, AppPC
  <1>23. CASE Finalize
    BY <1>1, <1>2, <1>23 DEF Finalize, resetTxQ, TypeOK
  <1>24. CASE Initialize
    <2>1. emptied' \in BOOLEAN /\ stray' \in BOOLEAN
      BY <1>24 DEF Initialize, TypeOK
    <2> QED
      BY <1>1, <1>24, <2>1 DEF Initialize, TypeOK, State
  <1> QED
    BY <1>3, <1>4, <1>5, <1>6, <1>7, <1>8, <1>9, <1>10, <1>11, <1>12, <1>13,
       <1>14, <1>15, <1>16, <1>17, <1>18, <1>19, <1>20, <1>21, <1>22, <1>23,
       <1>24 DEF AppStep, App

(* Every step of the uip task preserves the types. *)
LEMMA UipType == TypeInv /\ UipStep => TypeInv'
  <1> SUFFICES ASSUME TypeInv, UipStep PROVE TypeInv'
    OBVIOUS
  <1> USE SocketAssumption DEF TypeInv, HoldsBuffer, conn, appVars, uipVars, hist
  <1>1. txq \in Seq(Item) /\ Len(txq) \in Nat /\ <<>> \in Seq(Item)
        /\ Len(<<>>) = 0 /\ Len(<<>>) < NUMBER_OF_TXQ
    BY LenProperties, EmptySeq DEF TypeOK
  <1>2. Packets(Len(txq)) \subseteq Bufs
    BY <1>1, PacketsType
  <1>3. ASSUME NEW seg \in AnySegment, ParseRx(seg) PROVE TypeInv'
    <2>1. TypeOK'
      BY <1>3, ParseRxType
    <2>2. UNCHANGED <<apc, abuf>>
      BY <1>3 DEF ParseRx
    <2> QED
      BY <2>1, <2>2
  <1>4. CASE Release
    BY <1>4 DEF Release, TypeOK, UipPC
  <1>5. CASE UipSendRst
    <2>1. setTxPacket({"RST", "ACK"}, snd_nxt, rcv_nxt, 0, rxlen) \in Segment
      BY PacketType DEF TypeOK, Flag
    <2> QED
      BY <1>5, <2>1 DEF UipSendRst, sendRst, TypeOK, UipPC
  <1>6. CASE PeriodicClosed
    BY <1>1, <1>2, <1>6 DEF PeriodicClosed, UipReset, resetTxQ, TypeOK, UipPC
  <1>7. CASE PeriodicRetransmit
    <2>5. txq' \in Seq(Item) /\ Len(txq') = Len(txq)
      BY <1>7, RetransmitQueue
    <2>6. out' \subseteq Segment
      BY <1>2, <1>7 DEF PeriodicRetransmit, TypeOK
    <2> QED
      BY <1>7, <2>5, <2>6 DEF PeriodicRetransmit, TypeOK
  <1>8. CASE PeriodicGiveUp
    BY <1>1, <1>2, <1>8
    DEF PeriodicGiveUp, UipReset, resetTxQ, TypeOK, UipPC, State
  <1>9. CASE StopService
    BY <1>1, <1>2, <1>9
    DEF StopService, UipReset, resetTxQ, TypeOK, UipPC, State
  <1>10. CASE StartService
    BY <1>10 DEF StartService, TypeOK
  <1> QED
    BY InSegmentAny, <1>3, <1>4, <1>5, <1>6, <1>7, <1>8, <1>9, <1>10 DEF UipStep, Uip

(* The variables of the socket keep their types in every environment: the  *)
(* 16-bit sizes in particular stay in range through every wrap-around, and *)
(* the ring is never over-filled.                                          *)
THEOREM TypeCorrect == Spec => []TypeOK
  <1>1. TypeInv /\ [Next]_vars => TypeInv'
    <2> SUFFICES ASSUME TypeInv, [Next]_vars PROVE TypeInv'
      OBVIOUS
    <2>1. CASE App
      BY <2>1, AppType DEF AppStep
    <2>2. CASE Uip
      BY <2>2, UipType DEF UipStep
    <2>3. CASE UNCHANGED vars
      BY <2>3 DEF vars, conn, appVars, uipVars, hist, TypeInv, TypeOK, HoldsBuffer
    <2> QED
      BY <2>1, <2>2, <2>3 DEF Next
  <1>2. TypeInv => TypeOK
    BY DEF TypeInv
  <1> QED
    BY <1>1, <1>2, TypeInit, PTL DEF Spec

-----------------------------------------------------------------------------
(* Ownership of the transmission buffers *)

(* The uip task has packets to release only where it goes on to do so. *)
UdlInv == upc \notin {"release", "releaseRst"} => udl = {}

(* A socket that is not in use has nothing queued: finalize gave it back. *)
UnusedInv == ~used => txq = <<>>

OwnInv == TypeInv /\ BufferOwnership /\ UdlInv /\ UnusedInv

(* The queue holds no packet twice: the part of BufferOwnership that is    *)
(* about positions.                                                        *)
Distinct == \A i, j \in 1 .. Len(txq) : txq[i].packet = txq[j].packet => i = j

(* Taking acknowledged packets off splits the queue's buffers in two. *)
LEMMA SplitQueue ==
  ASSUME TypeOK, Distinct, NEW k \in 0 .. Len(txq),
         txq' = SubSeq(txq, k + 1, Len(txq))
  PROVE  /\ Queued = Packets(k) \cup Queued'
         /\ Packets(k) \cap Queued' = {}
         /\ Distinct'
  <1>1. txq \in Seq(Item) /\ Len(txq) \in Nat /\ k \in Nat
    BY LenProperties DEF TypeOK
  <1>2. /\ Len(txq') = Len(txq) - k
        /\ \A i \in 1 .. Len(txq') : txq'[i] = txq[i + k]
    BY <1>1, TakeOff
  <1>3. Queued' = {txq[i].packet : i \in k + 1 .. Len(txq)}
    <2>1. \A i \in 1 .. Len(txq') : i + k \in k + 1 .. Len(txq)
      BY <1>1, <1>2
    <2>2. \A i \in k + 1 .. Len(txq) :
            i - k \in 1 .. Len(txq') /\ txq'[i - k] = txq[i]
      <3> SUFFICES ASSUME NEW i \in k + 1 .. Len(txq)
                   PROVE  i - k \in 1 .. Len(txq') /\ txq'[i - k] = txq[i]
        OBVIOUS
      <3>1. i - k \in 1 .. Len(txq') /\ (i - k) + k = i
        BY <1>1, <1>2
      <3> QED
        BY <1>2, <3>1
    <2>3. Queued' = {txq'[i].packet : i \in 1 .. Len(txq')}
      BY DEF Queued, Packets
    <2>4. \A p : p \in Queued' => p \in {txq[i].packet : i \in k + 1 .. Len(txq)}
      BY <1>2, <2>1, <2>3, SMTT(60)
    <2>5. \A p : p \in {txq[i].packet : i \in k + 1 .. Len(txq)} => p \in Queued'
      BY <2>2, <2>3
    <2> QED
      BY <2>4, <2>5
  <1>4. 1 .. Len(txq) = (1 .. k) \cup (k + 1 .. Len(txq))
    BY <1>1
  <1>5. Queued = Packets(k) \cup Queued'
    BY <1>3, <1>4 DEF Queued, Packets
  <1>6. Packets(k) \cap Queued' = {}
    <2>1. \A i \in 1 .. k : \A j \in k + 1 .. Len(txq) :
            i \in 1 .. Len(txq) /\ j \in 1 .. Len(txq) /\ i # j
      BY <1>1
    <2> QED
      BY <1>3, <2>1 DEF Distinct, Packets
  <1>7. Distinct'
    <2>1. \A i \in 1 .. Len(txq') : i + k \in 1 .. Len(txq)
      BY <1>1, <1>2
    <2> QED
      BY <1>1, <1>2, <2>1 DEF Distinct
  <1> QED
    BY <1>5, <1>6, <1>7

(* Queueing a packet adds its buffer to the queue's buffers. *)
LEMMA GrowQueue ==
  ASSUME TypeOK, Distinct, abuf \notin Queued,
         Len(txq') = Len(txq) + 1,
         \A i \in 1 .. Len(txq) : txq'[i] = txq[i],
         txq'[Len(txq')].packet = abuf
  PROVE  Queued' = Queued \cup {abuf} /\ Distinct'
  <1>1. txq \in Seq(Item) /\ Len(txq) \in Nat
    BY LenProperties DEF TypeOK
  <1>2. 1 .. Len(txq') = (1 .. Len(txq)) \cup {Len(txq')}
    BY <1>1
  <1>3. \A i \in 1 .. Len(txq) : txq[i].packet # abuf
    BY DEF Queued, Packets
  <1> QED
    BY <1>2, <1>3, SMTT(60) DEF Queued, Packets, Distinct

(* An empty queue holds no buffer. *)
LEMMA EmptyQueue == txq' = <<>> => Queued' = {} /\ Distinct'
  BY EmptySeq DEF Queued, Packets, Distinct

(* An unchanged queue holds the same buffers. *)
LEMMA SameQueue == UNCHANGED txq => Queued' = Queued /\ (Distinct => Distinct')
  BY DEF Queued, Packets, Distinct

LEMMA OwnershipApp == OwnInv /\ AppStep => BufferOwnership' /\ UdlInv'
  <1> SUFFICES ASSUME OwnInv, AppStep PROVE BufferOwnership' /\ UdlInv'
    OBVIOUS
  <1> DEFINE Part(F, A, Q, D) ==
        /\ F \cup A \cup Q \cup D = Bufs
        /\ F \cap (A \cup Q \cup D) = {}
        /\ A \cap (Q \cup D) = {}
        /\ Q \cap D = {}
  <1>1. TypeOK /\ HoldsBuffer /\ UdlInv /\ Distinct /\ UnusedInv
    BY DEF OwnInv, TypeInv, BufferOwnership, Distinct
  <1>2. Part(free, AppOwned, Queued, udl)
    BY DEF OwnInv, BufferOwnership
  <1>3. ASSUME Part(free', AppOwned', Queued', udl'), Distinct',
               UNCHANGED <<upc, udl>>
        PROVE  BufferOwnership' /\ UdlInv'
    BY <1>1, <1>3 DEF BufferOwnership, Distinct, UdlInv
  <1> HIDE DEF Part
  <1>a. ASSUME UNCHANGED <<free, txq, upc, udl>>, AppOwned' = AppOwned
        PROVE  BufferOwnership' /\ UdlInv'
    <2>1. Part(free', AppOwned', Queued', udl') /\ Distinct'
      BY <1>1, <1>2, <1>a, SameQueue
    <2> QED
      BY <1>3, <1>a, <2>1
  (* The queue is given back. *)
  <1>b. ASSUME txq' = <<>>, free' = free \cup Packets(Len(txq)),
               UNCHANGED <<upc, udl>>, AppOwned' = AppOwned
        PROVE  BufferOwnership' /\ UdlInv'
    <2>1. Queued' = {} /\ Distinct' /\ Packets(Len(txq)) = Queued
      BY <1>b, EmptyQueue DEF Queued
    <2>2. Part(free', AppOwned', Queued', udl')
      BY <1>2, <1>b, <2>1 DEF Part
    <2> QED
      BY <1>3, <1>b, <2>1, <2>2
  (* A free buffer is taken. *)
  <1>c. ASSUME NEW b \in free, abuf' = b, free' = free \ {b},
               AppOwned = {}, AppOwned' = {b}, UNCHANGED <<txq, upc, udl>>
        PROVE  BufferOwnership' /\ UdlInv'
    <2>1. Part(free', AppOwned', Queued', udl') /\ Distinct'
      BY <1>1, <1>2, <1>c, SameQueue DEF Part
    <2> QED
      BY <1>3, <1>c, <2>1
  (* The application's buffer is released. *)
  <1>d. ASSUME AppOwned = {abuf}, free' = free \cup {abuf}, AppOwned' = {},
               UNCHANGED <<txq, upc, udl>>
        PROVE  BufferOwnership' /\ UdlInv'
    <2>1. Part(free', AppOwned', Queued', udl') /\ Distinct'
      BY <1>1, <1>2, <1>d, SameQueue DEF Part
    <2> QED
      BY <1>3, <1>d, <2>1
  (* The application's buffer is queued. *)
  <1>e. ASSUME AppOwned = {abuf}, AppOwned' = {}, abuf \in Bufs,
               NEW f \in SUBSET Flag, NEW len \in Nat, NEW a \in Nat, NEW pc,
               Enqueue(f, len, a, pc), UNCHANGED <<free, upc, udl>>
        PROVE  BufferOwnership' /\ UdlInv'
    <2>1. abuf \notin Queued
      BY <1>2, <1>e DEF Part
    <2>2. Queued' = Queued \cup {abuf} /\ Distinct'
      BY <1>1, <1>e, <2>1, EnqueueType, GrowQueue
    <2>3. Part(free', AppOwned', Queued', udl')
      BY <1>2, <1>e, <2>2 DEF Part
    <2> QED
      BY <1>3, <1>e, <2>2, <2>3
  <1> USE DEF AppAt, appVars, uipVars, AppOwned
  <1>4. ASSUME NEW rcv \in Nat, ListenSyn(rcv)
        PROVE  BufferOwnership' /\ UdlInv'
    BY <1>4, <1>b DEF ListenSyn, Open, resetTxQ
  <1>5. CASE Connect
    BY <1>5, <1>b DEF Connect, Open, resetTxQ
  <1>6. CASE Accept
    BY <1>6, <1>a DEF Accept
  <1>7. CASE Close
    BY <1>7, <1>a DEF Close
  <1>8. CASE SwrAlloc
    BY <1>8, <1>a, <1>c DEF SwrAlloc
  <1>9. CASE SwrQueue
    <2>1. ControlFlags \in SUBSET Flag
      BY DEF ControlFlags, Flag
    <2>2. abuf \in Bufs /\ 0 \in Nat /\ snd_nxt + 1 \in Nat
      BY <1>1, <1>9 DEF SwrQueue, TypeOK, HoldsBuffer
    <2>3. CASE Enqueue(ControlFlags, 0, snd_nxt + 1, "swrTx")
               /\ UNCHANGED <<abuf, free>>
      <3>1. apc = "swrQ" /\ apc' = "swrTx" /\ UNCHANGED <<free, upc, udl>>
        BY <1>9, <2>3 DEF SwrQueue, Enqueue
      <3>2. AppOwned = {abuf} /\ AppOwned' = {}
        BY <3>1
      <3> HIDE DEF AppOwned
      <3> QED
        BY <1>e, <2>1, <2>2, <2>3, <3>1, <3>2
    <2> QED
      BY <1>9, <1>d, <2>3 DEF SwrQueue
  <1>10. CASE SwrTx
    BY <1>10, <1>a DEF SwrTx
  <1>11. CASE WaitForTxRemove
    BY <1>11, <1>a DEF WaitForTxRemove
  <1>12. CASE CloseLoop
    BY <1>12, <1>a DEF CloseLoop
  <1>13. CASE CloseLastAck
    BY <1>13, <1>a DEF CloseLastAck
  <1>14. CASE ForceClosed
    BY <1>14, <1>a DEF ForceClosed
  <1>15. CASE AppSendRst
    BY <1>15, <1>a DEF AppSendRst, sendRst
  <1>16. CASE Precv
    BY <1>16, <1>a DEF Precv
  <1>17. ASSUME NEW n \in 0 .. WinMod - 1, Pseek(n)
         PROVE  BufferOwnership' /\ UdlInv'
    BY <1>17, <1>a DEF Pseek
  <1>18. CASE AllocSendBuf
    BY <1>18, <1>c DEF AllocSendBuf
  <1>19. ASSUME NEW lim \in 1 .. MaxLen, AllocSendBufWindow(lim)
         PROVE  BufferOwnership' /\ UdlInv'
    BY <1>19, <1>a, <1>d DEF AllocSendBufWindow
  <1>20. CASE ReleaseSendBuf
    BY <1>20, <1>d DEF ReleaseSendBuf
  <1>21. CASE Psend
    BY <1>21, <1>a DEF Psend
  <1>22. ASSUME NEW len \in 1 .. MaxLen, PsendQueue(len)
         PROVE  BufferOwnership' /\ UdlInv'
    <2>1. {"ACK", "PSH"} \in SUBSET Flag /\ len \in Nat /\ snd_nxt + len \in Nat
      BY <1>1, SocketAssumption DEF Flag, TypeOK
    <2>2. abuf \in Bufs
      BY <1>1, <1>22 DEF PsendQueue, HoldsBuffer
    <2>3. CASE Enqueue({"ACK", "PSH"}, len, snd_nxt + len, "psendTx")
      <3>1. /\ apc = "psendQ" /\ apc' = "psendTx"
            /\ UNCHANGED <<free, upc, udl, abuf>>
        BY <1>22, <2>3 DEF PsendQueue, Enqueue
      <3>2. AppOwned = {abuf} /\ AppOwned' = {}
        BY <3>1
      <3> HIDE DEF AppOwned
      <3> QED
        BY <1>e, <2>1, <2>2, <2>3, <3>1, <3>2
    <2> QED
      BY <1>22, <1>a, <2>3 DEF PsendQueue
  <1>23. CASE PsendTx
    BY <1>23, <1>a DEF PsendTx
  <1>24. CASE Finalize
    BY <1>24, <1>b DEF Finalize, resetTxQ
  <1>25. CASE Initialize
    <2>1. txq = <<>> /\ txq' = <<>> /\ UNCHANGED <<free, upc, udl>>
      BY <1>1, <1>25 DEF Initialize, UnusedInv
    <2>2. AppOwned' = AppOwned
      BY <1>25 DEF Initialize
    <2> QED
      BY <1>a, <2>1, <2>2
  <1> QED
    BY InSegmentAny, <1>4, <1>5, <1>6, <1>7, <1>8, <1>9, <1>10, <1>11, <1>12, <1>13, <1>14,
       <1>15, <1>16, <1>17, <1>18, <1>19, <1>20, <1>21, <1>22, <1>23, <1>24,
       <1>25 DEF AppStep, App

LEMMA OwnershipUip == OwnInv /\ UipStep => BufferOwnership' /\ UdlInv'
  <1> SUFFICES ASSUME OwnInv, UipStep PROVE BufferOwnership' /\ UdlInv'
    OBVIOUS
  <1> DEFINE Part(F, A, Q, D) ==
        /\ F \cup A \cup Q \cup D = Bufs
        /\ F \cap (A \cup Q \cup D) = {}
        /\ A \cap (Q \cup D) = {}
        /\ Q \cap D = {}
  <1>1. TypeOK /\ UdlInv /\ Distinct
    BY DEF OwnInv, TypeInv, BufferOwnership, Distinct
  <1>2. Part(free, AppOwned, Queued, udl)
    BY DEF OwnInv, BufferOwnership
  <1>3. ASSUME Part(free', AppOwned', Queued', udl'), Distinct', UdlInv'
        PROVE  BufferOwnership' /\ UdlInv'
    BY <1>3 DEF BufferOwnership, Distinct
  <1>4. UNCHANGED <<apc, abuf>> => AppOwned' = AppOwned
    BY DEF AppOwned
  <1> HIDE DEF Part
  <1>a. ASSUME UNCHANGED <<free, txq, upc, udl, apc, abuf>>
        PROVE  BufferOwnership' /\ UdlInv'
    <2>1. UdlInv'
      BY <1>1, <1>a DEF UdlInv
    <2> QED
      BY <1>1, <1>2, <1>3, <1>4, <1>a, <2>1, SameQueue
  (* The whole queue becomes the uip task's dlist. *)
  <1>b. ASSUME NEW pc \in {"release", "releaseRst"}, UipReset(pc), upc = "idle",
               UNCHANGED <<free, apc, abuf>>
        PROVE  BufferOwnership' /\ UdlInv'
    <2>1. Queued' = {} /\ Distinct' /\ udl' = Queued /\ udl = {}
      BY <1>1, <1>b, EmptyQueue DEF UipReset, resetTxQ, Queued, UdlInv
    <2>2. upc' = pc \/ Queued = {}
      BY <1>b, EmptySeq DEF UipReset, Queued, Packets
    <2>3. Part(free', AppOwned', Queued', udl') /\ UdlInv'
      BY <1>2, <1>4, <1>b, <2>1, <2>2 DEF Part, UdlInv
    <2> QED
      BY <1>3, <2>1, <2>3
  <1>5. ASSUME NEW seg \in AnySegment, ParseRx(seg)
        PROVE  BufferOwnership' /\ UdlInv'
    <2>1. upc = "idle" /\ udl = {} /\ UNCHANGED <<free, apc, abuf>>
      BY <1>1, <1>5 DEF ParseRx, UdlInv, appVars
    <2>2. CASE hasFlag(seg, "RST")
      BY <1>5, <1>a, <2>1, <2>2 DEF ParseRx
    <2>3. CASE ~hasFlag(seg, "RST")
      <3> DEFINE k == AckedPackets(seg)
      <3>1. /\ txq' = SubSeq(txq, k + 1, Len(txq))
            /\ udl' = Packets(k)
            /\ upc' = IF udl' = {} THEN "idle" ELSE "release"
        BY <1>5, <2>3 DEF ParseRx
      <3>2. k \in 0 .. Len(txq)
        BY <1>1, AckedQueue
      <3> HIDE DEF k
      <3>3. /\ Queued = Packets(k) \cup Queued'
            /\ Packets(k) \cap Queued' = {}
            /\ Distinct'
        BY <1>1, <3>1, <3>2, SplitQueue
      <3>4. Part(free', AppOwned', Queued', udl')
        BY <1>2, <1>4, <2>1, <3>1, <3>3 DEF Part
      <3>5. UdlInv'
        BY <3>1 DEF UdlInv
      <3> QED
        BY <1>3, <3>3, <3>4, <3>5
    <2> QED
      BY <2>2, <2>3
  <1>6. CASE Release
    <2>1. /\ free' = free \cup udl /\ udl' = {}
          /\ UNCHANGED <<txq, apc, abuf>>
      BY <1>6 DEF Release, appVars
    <2>2. Part(free', AppOwned', Queued', udl') /\ Distinct'
      BY <1>1, <1>2, <1>4, <2>1, SameQueue DEF Part
    <2>3. UdlInv'
      BY <2>1 DEF UdlInv
    <2> QED
      BY <1>3, <2>2, <2>3
  <1>7. CASE UipSendRst
    <2>1. /\ upc' \in {"rstTx", "idle"} /\ upc \in {"rst", "rstTx"}
          /\ UNCHANGED <<free, txq, udl, apc, abuf>>
      BY <1>7 DEF UipSendRst, sendRst, appVars
    <2>2. UdlInv'
      BY <1>1, <2>1 DEF UdlInv
    <2> QED
      BY <1>1, <1>2, <1>3, <1>4, <2>1, <2>2, SameQueue
  <1>8. CASE PeriodicClosed
    BY <1>8, <1>b DEF PeriodicClosed, appVars
  <1>9. CASE PeriodicRetransmit
    <2>4. /\ Len(txq') = Len(txq)
          /\ \A i \in 1 .. Len(txq) : txq'[i].packet = txq[i].packet
      BY <1>1, <1>9, RetransmitQueue
    <2>5. Queued' = Queued /\ Distinct'
      BY <1>1, <2>4 DEF Queued, Packets, Distinct
    <2>6. UNCHANGED <<free, udl, upc, apc, abuf>>
      BY <1>9 DEF PeriodicRetransmit, appVars, uipVars
    <2>7. UdlInv'
      BY <1>1, <2>6 DEF UdlInv
    <2> QED
      BY <1>2, <1>3, <1>4, <2>5, <2>6, <2>7
  <1>10. CASE PeriodicGiveUp
    BY <1>10, <1>b DEF PeriodicGiveUp, Retransmits, appVars
  <1>11. CASE StopService
    BY <1>11, <1>a, <1>b DEF StopService, appVars
  <1>12. CASE StartService
    BY <1>12, <1>a DEF StartService, appVars
  <1> QED
    BY InSegmentAny, <1>5, <1>6, <1>7, <1>8, <1>9, <1>10, <1>11, <1>12 DEF UipStep, Uip

(* finalize empties the queue, and nothing but initialize touches a socket *)
(* that is not in use.                                                     *)
LEMMA UnusedStep == UnusedInv /\ (AppStep \/ UipStep) => UnusedInv'
  <1> SUFFICES ASSUME UnusedInv, AppStep \/ UipStep PROVE UnusedInv'
    OBVIOUS
  <1> USE DEF UnusedInv, AppAt, conn, appVars, uipVars, resetTxQ
  <1>1. CASE AppStep
    BY <1>1 DEF AppStep, App, ListenSyn, Open, Connect, Accept, Close, SwrAlloc,
       SwrQueue, SwrTx, WaitForTxRemove, CloseLoop, CloseLastAck, ForceClosed,
       AppSendRst, Precv, Pseek, AllocSendBuf, AllocSendBufWindow,
       ReleaseSendBuf, Psend, PsendQueue, PsendTx, Finalize, Initialize
  <1>2. CASE UipStep
    BY <1>2 DEF UipStep, Uip, ParseRx, Release, UipSendRst, PeriodicClosed,
       PeriodicRetransmit, PeriodicGiveUp, Retransmits, StopService,
       StartService, UipReset
  <1> QED
    BY <1>1, <1>2

(* At the start every buffer is free.                                      *)
LEMMA OwnInit == Init => OwnInv
  <1> SUFFICES ASSUME Init PROVE OwnInv
    OBVIOUS
  <1>1. txq = <<>> /\ Len(txq) = 0 /\ free = Bufs /\ udl = {} /\ apc = "idle"
    BY EmptySeq DEF Init
  <1>2. Queued = {} /\ AppOwned = {}
    BY <1>1 DEF Queued, Packets, AppOwned
  <1>3. BufferOwnership
    BY <1>1, <1>2 DEF BufferOwnership
  <1> QED
    BY <1>1, <1>3, TypeInit DEF OwnInv, UdlInv, UnusedInv

(* Together with the types and the two facts above, ownership is inductive. *)
LEMMA OwnInvariant == Spec => []OwnInv
  <1>1. Init => OwnInv
    BY OwnInit
  <1>2. OwnInv /\ [Next]_vars => OwnInv'
    <2> SUFFICES ASSUME OwnInv, [Next]_vars PROVE OwnInv'
      OBVIOUS
    <2>1. CASE App
      BY <2>1, AppType, OwnershipApp, UnusedStep DEF AppStep, OwnInv
    <2>2. CASE Uip
      BY <2>2, UipType, OwnershipUip, UnusedStep DEF UipStep, OwnInv
    <2>3. CASE UNCHANGED vars
      <3>1. TypeInv'
        BY <2>3 DEF OwnInv, vars, conn, appVars, uipVars, hist, TypeInv, TypeOK,
           HoldsBuffer
      <3>2. UNCHANGED <<txq, free, udl, upc, used, apc, abuf>>
        BY <2>3 DEF vars, appVars, uipVars
      <3>3. Queued' = Queued /\ AppOwned' = AppOwned
        BY <3>2, SameQueue DEF AppOwned
      <3> QED
        BY <3>1, <3>2, <3>3
        DEF OwnInv, BufferOwnership, UdlInv, UnusedInv
    <2> QED
      BY <2>1, <2>2, <2>3 DEF Next
  <1> QED
    BY <1>1, <1>2, PTL DEF Spec

(* Every transmission buffer always has exactly one owner: no step of      *)
(* either task, in any order and with any segment, leaks one or releases   *)
(* one twice.                                                              *)
THEOREM BuffersOwned == Spec => []BufferOwnership
  <1>1. OwnInv => BufferOwnership
    BY DEF OwnInv
  <1> QED
    BY <1>1, OwnInvariant, PTL

-----------------------------------------------------------------------------
(* Closing a connection *)

(* The end of the queue: the packet that a waiting call waits for. *)
LEMMA AwaitApp == TypeInv /\ AwaitsLastPacket /\ AppStep => AwaitsLastPacket'
  <1> SUFFICES ASSUME TypeInv, AwaitsLastPacket, AppStep PROVE AwaitsLastPacket'
    OBVIOUS
  <1> USE DEF AwaitsLastPacket, AppAt, appVars
  <1>1. txq \in Seq(Item) /\ TypeOK /\ HoldsBuffer
    BY DEF TypeInv, TypeOK
  <1>2. CASE SwrQueue
    <2>1. ControlFlags \in SUBSET Flag
      BY DEF ControlFlags, Flag
    <2>2. abuf \in Bufs /\ 0 \in Nat /\ snd_nxt + 1 \in Nat
      BY <1>1, <1>2 DEF SwrQueue, TypeOK, HoldsBuffer
    <2>3. CASE Enqueue(ControlFlags, 0, snd_nxt + 1, "swrTx")
               /\ asq' = snd_nxt + 1
      <3>1. txq'[Len(txq')].ack = snd_nxt + 1 /\ apc' = "swrTx"
        BY <1>1, <2>1, <2>2, <2>3, EnqueueType
      <3> QED
        BY <2>3, <3>1
    <2> QED
      BY <1>2, <2>3 DEF SwrQueue
  <1>3. CASE SwrTx
    BY <1>3 DEF SwrTx
  <1>4. CASE WaitForTxRemove
    <2>1. /\ UNCHANGED <<txq, asq>> /\ apc = "wait"
          /\ apc' \in {"closing", "lastAck"} => AckIndex(asq) = 0
          /\ apc' \in {"closing", "lastAck", "idle", "force"}
      BY <1>4 DEF WaitForTxRemove, isPacketAcked
    <2>2. CASE AckIndex(asq) = 0
      <3>1. \A i \in 1 .. Len(txq) : txq[i].ack # asq
        BY <1>1, <2>2, AckIndexRange
      <3>2. txq = <<>>
        <4>1. txq # <<>> => Len(txq) \in 1 .. Len(txq)
          BY <1>1, EmptySeq, LenProperties
        <4> QED
          BY <2>1, <3>1, <4>1
      <3> QED
        BY <2>1, <3>2
    <2> QED
      BY <2>1, <2>2
  <1>5. ASSUME apc' \notin {"swrTx", "wait", "closing", "lastAck"}
        PROVE  AwaitsLastPacket'
    BY <1>5
  <1> QED
    BY <1>2, <1>3, <1>4, <1>5
    DEF AppStep, App, ListenSyn, Connect, Accept, Close, SwrAlloc, CloseLoop,
        CloseLastAck, ForceClosed, AppSendRst, sendRst, Precv, Pseek,
        AllocSendBuf, AllocSendBufWindow, ReleaseSendBuf, Psend, PsendQueue,
        Enqueue, PsendTx, Finalize, Initialize

LEMMA AwaitUip == TypeInv /\ AwaitsLastPacket /\ UipStep => AwaitsLastPacket'
  <1> SUFFICES ASSUME TypeInv, AwaitsLastPacket, UipStep PROVE AwaitsLastPacket'
    OBVIOUS
  <1>1. txq \in Seq(Item) /\ Len(txq) \in Nat /\ TypeOK
    BY LenProperties DEF TypeInv, TypeOK
  <1>2. UNCHANGED <<apc, asq>>
    BY DEF UipStep, Uip, ParseRx, Release, UipSendRst, PeriodicClosed,
       PeriodicRetransmit, PeriodicGiveUp, StopService, StartService, appVars
  (* The queue only loses its oldest packets. *)
  <1>a. ASSUME txq' # <<>> => /\ txq # <<>>
                              /\ txq'[Len(txq')].ack = txq[Len(txq)].ack
        PROVE  AwaitsLastPacket'
    BY <1>2, <1>a DEF AwaitsLastPacket
  <1>3. ASSUME NEW seg \in AnySegment, ParseRx(seg) PROVE AwaitsLastPacket'
    <2>1. CASE hasFlag(seg, "RST")
      BY <1>3, <1>a, <2>1 DEF ParseRx
    <2>2. CASE ~hasFlag(seg, "RST")
      <3> DEFINE k == AckedPackets(seg)
      <3>1. txq' = SubSeq(txq, k + 1, Len(txq))
        BY <1>3, <2>2 DEF ParseRx
      <3>2. /\ k \in 0 .. Len(txq) /\ txq' \in Seq(Item)
            /\ Len(txq') = Len(txq) - k
            /\ \A i \in 1 .. Len(txq') : txq'[i] = txq[i + k]
        BY <1>1, <3>1, AckedQueue
      <3> HIDE DEF k
      <3>3. ASSUME txq' # <<>>
            PROVE  txq # <<>> /\ txq'[Len(txq')].ack = txq[Len(txq)].ack
        <4>1. Len(txq') \in 1 .. Len(txq')
          BY <1>1, <3>2, <3>3, EmptySeq
        <4>2. Len(txq') + k = Len(txq) /\ Len(txq) # 0
          BY <1>1, <3>2, <4>1
        <4> QED
          BY <3>2, <4>1, <4>2, EmptySeq
      <3> QED
        BY <1>a, <3>3
    <2> QED
      BY <2>1, <2>2
  <1>4. CASE PeriodicRetransmit
    <2>1. /\ txq # <<>> /\ Len(txq') = Len(txq)
          /\ \A i \in 1 .. Len(txq) : txq'[i].ack = txq[i].ack
      BY <1>1, <1>4, RetransmitQueue DEF PeriodicRetransmit, Retransmits
    <2>2. Len(txq) \in 1 .. Len(txq)
      BY <1>1, <2>1, EmptySeq
    <2> QED
      BY <1>a, <2>1, <2>2
  <1>5. CASE UNCHANGED txq \/ txq' = <<>>
    BY <1>a, <1>5
  <1> QED
    BY InSegmentAny, <1>3, <1>4, <1>5
    DEF UipStep, Uip, Release, UipSendRst, PeriodicClosed, PeriodicGiveUp, UipReset,
        resetTxQ, StopService, StartService

(* Where a call that sends a control packet can be, and where the          *)
(* connection can be while close waits for its own FIN.                    *)
CloseStates ==
    {"FIN_WAIT_1", "FIN_WAIT_2", "CLOSING", "TIME_WAIT", "CLOSED"}

ActiveInv ==
    /\ apc \in {"swrAlloc", "swrQ", "swrTx", "wait", "closing", "lastAck",
                "force"} \/ aop = "none"
    /\ apc = "closing" => aop = "closeActive"
    /\ aop = "closeActive" => state \in CloseStates

LEMMA ActiveApp == ActiveInv /\ AppStep => ActiveInv'
  <1> SUFFICES ASSUME ActiveInv, AppStep PROVE ActiveInv'
    OBVIOUS
  <1> USE DEF ActiveInv, CloseStates, AppAt, conn, appVars, uipVars
  <1>1. ASSUME NEW rcv \in Nat, ListenSyn(rcv) PROVE ActiveInv'
    BY <1>1 DEF ListenSyn
  <1>2. CASE Connect \/ Accept \/ Close
    BY <1>2 DEF Connect, Accept, Close
  <1>3. CASE SwrAlloc \/ SwrQueue \/ SwrTx
    BY <1>3 DEF SwrAlloc, SwrQueue, SwrTx, Enqueue
  <1>4. CASE WaitForTxRemove
    BY <1>4 DEF WaitForTxRemove
  <1>5. CASE CloseLoop \/ CloseLastAck \/ ForceClosed
    BY <1>5 DEF CloseLoop, CloseLastAck, ForceClosed
  <1>6. CASE AppSendRst
    BY <1>6 DEF AppSendRst, sendRst
  <1>7. ASSUME NEW n \in 0 .. WinMod - 1, Precv \/ Pseek(n) PROVE ActiveInv'
    BY <1>7 DEF Precv, Pseek
  <1>8. ASSUME NEW n \in 1 .. MaxLen,
               \/ AllocSendBuf \/ AllocSendBufWindow(n) \/ ReleaseSendBuf
               \/ Psend \/ PsendQueue(n) \/ PsendTx
        PROVE  ActiveInv'
    BY <1>8 DEF AllocSendBuf, AllocSendBufWindow, ReleaseSendBuf, Psend,
       PsendQueue, PsendTx, Enqueue
  <1>9. CASE AllocSendBuf \/ ReleaseSendBuf \/ Psend \/ PsendTx \/ Precv
    BY <1>9 DEF AllocSendBuf, ReleaseSendBuf, Psend, PsendTx, Precv
  <1>10. CASE Finalize \/ Initialize
    BY <1>10 DEF Finalize, Initialize
  <1> QED
    BY InSegmentAny, <1>1, <1>2, <1>3, <1>4, <1>5, <1>6, <1>7, <1>8, <1>9, <1>10 DEF AppStep, App

LEMMA ActiveUip == ActiveInv /\ UipStep => ActiveInv'
  <1> SUFFICES ASSUME ActiveInv, UipStep PROVE ActiveInv'
    OBVIOUS
  <1>1. UNCHANGED <<apc, aop>>
    BY DEF UipStep, Uip, ParseRx, Release, UipSendRst, PeriodicClosed,
       PeriodicRetransmit, PeriodicGiveUp, StopService, StartService, appVars
  <1>2. UNCHANGED state \/ state' = "CLOSED" => ActiveInv'
    BY <1>1 DEF ActiveInv, CloseStates
  <1>3. ASSUME NEW seg \in AnySegment, ParseRx(seg) PROVE ActiveInv'
    <2>1. CASE hasFlag(seg, "RST")
      BY <1>2, <1>3, <2>1 DEF ParseRx
    <2>2. CASE ~hasFlag(seg, "RST")
      <3>1. RxByState(seg)
        BY <1>3, <2>2 DEF ParseRx
      <3>2. state \in CloseStates => state' \in CloseStates
        BY <3>1 DEF CloseStates, RxByState, RxFinWait1, RxFinWait2, RxAwaitAck
      <3> QED
        BY <1>1, <3>2 DEF ActiveInv
    <2> QED
      BY <2>1, <2>2
  <1> QED
    BY InSegmentAny, <1>2, <1>3
    DEF UipStep, Uip, Release, UipSendRst, PeriodicClosed, PeriodicRetransmit,
        PeriodicGiveUp, StopService, StartService, conn

CloseInv == TypeInv /\ AwaitsLastPacket /\ ActiveInv

LEMMA CloseInvariant == Spec => []CloseInv
  <1>1. Init => CloseInv
    BY TypeInit DEF CloseInv, Init, AwaitsLastPacket, ActiveInv
  <1>2. CloseInv /\ [Next]_vars => CloseInv'
    <2> SUFFICES ASSUME CloseInv, [Next]_vars PROVE CloseInv'
      OBVIOUS
    <2>1. CASE App
      BY <2>1, AppType, AwaitApp, ActiveApp DEF AppStep, CloseInv
    <2>2. CASE Uip
      BY <2>2, UipType, AwaitUip, ActiveUip DEF UipStep, CloseInv
    <2>3. CASE UNCHANGED vars
      BY <2>3 DEF CloseInv, vars, conn, appVars, uipVars, hist, TypeInv, TypeOK,
         HoldsBuffer, AwaitsLastPacket, ActiveInv
    <2> QED
      BY <2>1, <2>2, <2>3 DEF Next
  <1> QED
    BY <1>1, <1>2, PTL DEF Spec

(* A call that waits for its SYN or FIN waits for the last packet of the   *)
(* queue, in every order of acknowledgements, resets and time-outs.        *)
THEOREM WaitsForLast == Spec => []AwaitsLastPacket
  <1>1. CloseInv => AwaitsLastPacket
    BY DEF CloseInv
  <1> QED
    BY <1>1, CloseInvariant, PTL

(* The two assertions of close hold: it never declares a connection closed *)
(* while packets of it are still queued.                                   *)
THEOREM CloseAssertionsHold == Spec => []CloseAsserts
  <1>1. CloseInv => CloseAsserts
    BY DEF CloseInv, AwaitsLastPacket, CloseAsserts
  <1> QED
    BY <1>1, CloseInvariant, PTL

(* The loop of close is never in a state that it does not handle: it       *)
(* releases the socket mutex in every round.                               *)
THEOREM CloseLoopSafe == Spec => []CloseLoopStates
  <1>1. CloseInv => CloseLoopStates
    BY DEF CloseInv, ActiveInv, CloseStates, CloseLoopStates
  <1> QED
    BY <1>1, CloseInvariant, PTL

-----------------------------------------------------------------------------
(* The retransmission queue as a part of the send sequence *)

(* The queue's packets end at or before snd_nxt. *)
Below == \A i \in 1 .. Len(txq) : txq[i].ack <= snd_nxt

(* Each of them ends at or before the beginning of every later one. *)
Ordered ==
    \A i, j \in 1 .. Len(txq) : i < j => txq[i].ack <= mem[txq[j].packet].seq

SeqInv == SendSequence /\ Below /\ Ordered

(* What a step leaves of the queue: the packets after the oldest k, their  *)
(* contents unchanged but for the acknowledgement they carry.              *)
Keeps(k) ==
    /\ k \in 0 .. Len(txq) /\ Len(txq') = Len(txq) - k
    /\ \A i \in 1 .. Len(txq') :
         /\ txq'[i].ack = txq[i + k].ack /\ txq'[i].packet = txq[i + k].packet
         /\ mem'[txq[i + k].packet].flags = mem[txq[i + k].packet].flags
         /\ mem'[txq[i + k].packet].seq = mem[txq[i + k].packet].seq
         /\ mem'[txq[i + k].packet].len = mem[txq[i + k].packet].len

(* The elements of the queue.                                              *)
LEMMA QueueTypes ==
  ASSUME TypeOK
  PROVE  /\ Len(txq) \in Nat
         /\ \A i \in 1 .. Len(txq) : txq[i].packet \in Bufs /\ txq[i].ack \in Nat
         /\ \A b \in Bufs : mem[b] \in Segment /\ mem[b].seq \in Nat /\ mem[b].len \in Nat
  <1>1. txq \in Seq(Item) /\ Len(txq) \in Nat
    BY LenProperties DEF TypeOK
  <1>2. \A i \in 1 .. Len(txq) : txq[i] \in Item
    BY <1>1, ElementOfSeq
  <1>3. \A b \in Bufs : mem[b] \in Segment
    BY DEF TypeOK
  <1>4. \A s \in Segment : s.seq \in Nat /\ s.len \in Nat
    BY DEF Segment
  <1> QED
    BY <1>1, <1>2, <1>3, <1>4 DEF Item

(* Packets that leave the queue or stay in it do no harm.                  *)
LEMMA KeepsSequence ==
  ASSUME TypeOK, SeqInv, snd_nxt' \in Nat, snd_nxt <= snd_nxt', NEW k, Keeps(k)
  PROVE  SeqInv'
  <1>1. Len(txq) \in Nat /\ k \in Nat /\ Len(txq') = Len(txq) - k
    BY QueueTypes DEF Keeps
  <1>2. \A i \in 1 .. Len(txq') : i + k \in 1 .. Len(txq) /\ (i > 1 => i + k > 1)
    BY <1>1 DEF Keeps
  <1>3. \A i \in 1 .. Len(txq') :
          i > 1 => i - 1 \in 1 .. Len(txq') /\ (i - 1) + k = (i + k) - 1
    BY <1>1
  <1>4. \A i \in 1 .. Len(txq') :
          /\ SegmentEnd(mem'[txq'[i].packet]) = SegmentEnd(mem[txq[i + k].packet])
          /\ mem'[txq'[i].packet].seq = mem[txq[i + k].packet].seq
          /\ txq'[i].ack = txq[i + k].ack
    BY DEF Keeps, SegmentEnd, hasFlag
  <1>5. SendSequence'
    <2> SUFFICES ASSUME NEW i \in 1 .. Len(txq')
                 PROVE  /\ SegmentEnd(mem'[txq'[i].packet]) = txq'[i].ack
                        /\ mem'[txq'[i].packet].seq < txq'[i].ack
                        /\ i > 1 => txq'[i - 1].ack <= mem'[txq'[i].packet].seq
      BY DEF SendSequence
    <2>1. /\ SegmentEnd(mem[txq[i + k].packet]) = txq[i + k].ack
          /\ mem[txq[i + k].packet].seq < txq[i + k].ack
          /\ i + k > 1 => txq[(i + k) - 1].ack <= mem[txq[i + k].packet].seq
      BY <1>2 DEF SeqInv, SendSequence
    <2>2. i > 1 => txq'[i - 1].ack = txq[(i + k) - 1].ack
      BY <1>3, <1>4
    <2> QED
      BY <1>2, <1>4, <2>1, <2>2
  <1>6. Below'
    <2> SUFFICES ASSUME NEW i \in 1 .. Len(txq') PROVE txq'[i].ack <= snd_nxt'
      BY DEF Below
    <2>1. txq[i + k].ack <= snd_nxt /\ txq[i + k].ack \in Nat /\ txq'[i].ack = txq[i + k].ack
      BY <1>2, <1>4, QueueTypes DEF SeqInv, Below
    <2> QED
      BY <2>1 DEF TypeOK
  <1>7. Ordered'
    <2> SUFFICES ASSUME NEW i \in 1 .. Len(txq'), NEW j \in 1 .. Len(txq'), i < j
                 PROVE  txq'[i].ack <= mem'[txq'[j].packet].seq
      BY DEF Ordered
    <2>1. i + k \in 1 .. Len(txq) /\ j + k \in 1 .. Len(txq) /\ i + k < j + k
      BY <1>1, <1>2
    <2>2. txq[i + k].ack <= mem[txq[j + k].packet].seq
      BY <2>1 DEF SeqInv, Ordered
    <2> QED
      BY <1>4, <2>2
  <1> QED
    BY <1>5, <1>6, <1>7 DEF SeqInv

(* An empty queue.                                                         *)
LEMMA EmptySequence == txq' = <<>> => SeqInv'
  BY EmptySeq DEF SeqInv, SendSequence, Below, Ordered

(* A step that leaves the queue and the buffers alone.                     *)
LEMMA SameKeeps == TypeOK /\ UNCHANGED <<txq, mem>> => Keeps(0)
  <1> SUFFICES ASSUME TypeOK, UNCHANGED <<txq, mem>> PROVE Keeps(0)
    OBVIOUS
  <1>1. Len(txq) \in Nat
    BY QueueTypes
  <1>2. \A i \in 1 .. Len(txq) : i + 0 = i
    BY <1>1
  <1> QED
    BY <1>1, <1>2 DEF Keeps

(* A packet that is queued begins at snd_nxt and ends at the new snd_nxt.  *)
LEMMA EnqueueSequence ==
  ASSUME TypeInv, BufferOwnership, SeqInv, apc \in {"swrQ", "psendQ"},
         NEW f \in SUBSET Flag, NEW len \in Nat, NEW a \in Nat, NEW pc,
         Enqueue(f, len, a, pc),
         a = snd_nxt + len + One("SYN" \in f \/ "FIN" \in f), snd_nxt < a
  PROVE  SeqInv'
  <1>1. abuf \in Bufs /\ abuf \notin Queued
    BY DEF TypeInv, HoldsBuffer, BufferOwnership, AppOwned
  <1>2. /\ Len(txq') = Len(txq) + 1
        /\ \A i \in 1 .. Len(txq) : txq'[i] = txq[i]
        /\ txq'[Len(txq')].ack = a /\ txq'[Len(txq')].packet = abuf
    BY <1>1, EnqueueType DEF TypeInv
  <1> DEFINE s == setTxPacket(f, snd_nxt, rcv_nxt, len, rxlen)
  <1>3. mem' = [mem EXCEPT ![abuf] = s] /\ snd_nxt' = a
    BY DEF Enqueue
  <1>4. s.seq = snd_nxt /\ SegmentEnd(s) = a
    BY DEF setTxPacket, SegmentEnd, hasFlag
  <1> HIDE DEF s
  <1>5. /\ Len(txq) \in Nat /\ snd_nxt \in Nat
        /\ \A i \in 1 .. Len(txq) : txq[i].packet \in Bufs /\ txq[i].ack \in Nat
    BY QueueTypes DEF TypeInv, TypeOK
  <1>6. mem'[abuf] = s
    BY <1>1, <1>3 DEF TypeInv, TypeOK
  <1>7. \A i \in 1 .. Len(txq) : mem'[txq[i].packet] = mem[txq[i].packet]
    <2> TAKE i \in 1 .. Len(txq)
    <2>1. txq[i].packet # abuf /\ txq[i].packet \in Bufs
      BY <1>1, <1>5 DEF Queued, Packets
    <2> QED
      BY <1>3, <2>1 DEF TypeInv, TypeOK
  <1>8. \A i \in 1 .. Len(txq') : i \in 1 .. Len(txq) \/ i = Len(txq')
    BY <1>2, <1>5
  <1>9. SendSequence'
    <2> SUFFICES ASSUME NEW i \in 1 .. Len(txq')
                 PROVE  /\ SegmentEnd(mem'[txq'[i].packet]) = txq'[i].ack
                        /\ mem'[txq'[i].packet].seq < txq'[i].ack
                        /\ i > 1 => txq'[i - 1].ack <= mem'[txq'[i].packet].seq
      BY DEF SendSequence
    <2>1. i > 1 => i - 1 \in 1 .. Len(txq) /\ txq'[i - 1] = txq[i - 1]
      BY <1>2, <1>5
    <2>2. CASE i \in 1 .. Len(txq)
      BY <1>2, <1>7, <2>1, <2>2 DEF SeqInv, SendSequence
    <2>3. CASE i = Len(txq')
      BY <1>2, <1>4, <1>6, <2>1, <2>3 DEF SeqInv, Below
    <2> QED
      BY <1>8, <2>2, <2>3
  <1>10. Below'
    <2> SUFFICES ASSUME NEW i \in 1 .. Len(txq') PROVE txq'[i].ack <= snd_nxt'
      BY DEF Below
    <2>1. CASE i \in 1 .. Len(txq)
      BY <1>2, <1>3, <1>5, <2>1 DEF SeqInv, Below
    <2>2. CASE i = Len(txq')
      BY <1>2, <1>3, <2>2
    <2> QED
      BY <1>8, <2>1, <2>2
  <1>11. Ordered'
    <2> SUFFICES ASSUME NEW i \in 1 .. Len(txq'), NEW j \in 1 .. Len(txq'), i < j
                 PROVE  txq'[i].ack <= mem'[txq'[j].packet].seq
      BY DEF Ordered
    <2>1. i \in 1 .. Len(txq) /\ txq'[i] = txq[i]
      BY <1>2, <1>5
    <2>2. CASE j \in 1 .. Len(txq)
      <3>1. txq[i].ack <= mem[txq[j].packet].seq
        BY <2>1, <2>2 DEF SeqInv, Ordered
      <3> QED
        BY <1>2, <1>7, <2>1, <2>2, <3>1
    <2>3. CASE j = Len(txq')
      <3>1. mem'[txq'[j].packet].seq = snd_nxt
        BY <1>2, <1>4, <1>6, <2>3
      <3> QED
        BY <2>1, <3>1 DEF SeqInv, Below
    <2> QED
      BY <1>8, <2>2, <2>3
  <1> QED
    BY <1>9, <1>10, <1>11 DEF SeqInv

(* parseRx takes the acknowledged packets off the queue, and rewrites only *)
(* the acknowledgement number of what stays.                               *)
LEMMA ParseRxKeeps ==
  ASSUME TypeOK, NEW seg \in AnySegment, ParseRx(seg)
  PROVE  \E k : Keeps(k) /\ (k # 0 => txq[k].ack = seg.ack)
  <1>1. CASE hasFlag(seg, "RST")
    BY <1>1, SameKeeps DEF ParseRx
  <1>2. CASE ~hasFlag(seg, "RST")
    <2> DEFINE k == AckedPackets(seg)
    <2>1. txq' = SubSeq(txq, k + 1, Len(txq)) /\ updateTxAck(seg)
      BY <1>2 DEF ParseRx
    <2>2. /\ k \in 0 .. Len(txq) /\ Len(txq') = Len(txq) - k
          /\ \A i \in 1 .. Len(txq') : txq'[i] = txq[i + k]
      BY <2>1, AckedQueue
    <2> HIDE DEF k
    <2>3. Len(txq) \in Nat /\ \A i \in 1 .. Len(txq') : i + k \in 1 .. Len(txq)
      BY <2>2, QueueTypes
    <2>4. \A b \in Bufs : /\ mem'[b].flags = mem[b].flags
                          /\ mem'[b].seq = mem[b].seq /\ mem'[b].len = mem[b].len
      BY <2>1, QueueTypes DEF updateTxAck, Segment
    <2>5. Keeps(k)
      BY <2>2, <2>3, <2>4, QueueTypes DEF Keeps
    <2>6. k # 0 => txq[k].ack = seg.ack
      BY AckIndexRange DEF k, AckedPackets, TypeOK
    <2> QED
      BY <2>5, <2>6
  <1> QED
    BY <1>1, <1>2

(* A retransmission changes the timer of the oldest packet only.           *)
LEMMA RetransmitKeeps ==
  ASSUME TypeOK, PeriodicRetransmit
  PROVE  Keeps(0)
  <1>1. Len(txq) \in Nat
    BY QueueTypes
  <1>2. \A i \in 1 .. Len(txq) : i + 0 = i
    BY <1>1
  <1>3. mem' = mem
    BY DEF PeriodicRetransmit
  <1> QED
    BY <1>1, <1>2, <1>3, RetransmitQueue DEF Keeps

(* The steps of the application that leave the queue as it is.             *)
AppKeeps ==
    \/ Accept \/ Close \/ SwrAlloc \/ SwrTx \/ WaitForTxRemove \/ CloseLoop
    \/ CloseLastAck \/ ForceClosed \/ AppSendRst \/ Precv
    \/ \E n \in 0 .. WinMod - 1 : Pseek(n)
    \/ AllocSendBuf \/ ReleaseSendBuf
    \/ \E lim \in 1 .. MaxLen : AllocSendBufWindow(lim)
    \/ Psend \/ PsendTx

LEMMA AppKeepsQueue ==
  AppKeeps => UNCHANGED <<txq, mem>> /\ (snd_nxt' = snd_nxt \/ snd_nxt' = snd_nxt + 1)
  BY DEF AppKeeps, Accept, Close, SwrAlloc, SwrTx, WaitForTxRemove, CloseLoop,
     CloseLastAck, ForceClosed, AppSendRst, sendRst, Precv, Pseek, AllocSendBuf,
     ReleaseSendBuf, AllocSendBufWindow, Psend, PsendTx, conn

(* The application's steps.                                                *)
LEMMA SequenceApp == OwnInv /\ SeqInv /\ AppStep => SeqInv'
  <1> SUFFICES ASSUME OwnInv, SeqInv, AppStep PROVE SeqInv'
    OBVIOUS
  <1>1. TypeInv /\ TypeOK /\ BufferOwnership /\ snd_nxt \in Nat
    BY DEF OwnInv, TypeInv, TypeOK
  <1>2. CASE \/ \E rcv \in Nat : ListenSyn(rcv)
             \/ Connect \/ Finalize \/ Initialize
    <2>1. txq' = <<>>
      BY <1>2 DEF ListenSyn, Connect, Finalize, Initialize, Open, resetTxQ
    <2> QED
      BY <2>1, EmptySequence
  <1>3. CASE SwrQueue
    <2>1. CASE /\ state # "CLOSED"
               /\ Enqueue(ControlFlags, 0, snd_nxt + 1, "swrTx")
      <3>1. /\ ControlFlags \in SUBSET Flag
            /\ "SYN" \in ControlFlags \/ "FIN" \in ControlFlags
        BY DEF ControlFlags, Flag
      <3>2. apc \in {"swrQ", "psendQ"}
        BY <1>3 DEF SwrQueue, AppAt
      <3>3. snd_nxt + 1 \in Nat /\ snd_nxt < snd_nxt + 1
            /\ snd_nxt + 1 = snd_nxt + 0 + One("SYN" \in ControlFlags \/ "FIN" \in ControlFlags)
        BY <1>1, <3>1 DEF One
      <3> HIDE DEF ControlFlags
      <3> QED
        BY <1>1, <2>1, <3>1, <3>2, <3>3, EnqueueSequence
    <2>2. CASE UNCHANGED <<txq, mem, snd_nxt>>
      BY <1>1, <2>2, SameKeeps, KeepsSequence
    <2> QED
      BY <1>3, <2>1, <2>2 DEF SwrQueue
  <1>4. ASSUME NEW len \in 1 .. MaxLen, PsendQueue(len) PROVE SeqInv'
    <2>1. CASE Enqueue({"ACK", "PSH"}, len, snd_nxt + len, "psendTx")
      <3> DEFINE f == {"ACK", "PSH"}
      <3>1. f \in SUBSET Flag /\ ~("SYN" \in f \/ "FIN" \in f)
        BY DEF Flag
      <3>2. apc \in {"swrQ", "psendQ"}
        BY <1>4 DEF PsendQueue, AppAt
      <3>3. len \in Nat /\ snd_nxt + len \in Nat /\ snd_nxt < snd_nxt + len
        BY <1>1, SocketAssumption
      <3>4. snd_nxt + len = snd_nxt + len + One("SYN" \in f \/ "FIN" \in f)
        BY <1>1, <3>1, <3>3 DEF One
      <3>5. Enqueue(f, len, snd_nxt + len, "psendTx")
        BY <2>1
      <3> HIDE DEF f
      <3> QED
        BY <1>1, <3>1, <3>2, <3>3, <3>4, <3>5, EnqueueSequence
    <2>2. CASE UNCHANGED <<txq, mem, snd_nxt>>
      BY <1>1, <2>2, SameKeeps, KeepsSequence
    <2> QED
      BY <1>4, <2>1, <2>2 DEF PsendQueue
  <1>5. CASE AppKeeps
    <2>1. Keeps(0) /\ snd_nxt' \in Nat /\ snd_nxt <= snd_nxt'
      BY <1>1, <1>5, AppKeepsQueue, SameKeeps
    <2> QED
      BY <1>1, <2>1, KeepsSequence
  <1> QED
    BY InSegmentAny, <1>2, <1>3, <1>4, <1>5 DEF AppStep, App, AppKeeps

(* The uip task's steps.                                                   *)
LEMMA SequenceUip == OwnInv /\ SeqInv /\ UipStep => SeqInv'
  <1> SUFFICES ASSUME OwnInv, SeqInv, UipStep PROVE SeqInv'
    OBVIOUS
  <1>1. TypeOK /\ snd_nxt \in Nat
    BY DEF OwnInv, TypeInv, TypeOK
  <1>2. ASSUME NEW seg \in AnySegment, ParseRx(seg) PROVE SeqInv'
    <2>1. snd_nxt' = snd_nxt
      BY <1>2 DEF ParseRx
    <2> QED
      BY <1>1, <1>2, <2>1, ParseRxKeeps, KeepsSequence
  <1>3. CASE PeriodicRetransmit
    <2>1. snd_nxt' = snd_nxt
      BY <1>3 DEF PeriodicRetransmit, conn
    <2> QED
      BY <1>1, <1>3, <2>1, RetransmitKeeps, KeepsSequence
  <1>4. CASE PeriodicClosed \/ PeriodicGiveUp
    BY <1>4, EmptySequence DEF PeriodicClosed, PeriodicGiveUp, UipReset, resetTxQ
  <1>5. CASE StopService
    <2>1. txq' = <<>> \/ UNCHANGED <<txq, mem, snd_nxt>>
      BY <1>5 DEF StopService, UipReset, resetTxQ
    <2> QED
      BY <1>1, <2>1, EmptySequence, SameKeeps, KeepsSequence
  <1>6. CASE Release \/ UipSendRst \/ StartService
    <2>1. /\ UNCHANGED <<txq, mem>>
          /\ snd_nxt' = snd_nxt \/ snd_nxt' = snd_nxt + 1
      BY <1>6 DEF Release, UipSendRst, sendRst, StartService, conn
    <2>2. Keeps(0) /\ snd_nxt' \in Nat /\ snd_nxt <= snd_nxt'
      BY <1>1, <2>1, SameKeeps
    <2> QED
      BY <1>1, <2>2, KeepsSequence
  <1> QED
    BY InSegmentAny, <1>2, <1>3, <1>4, <1>5, <1>6 DEF UipStep, Uip

(* At the start nothing is queued.                                         *)
LEMMA SeqInit == Init => SeqInv
  <1> SUFFICES ASSUME Init PROVE SeqInv
    OBVIOUS
  <1>1. Len(txq) = 0
    BY EmptySeq DEF Init
  <1> QED
    BY <1>1 DEF SeqInv, SendSequence, Below, Ordered

(* What would be retransmitted is what was sent: every queued packet ends  *)
(* at its acknowledgement number and follows the one before it, in every   *)
(* environment, although updateTxAck rewrites the headers.                 *)
THEOREM SendsInSequence == Spec => []SendSequence
  <1>1. Init => SeqInv
    BY SeqInit
  <1>2. OwnInv /\ SeqInv /\ [Next]_vars => SeqInv'
    <2> SUFFICES ASSUME OwnInv, SeqInv, [Next]_vars PROVE SeqInv'
      OBVIOUS
    <2>1. CASE Next
      BY <2>1, SequenceApp, SequenceUip, StepsOfNext
    <2>2. CASE UNCHANGED vars
      <3>1. UNCHANGED <<txq, mem, snd_nxt>>
        BY <2>2 DEF vars, conn
      <3>2. TypeOK /\ snd_nxt \in Nat
        BY DEF OwnInv, TypeInv, TypeOK
      <3> QED
        BY <3>1, <3>2, SameKeeps, KeepsSequence
    <2> QED
      BY <2>1, <2>2
  <1>3. SeqInv => SendSequence
    BY DEF SeqInv
  <1> QED
    BY <1>1, <1>2, <1>3, OwnInvariant, PTL DEF Spec

-----------------------------------------------------------------------------
(* Resets and the gapless queue *)

(* The application, which alone opens the socket, sends its own reset on   *)
(* the socket it has closed.                                               *)
RstInv == apc = "rst" => state = "CLOSED"

(* parseRx does not open a closed socket.                                  *)
LEMMA ParseRxClosed ==
  ASSUME NEW seg \in AnySegment, ParseRx(seg), state = "CLOSED"
  PROVE  state' = "CLOSED"
  BY DEF ParseRx, RxByState

(* The uip task's steps never open a closed socket.                        *)
LEMMA UipClosed == UipStep /\ state = "CLOSED" => state' = "CLOSED"
  BY InSegmentAny, ParseRxClosed DEF UipStep, Uip, Release, UipSendRst, PeriodicClosed,
     PeriodicRetransmit, PeriodicGiveUp, StopService, StartService, conn

LEMMA RstApp == RstInv /\ AppStep => RstInv'
  <1> SUFFICES ASSUME RstInv, AppStep PROVE RstInv'
    OBVIOUS
  <1> USE DEF RstInv, AppAt, conn, appVars, uipVars
  <1>1. CASE (\E rcv \in Nat : ListenSyn(rcv)) \/ Connect \/ Accept \/ Close
    BY <1>1 DEF ListenSyn, Connect, Open, Accept, Close
  <1>2. CASE SwrAlloc \/ SwrQueue \/ SwrTx \/ WaitForTxRemove
    BY <1>2 DEF SwrAlloc, SwrQueue, Enqueue, SwrTx, WaitForTxRemove
  <1>3. CASE CloseLoop \/ CloseLastAck \/ ForceClosed \/ AppSendRst
    BY <1>3 DEF CloseLoop, CloseLastAck, ForceClosed, AppSendRst, sendRst
  <1>4. CASE Precv \/ \E n \in 0 .. WinMod - 1 : Pseek(n)
    BY <1>4 DEF Precv, Pseek
  <1>5. CASE \/ AllocSendBuf \/ ReleaseSendBuf
             \/ \E lim \in 1 .. MaxLen : AllocSendBufWindow(lim)
    BY <1>5 DEF AllocSendBuf, ReleaseSendBuf, AllocSendBufWindow
  <1>6. CASE Psend \/ PsendTx \/ \E len \in 1 .. MaxLen : PsendQueue(len)
    BY <1>6 DEF Psend, PsendTx, PsendQueue, Enqueue
  <1>7. CASE Finalize \/ Initialize
    BY <1>7 DEF Finalize, Initialize
  <1> QED
    BY InSegmentAny, <1>1, <1>2, <1>3, <1>4, <1>5, <1>6, <1>7 DEF AppStep, App

LEMMA RstUip == RstInv /\ UipStep => RstInv'
  <1> SUFFICES ASSUME RstInv, UipStep PROVE RstInv'
    OBVIOUS
  <1>1. apc' = apc
    BY DEF UipStep, Uip, ParseRx, Release, UipSendRst, PeriodicClosed,
       PeriodicRetransmit, PeriodicGiveUp, StopService, StartService, appVars
  <1> QED
    BY <1>1, UipClosed DEF RstInv

LEMMA RstInvariant == Spec => []RstInv
  <1>1. Init => RstInv
    BY DEF Init, RstInv
  <1>2. RstInv /\ [Next]_vars => RstInv'
    <2> SUFFICES ASSUME RstInv, [Next]_vars PROVE RstInv'
      OBVIOUS
    <2>1. CASE Next
      BY <2>1, RstApp, RstUip, StepsOfNext
    <2>2. CASE UNCHANGED vars
      BY <2>2 DEF RstInv, vars, conn, appVars, uipVars
    <2> QED
      BY <2>1, <2>2
  <1> QED
    BY <1>1, <1>2, PTL DEF Spec

(* Packets that leave the front of the queue leave no gap.                 *)
LEMMA KeepsGapless ==
  ASSUME TypeOK, SendGapless, UNCHANGED <<snd_nxt, stray>>,
         state = "CLOSED" => state' = "CLOSED", txq' \in Seq(Item),
         NEW k, Keeps(k)
  PROVE  SendGapless'
  <1> SUFFICES ASSUME ~stray', state' # "CLOSED", txq' # <<>>
               PROVE  /\ txq'[Len(txq')].ack = snd_nxt'
                      /\ \A i \in 2 .. Len(txq') :
                           mem'[txq'[i].packet].seq = txq'[i - 1].ack
    BY DEF SendGapless
  <1>1. Len(txq) \in Nat /\ k \in Nat /\ Len(txq') = Len(txq) - k
    BY QueueTypes DEF Keeps
  <1>2. Len(txq') # 0
    BY EmptySeq
  <1>3. Len(txq') \in 1 .. Len(txq') /\ Len(txq') + k = Len(txq) /\ Len(txq) # 0
    BY <1>1, <1>2 DEF Keeps
  <1>4. txq # <<>> /\ state # "CLOSED" /\ ~stray
    BY <1>3, EmptySeq
  <1>5. txq'[Len(txq')].ack = txq[Len(txq)].ack
    BY <1>3 DEF Keeps
  <1>6. \A i \in 2 .. Len(txq') :
          /\ i \in 1 .. Len(txq') /\ i - 1 \in 1 .. Len(txq')
          /\ i + k \in 2 .. Len(txq) /\ (i - 1) + k = (i + k) - 1
    BY <1>1
  <1>7. ASSUME NEW i \in 2 .. Len(txq')
        PROVE  mem'[txq'[i].packet].seq = txq'[i - 1].ack
    <2>1. mem'[txq'[i].packet].seq = mem[txq[i + k].packet].seq
      BY <1>6 DEF Keeps
    <2>2. txq'[i - 1].ack = txq[(i + k) - 1].ack
      BY <1>6 DEF Keeps
    <2>3. mem[txq[i + k].packet].seq = txq[(i + k) - 1].ack
      BY <1>4, <1>6 DEF SendGapless
    <2> QED
      BY <2>1, <2>2, <2>3
  <1> QED
    BY <1>4, <1>5, <1>7 DEF SendGapless

(* A packet that is queued follows the last one without a gap.             *)
LEMMA EnqueueGapless ==
  ASSUME TypeInv, BufferOwnership, SendGapless, state # "CLOSED", stray' = stray,
         apc \in {"swrQ", "psendQ"},
         NEW f \in SUBSET Flag, NEW len \in Nat, NEW a \in Nat, NEW pc,
         Enqueue(f, len, a, pc)
  PROVE  SendGapless'
  <1>1. abuf \in Bufs /\ abuf \notin Queued
    BY DEF TypeInv, HoldsBuffer, BufferOwnership, AppOwned
  <1>2. /\ Len(txq') = Len(txq) + 1
        /\ \A i \in 1 .. Len(txq) : txq'[i] = txq[i]
        /\ txq'[Len(txq')].ack = a /\ txq'[Len(txq')].packet = abuf
    BY <1>1, EnqueueType DEF TypeInv
  <1>3. /\ txq \in Seq(Item) /\ Len(txq) \in Nat
        /\ \A i \in 1 .. Len(txq) : txq[i].packet \in Bufs
    BY QueueTypes DEF TypeInv, TypeOK
  <1>4. mem'[abuf].seq = snd_nxt /\ snd_nxt' = a
    BY <1>1 DEF Enqueue, setTxPacket, TypeInv, TypeOK
  <1>5. \A i \in 1 .. Len(txq) : mem'[txq[i].packet] = mem[txq[i].packet]
    <2> TAKE i \in 1 .. Len(txq)
    <2>1. txq[i].packet # abuf /\ txq[i].packet \in Bufs
      BY <1>1, <1>3 DEF Queued, Packets
    <2>2. mem' = [mem EXCEPT ![abuf] = setTxPacket(f, snd_nxt, rcv_nxt, len, rxlen)]
      BY DEF Enqueue
    <2> QED
      BY <2>1, <2>2 DEF TypeInv, TypeOK
  <1>6. ASSUME NEW i \in 2 .. Len(txq'), ~stray
        PROVE  mem'[txq'[i].packet].seq = txq'[i - 1].ack
    <2>1. i - 1 \in 1 .. Len(txq) /\ (i \in 2 .. Len(txq) \/ i = Len(txq'))
      BY <1>2, <1>3
    <2>2. txq # <<>>
      BY <1>3, <2>1, EmptySeq
    <2>3. CASE i \in 2 .. Len(txq)
      <3>1. i \in 1 .. Len(txq) /\ mem[txq[i].packet].seq = txq[i - 1].ack
        BY <1>3, <1>6, <2>2, <2>3 DEF SendGapless
      <3> QED
        BY <1>2, <1>5, <2>1, <3>1
    <2>4. CASE i = Len(txq')
      <3>1. i - 1 = Len(txq) /\ txq[Len(txq)].ack = snd_nxt
        BY <1>2, <1>3, <1>6, <2>2, <2>4 DEF SendGapless
      <3> QED
        BY <1>2, <1>4, <2>1, <2>4, <3>1
    <2> QED
      BY <2>1, <2>3, <2>4
  <1> QED
    BY <1>2, <1>4, <1>6 DEF SendGapless

(* A closed socket, and an empty queue, have nothing to be gapless, and a  *)
(* stray reset spoils it.                                                  *)
LEMMA NothingGapless == state' = "CLOSED" \/ txq' = <<>> \/ stray' = TRUE => SendGapless'
  BY DEF SendGapless

(* A step that leaves the queue and snd_nxt alone and opens nothing.       *)
LEMMA SameGapless ==
  ASSUME TypeOK, SendGapless, UNCHANGED <<txq, mem, snd_nxt, stray>>,
         state = "CLOSED" => state' = "CLOSED"
  PROVE  SendGapless'
  BY DEF SendGapless

LEMMA GaplessApp ==
  OwnInv /\ RstInv /\ SendGapless /\ AppStep => SendGapless'
  <1> SUFFICES ASSUME OwnInv, RstInv, SendGapless, AppStep
               PROVE  SendGapless'
    OBVIOUS
  <1>1. TypeInv /\ TypeOK /\ BufferOwnership /\ snd_nxt \in Nat
    BY DEF OwnInv, TypeInv, TypeOK
  <1>2. CASE \/ \E rcv \in Nat : ListenSyn(rcv)
             \/ Connect \/ Finalize \/ Initialize
    BY <1>2, NothingGapless
       DEF ListenSyn, Connect, Finalize, Initialize, Open, resetTxQ
  <1>3. CASE SwrQueue
    <2>1. CASE /\ state # "CLOSED"
               /\ Enqueue(ControlFlags, 0, snd_nxt + 1, "swrTx")
      <3>1. ControlFlags \in SUBSET Flag
        BY DEF ControlFlags, Flag
      <3>2. /\ apc \in {"swrQ", "psendQ"} /\ snd_nxt + 1 \in Nat /\ 0 \in Nat
            /\ stray' = stray
        BY <1>1, <1>3 DEF SwrQueue, AppAt, hist
      <3> HIDE DEF ControlFlags
      <3> QED
        BY <1>1, <2>1, <3>1, <3>2, EnqueueGapless
    <2>2. CASE UNCHANGED <<txq, mem, snd_nxt>>
      BY <1>1, <1>3, <2>2, SameGapless DEF SwrQueue, hist
    <2> QED
      BY <1>3, <2>1, <2>2 DEF SwrQueue
  <1>4. ASSUME NEW len \in 1 .. MaxLen, PsendQueue(len) PROVE SendGapless'
    <2>1. CASE /\ state # "CLOSED"
               /\ Enqueue({"ACK", "PSH"}, len, snd_nxt + len, "psendTx")
      <3>1. {"ACK", "PSH"} \in SUBSET Flag
        BY DEF Flag
      <3>2. /\ apc \in {"swrQ", "psendQ"} /\ len \in Nat /\ snd_nxt + len \in Nat
            /\ stray' = stray
        BY <1>1, <1>4, SocketAssumption DEF PsendQueue, AppAt, hist
      <3> QED
        BY <1>1, <2>1, <3>1, <3>2, EnqueueGapless
    <2>2. CASE UNCHANGED <<txq, mem, snd_nxt>>
      BY <1>1, <1>4, <2>2, SameGapless DEF PsendQueue, hist
    <2> QED
      BY <1>4, <2>1, <2>2 DEF PsendQueue
  <1>5. CASE AppSendRst
    <2>1. CASE apc = "rst"
      BY <1>5, <2>1, NothingGapless DEF AppSendRst, RstInv
    <2>2. CASE apc # "rst"
      BY <1>1, <1>5, <2>2, SameGapless DEF AppSendRst, sendRst, hist
    <2> QED
      BY <2>1, <2>2
  <1>6. CASE AppKeeps /\ ~AppSendRst
    <2>1. UNCHANGED <<txq, mem, snd_nxt, stray>> /\ (state = "CLOSED" => state' = "CLOSED")
      BY <1>6 DEF AppKeeps, Accept, Close, SwrAlloc, SwrTx, WaitForTxRemove, CloseLoop,
         CloseLastAck, ForceClosed, Precv, Pseek, AllocSendBuf,
         ReleaseSendBuf, AllocSendBufWindow, Psend, PsendTx, conn, hist
    <2> QED
      BY <1>1, <2>1, SameGapless
  <1> QED
    BY InSegmentAny, <1>2, <1>3, <1>4, <1>5, <1>6 DEF AppStep, App, AppKeeps

LEMMA GaplessUip == OwnInv /\ SendGapless /\ UipStep => SendGapless'
  <1> SUFFICES ASSUME OwnInv, SendGapless, UipStep PROVE SendGapless'
    OBVIOUS
  <1>1. TypeInv /\ TypeOK /\ TypeOK' /\ txq' \in Seq(Item)
    BY UipType DEF OwnInv, TypeInv, TypeOK
  <1>2. ASSUME NEW seg \in AnySegment, ParseRx(seg) PROVE SendGapless'
    <2>1. UNCHANGED <<snd_nxt, stray>> /\ (state = "CLOSED" => state' = "CLOSED")
      BY <1>2, UipClosed DEF ParseRx, hist
    <2> QED
      BY <1>1, <1>2, <2>1, ParseRxKeeps, KeepsGapless
  <1>3. CASE PeriodicRetransmit
    <2>1. UNCHANGED <<snd_nxt, stray, state>>
      BY <1>3 DEF PeriodicRetransmit, conn, hist
    <2> QED
      BY <1>1, <1>3, <2>1, RetransmitKeeps, KeepsGapless
  <1>4. CASE PeriodicClosed \/ PeriodicGiveUp
    BY <1>4, NothingGapless DEF PeriodicClosed, PeriodicGiveUp, UipReset, resetTxQ
  <1>5. CASE StopService
    <2>1. state' = "CLOSED" \/ UNCHANGED <<txq, mem, snd_nxt, state, stray>>
      BY <1>5 DEF StopService, hist
    <2> QED
      BY <1>1, <2>1, NothingGapless, SameGapless
  <1>6. CASE Release \/ StartService
    BY <1>1, <1>6, SameGapless DEF Release, StartService, conn, hist
  <1>7. CASE UipSendRst
    <2>1. CASE upc = "rst"
      <3>1. state' = "CLOSED" \/ stray' = TRUE
        BY <1>7, <2>1 DEF UipSendRst
      <3> QED
        BY <3>1, NothingGapless
    <2>2. CASE upc # "rst"
      <3>1. UNCHANGED <<txq, mem, snd_nxt, state, stray>>
        BY <1>1, <1>7, <2>2 DEF UipSendRst, sendRst, TypeOK
      <3> QED
        BY <1>1, <3>1, SameGapless
    <2> QED
      BY <2>1, <2>2
  <1> QED
    BY InSegmentAny, <1>2, <1>3, <1>4, <1>5, <1>6, <1>7 DEF UipStep, Uip

(* While the connection is open, sending the queue again brings the peer   *)
(* up to snd_nxt, wherever the uip task blocks: a reset is the one step    *)
(* that takes a number without a packet, and only the uip task's reset of  *)
(* the connection before can take it from an open one.                     *)
THEOREM SendsGapless == Spec => []SendGapless
  <1>1. Init => SendGapless
    BY DEF Init, SendGapless
  <1>2. OwnInv /\ RstInv /\ SendGapless /\ [Next]_vars => SendGapless'
    <2> SUFFICES ASSUME OwnInv, RstInv, SendGapless, [Next]_vars
                 PROVE  SendGapless'
      OBVIOUS
    <2>1. CASE Next
      BY <2>1, GaplessApp, GaplessUip, StepsOfNext
    <2>2. CASE UNCHANGED vars
      BY <2>2 DEF SendGapless, vars, conn, hist
    <2> QED
      BY <2>1, <2>2
  <1> QED
    BY <1>1, <1>2, OwnInvariant, RstInvariant, PTL DEF Spec

-----------------------------------------------------------------------------
(* The receive buffer *)

(* The entry of a call in progress is used.                                *)
RxInv == ReceiveBound /\ (used = FALSE => apc = "idle")

(* Data is taken only when it fits, so that rxlen does not wrap.           *)
LEMMA ParseRxBound ==
  ASSUME TypeOK, rxlen <= RxSize, NEW seg \in AnySegment, ParseRx(seg)
  PROVE  rxlen <= rxlen' /\ rxlen' <= RxSize
  <1>1. seg.len \in Nat /\ rxlen \in Nat /\ rxlen < WinMod /\ RxSize \in Nat
        /\ RxSize < WinMod /\ WinMod \in Nat
    BY SocketAssumption, AnySegmentFields DEF TypeOK
  <1>2. getSpace(rxlen) = RxSize - rxlen
    BY <1>1 DEF getSpace, u16
  <1>3. \A n \in Nat : n <= RxSize - rxlen => u16(rxlen + n) = rxlen + n
    BY <1>1 DEF u16
  <1>4. ASSUME RxEstablished(seg) PROVE rxlen <= rxlen' /\ rxlen' <= RxSize
    <2> DEFINE fits == isNewPacket(seg) /\ seg.len > 0 /\ getSpace(rxlen) >= seg.len
               took == IF fits THEN seg.len ELSE 0
    <2>1. rxlen' = u16(rxlen + took)
      BY <1>4 DEF RxEstablished
    <2>2. took \in Nat /\ took <= RxSize - rxlen
      BY <1>1, <1>2
    <2> HIDE DEF took
    <2> QED
      BY <1>1, <1>3, <2>1, <2>2
  <1>5. RxEstablished(seg) \/ rxlen' = rxlen
    BY DEF ParseRx, RxByState, RxSynRcvd, RxFinWait1, RxFinWait2, RxAwaitAck,
       RxSynSent
  <1> QED
    BY <1>1, <1>4, <1>5

LEMMA ReceiveApp == TypeOK /\ RxInv /\ AppStep => RxInv'
  <1> SUFFICES ASSUME TypeOK, RxInv, AppStep PROVE RxInv'
    OBVIOUS
  <1> USE DEF RxInv, ReceiveBound, AppAt, conn, appVars, uipVars, hist
  <1>1. rxlen \in Nat /\ rxlen < WinMod /\ RxSize \in Nat /\ WinMod \in Nat
        /\ alen \in Nat
    BY SocketAssumption DEF TypeOK
  <1>2. CASE (\E rcv \in Nat : ListenSyn(rcv)) \/ Connect
    <2>1. apc' # "seek" /\ rxlen' = 0 /\ used' = used /\ used
      BY <1>2, Zenon DEF ListenSyn, Connect, Open
    <2> QED
      BY <1>1, <2>1
  <1>3. CASE Accept \/ Close \/ SwrAlloc \/ SwrQueue \/ SwrTx
    <2>1. apc' # "seek" /\ UNCHANGED <<rxlen, used, emptied>> /\ used
      BY <1>3, Zenon DEF Accept, Close, SwrAlloc, SwrQueue, Enqueue, SwrTx
    <2> QED
      BY <2>1
  <1>4. CASE WaitForTxRemove \/ CloseLoop \/ CloseLastAck \/ ForceClosed
    <2>1. apc' # "seek" /\ UNCHANGED <<rxlen, used, emptied>> /\ used
      BY <1>4, Zenon DEF WaitForTxRemove, CloseLoop, CloseLastAck, ForceClosed
    <2> QED
      BY <2>1
  <1>5. CASE AppSendRst
    <2>1. /\ apc # "idle" /\ apc' # "seek"
          /\ UNCHANGED <<rxlen, used, emptied>>
      BY <1>5 DEF AppSendRst, sendRst
    <2> QED
      BY <2>1
  <1>6. CASE Precv
    BY <1>1, <1>6 DEF Precv
  <1>7. ASSUME NEW n \in 0 .. WinMod - 1, Pseek(n) PROVE RxInv'
    <2>1. n \in 0 .. alen /\ apc = "seek" /\ apc' = "idle" /\ emptied' = emptied
          /\ used' = used /\ rxlen' = u16(rxlen - n)
      BY <1>7 DEF Pseek
    <2>2. ASSUME alen <= rxlen, rxlen <= RxSize
          PROVE  u16(rxlen - n) = rxlen - n /\ rxlen - n <= RxSize
      BY <1>1, <2>1, <2>2 DEF u16
    <2> QED
      BY <2>1, <2>2
  <1>8. CASE \/ AllocSendBuf \/ ReleaseSendBuf
             \/ \E lim \in 1 .. MaxLen : AllocSendBufWindow(lim)
    <2>1. apc' # "seek" /\ UNCHANGED <<rxlen, used, emptied>> /\ used
      BY <1>8, Zenon DEF AllocSendBuf, ReleaseSendBuf, AllocSendBufWindow
    <2> QED
      BY <2>1
  <1>9. CASE Psend \/ PsendTx \/ \E len \in 1 .. MaxLen : PsendQueue(len)
    <2>1. apc' # "seek" /\ UNCHANGED <<rxlen, used, emptied>> /\ used
      BY <1>9, Zenon DEF Psend, PsendTx, PsendQueue, Enqueue
    <2> QED
      BY <2>1
  <1>10. CASE Finalize \/ Initialize
    <2>1. /\ apc = "idle" /\ apc' = apc
          /\ rxlen' = 0 \/ UNCHANGED <<rxlen, emptied>>
      BY <1>10, Zenon DEF Finalize, Initialize, TypeOK
    <2> QED
      BY <1>1, <2>1
  <1> QED
    BY InSegmentAny, <1>2, <1>3, <1>4, <1>5, <1>6, <1>7, <1>8, <1>9, <1>10 DEF AppStep, App

LEMMA ReceiveUip == TypeOK /\ RxInv /\ UipStep => RxInv'
  <1> SUFFICES ASSUME TypeOK, RxInv, UipStep PROVE RxInv'
    OBVIOUS
  <1>1. rxlen \in Nat /\ alen \in Nat /\ RxSize \in Nat
    BY SocketAssumption DEF TypeOK
  <1>2. UNCHANGED <<apc, alen, used>>
    BY DEF UipStep, Uip, ParseRx, Release, UipSendRst, PeriodicClosed,
       PeriodicRetransmit, PeriodicGiveUp, StopService, StartService, appVars, uipVars
  <1>3. ASSUME NEW seg \in AnySegment, ParseRx(seg) PROVE RxInv'
    <2>1. emptied' = emptied
      BY <1>3 DEF ParseRx, hist
    <2>2. rxlen <= RxSize => rxlen' \in Nat /\ rxlen <= rxlen' /\ rxlen' <= RxSize
      BY <1>3, ParseRxBound, ParseRxType, SocketAssumption DEF TypeOK
    <2> QED
      BY <1>1, <1>2, <2>1, <2>2 DEF RxInv, ReceiveBound
  <1>4. CASE UNCHANGED <<rxlen, emptied>>
    BY <1>2, <1>4 DEF RxInv, ReceiveBound
  <1>5. CASE StartService
    <2>1. CASE used
      <3>1. rxlen' = 0 /\ (apc = "seek" => emptied')
        BY <1>5, <2>1 DEF StartService
      <3> QED
        BY <1>1, <1>2, <3>1 DEF RxInv, ReceiveBound
    <2>2. CASE ~used
      BY <1>2, <1>5, <2>2 DEF StartService, RxInv, ReceiveBound
    <2> QED
      BY <2>1, <2>2
  <1> QED
    BY InSegmentAny, <1>3, <1>4, <1>5 DEF UipStep, Uip, Release, UipSendRst, PeriodicClosed,
       PeriodicRetransmit, PeriodicGiveUp, StopService, conn, hist

(* addRecvData stays inside the receive buffer, and pseek finds there what *)
(* precv showed, although the interface is stopped and started again at    *)
(* any time, unless startService emptied the buffer between the two.       *)
THEOREM ReceivesInBounds == Spec => []ReceiveBound
  <1>1. Init => RxInv
    BY SocketAssumption DEF Init, RxInv, ReceiveBound
  <1>2. OwnInv /\ RxInv /\ [Next]_vars => RxInv'
    <2> SUFFICES ASSUME OwnInv, RxInv, [Next]_vars PROVE RxInv'
      OBVIOUS
    <2>1. TypeOK
      BY DEF OwnInv, TypeInv
    <2>2. CASE Next
      BY <2>1, <2>2, ReceiveApp, ReceiveUip, StepsOfNext
    <2>3. CASE UNCHANGED vars
      BY <2>3 DEF RxInv, ReceiveBound, vars, conn, appVars, uipVars, hist
    <2> QED
      BY <2>2, <2>3
  <1>3. RxInv => ReceiveBound
    BY DEF RxInv
  <1> QED
    BY <1>1, <1>2, <1>3, OwnInvariant, PTL DEF Spec
=============================================================================
