------------------------------ MODULE TcpLink ------------------------------
(***************************************************************************)
(* A TcpSocket that has been listened for, a network that loses, delays,   *)
(* reorders and repeats segments, and the remote host: a TCP that follows  *)
(* the protocol, connects, sends PeerBytes bytes and closes its half.      *)
(* One connection per behaviour.  Bytes are named by their sequence        *)
(* number: the peer's SYN is 0, its data 1 .. PeerBytes, its FIN the next. *)
(***************************************************************************)
EXTENDS TcpSocket

CONSTANTS
    PeerBytes,      \* bytes the peer sends
    PeerWindow,     \* the window the peer announces
    DevCap, PeerCap \* bounds: segments under way to each side

ASSUME LinkAssumption ==
    /\ PeerBytes \in Nat /\ PeerWindow \in 0 .. WinMod - 1
    /\ DevCap \in Nat /\ PeerCap \in Nat
    /\ MaxLen >= 1

VARIABLES
    toDev, toPeer,  \* segments under way
    opened,         \* the socket has taken the peer's SYN from the listener
    got,            \* bytes put into the receive buffer
    cut,            \* history: bytes of the segment with the FIN that found
                    \* no room, when the FIN was taken all the same
    una, nxt,       \* the peer: oldest unacknowledged, next new number
    rcv,            \* the peer: next number expected of the socket
    edge, wl,       \* the peer: end of its send window; the seq and ack
                    \* number of the segment it was taken from
    alive           \* the peer has not been reset

net      == <<toDev, toPeer>>
peer     == <<una, nxt, rcv, edge, wl, alive>>
linkVars == <<vars, net, opened, got, cut, peer>>

LinkInit ==
    /\ Init
    /\ toDev = {} /\ toPeer = {} /\ opened = FALSE
    /\ got = 0 /\ cut = 0
    /\ una = 0 /\ nxt = 0 /\ rcv = ISS /\ edge = 1 /\ wl = <<0, 0>>
    /\ alive = TRUE

-----------------------------------------------------------------------------
(* What the socket's step put on the wire arrives later, or never. *)
Transmit ==
    \E kept \in SUBSET out' :
        /\ toPeer' = toPeer \cup kept
        /\ Cardinality(toPeer') <= PeerCap

(* The application of an accepted connection. *)
LinkApp ==
    /\ \/ Accept \/ Close
       \/ SwrAlloc \/ SwrQueue \/ SwrTx \/ WaitForTxRemove \/ CloseLoop
       \/ CloseLastAck \/ ForceClosed \/ AppSendRst
       \/ Precv \/ \E n \in 1 .. WinMod - 1 : Pseek(n)
       \/ AllocSendBuf \/ ReleaseSendBuf \/ AllocSendBufWindow(MaxLen)
       \/ Psend \/ \E len \in 1 .. MaxLen : PsendQueue(len)
       \/ PsendTx
    /\ Transmit
    /\ UNCHANGED <<toDev, opened, got, cut, peer>>

LinkTimer ==
    /\ \/ Release \/ UipSendRst
       \/ PeriodicClosed \/ PeriodicRetransmit \/ PeriodicGiveUp
    /\ Transmit
    /\ UNCHANGED <<toDev, opened, got, cut, peer>>

(* The SYN goes by way of the listener's queue to a closed socket. *)
Listen ==
    /\ ~opened /\ opened' = TRUE
    /\ \E seg \in toDev :
         /\ hasFlag(seg, "SYN")
         /\ ListenSyn(seg.seq + 1)
         /\ toDev' = toDev \ {seg}
    /\ UNCHANGED <<toPeer, got, cut, peer>>

(* The IPv4 layer finds the socket by its ports while it is not closed. *)
Deliver ==
    /\ state # "CLOSED"
    /\ \E seg \in toDev :
         /\ ParseRx(seg)
         /\ toDev' = toDev \ {seg}
         /\ cut' = IF state # "CLOSE_WAIT" /\ state' = "CLOSE_WAIT"
                   THEN seg.len - (rxlen' - rxlen) ELSE cut
    /\ got' = got + rxlen' - rxlen
    /\ Transmit
    /\ UNCHANGED <<opened, peer>>

(* No socket takes the segment: a listener that is still there drops what  *)
(* is no SYN, otherwise allocTcpReverseRstAck answers.                     *)
Refuse ==
    /\ opened /\ state = "CLOSED" /\ upc = "idle"
    /\ \E seg \in toDev :
         /\ toDev' = toDev \ {seg}
         /\ out' = {[BlankSegment EXCEPT !.flags = {"RST", "ACK"},
                                         !.seq = seg.ack,
                                         !.ack = seg.seq + 1]}
    /\ Transmit
    /\ UNCHANGED <<conn, txq, mem, free, appVars, uipVars, hist, opened, got,
                   cut, peer>>

-----------------------------------------------------------------------------
(* The peer *)

End == PeerBytes + 2

(* The peer sends, or sends again, any part of what its window allows; a   *)
(* segment of length 0 is an acknowledgement and carries the next number.  *)
PeerSegment(seq, len, fin) ==
    [flags |-> {"ACK"} \cup (IF fin THEN {"FIN"} ELSE {}),
     seq |-> seq, ack |-> rcv, len |-> len, wnd |-> PeerWindow]

(* The socket takes no step. *)
Quiet == out' = {} /\ UNCHANGED <<conn, txq, mem, free, appVars, uipVars, hist>>

PeerPut(seg, next) ==
    /\ alive
    /\ toDev' = toDev \cup {seg}
    /\ Cardinality(toDev') <= DevCap
    /\ nxt' = IF next > nxt THEN next ELSE nxt
    /\ Quiet
    /\ UNCHANGED <<toPeer, opened, got, cut, una, rcv, edge, wl, alive>>

PeerSyn ==
    /\ una = 0
    /\ PeerPut([BlankSegment EXCEPT !.flags = {"SYN"}, !.wnd = PeerWindow], 1)

PeerSend ==
    /\ una > 0
    /\ \E seq \in {una, nxt}, len \in 0 .. PeerBytes, fin \in BOOLEAN :
         /\ len = 0 /\ ~fin => seq = nxt
         /\ len > 0 => seq + len <= edge /\ seq + len <= PeerBytes + 1
         /\ fin => seq + len = PeerBytes + 1
         /\ PeerPut(PeerSegment(seq, len, fin), seq + len + One(fin))

(* The peer takes an acknowledgement of what it has sent, data in order    *)
(* and, while it has data left, the window of a segment that is not older  *)
(* than the last one.                                                      *)
PeerReceive ==
    \E seg \in toPeer :
        LET synchronised == rcv # ISS \/ hasFlag(seg, "SYN")
            newer == /\ seg.ack <= PeerBytes
                     /\ \/ wl[1] < seg.seq
                        \/ wl[1] = seg.seq /\ wl[2] <= seg.ack
        IN /\ toPeer' = toPeer \ {seg}
           /\ alive' = (alive /\ ~hasFlag(seg, "RST"))
           /\ \/ /\ alive' /\ synchronised /\ seg.ack \in una .. nxt
                 /\ una' = seg.ack
                 /\ edge' = IF newer THEN seg.ack + seg.wnd ELSE edge
                 /\ wl' = IF newer THEN <<seg.seq, seg.ack>> ELSE wl
                 /\ rcv' = IF seg.seq # rcv THEN rcv
                           ELSE rcv + seg.len + One(hasFlag(seg, "SYN")
                                                    \/ hasFlag(seg, "FIN"))
              \/ /\ ~(alive' /\ synchronised /\ seg.ack \in una .. nxt)
                 /\ UNCHANGED <<una, edge, wl, rcv>>
           /\ Quiet
           /\ UNCHANGED <<toDev, opened, got, cut, nxt>>

-----------------------------------------------------------------------------
LinkNext ==
    \/ LinkApp \/ LinkTimer \/ Listen \/ Deliver \/ Refuse
    \/ PeerSyn \/ PeerSend \/ PeerReceive

LinkSpec == LinkInit /\ [][LinkNext]_linkVars

(* A call that has begun: every wait of the application has a time limit. *)
CallGoesOn == apc # "idle" /\ LinkApp

(* The uip task runs its handlers to the end and calls periodic again and  *)
(* again, and calls of the application go on.  Nothing that is sent has to *)
(* arrive, and neither side has to send anything.                          *)
TimerSpec ==
    /\ LinkSpec
    /\ WF_linkVars(LinkTimer)
    /\ WF_linkVars(CallGoesOn)

-----------------------------------------------------------------------------
(* Properties *)

(* Nothing is dropped before the peer has it: what the peer still expects  *)
(* of an open connection begins in the retransmission queue, or has not    *)
(* been sent yet.                                                          *)
NothingLost ==
    state # "CLOSED" /\ opened =>
        IF txq = <<>> THEN rcv = snd_nxt ELSE mem[txq[1].packet].seq <= rcv

(* The socket acknowledges what it took: a byte that the peer may forget   *)
(* has been put into the receive buffer, until close gives up receiving or *)
(* a FIN is taken without its data.                                        *)
AckedIsTaken ==
    state \in {"SYN_RCVD", "ESTABLISHED", "CLOSE_WAIT"} /\ cut = 0 =>
        una <= 1 + got + One(state = "CLOSE_WAIT")

(* The socket's own stream lives until the socket is closed.  It can send  *)
(* again what is in the retransmission queue.                              *)
Sending == ~opened \/ state # "CLOSED"

SendKept ==
    IF ~opened THEN ISS
    ELSE IF txq = <<>> THEN snd_nxt ELSE mem[txq[1].packet].seq

Out == INSTANCE TcpStream WITH
    First <- ISS,
    live  <- Sending,
    kept  <- IF Sending THEN SendKept ELSE ISS,
    sent  <- IF Sending /\ opened THEN snd_nxt ELSE ISS,
    taken <- IF Sending THEN rcv ELSE ISS

(* The peer's stream lives until close gives up receiving or parseRx takes *)
(* a FIN without its data, and so acknowledges bytes it does not have.     *)
(* What is taken is counted by what was put into the receive buffer, not   *)
(* by what was acknowledged.                                               *)
Receiving ==
    \/ ~opened
    \/ state \in {"SYN_RCVD", "ESTABLISHED", "CLOSE_WAIT"} /\ cut = 0

In == INSTANCE TcpStream WITH
    First <- 0,
    live  <- Receiving,
    kept  <- IF Receiving THEN una ELSE 0,
    sent  <- IF Receiving THEN nxt ELSE 0,
    taken <- IF Receiving /\ opened THEN 1 + got + One(state = "CLOSE_WAIT")
             ELSE 0

(* Over a network that loses, repeats and reorders segments the socket     *)
(* keeps what it has sent until the peer has it (updateTxQByIndex), and    *)
(* the peer never gets what was not sent or gets it twice.                 *)
SendStream == Out!StreamSpec

(* Over the same network the peer may forget only what addRecvData has put *)
(* into the receive buffer, once and in order (parseRx, updateTxAck).      *)
ReceiveStream == In!StreamSpec

(* When the end of the stream is reported (precv returns an error in       *)
(* CLOSE_WAIT with an empty buffer), all of the stream was taken, but for  *)
(* the data on the FIN's own segment when it did not fit (line 1381).      *)
EofComplete == state \in {"CLOSE_WAIT", "LAST_ACK"} => got + cut = PeerBytes

(* No packet is the oldest of the queue for ever: it is acknowledged, or   *)
(* its timer passes its maximum and closes the connection (line 1255).     *)
OldestLeaves ==
    \A n \in 1 .. MaxSeq + 1 : []<>(txq # <<>> => txq[1].ack # n)
=============================================================================
