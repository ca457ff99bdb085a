----------------------------- MODULE SnicSerial -----------------------------
(***************************************************************************)
(* The receive ring of the SNIC serial device                              *)
(* (io/NyLPC_cSnicSerialDevice.cpp) and the functions of                   *)
(* NyLPC_cSnicNetIf.c with which the message task reads from it.  The UART *)
(* interrupt puts bytes in; it can come between any two steps of the task, *)
(* and the task does not run while it is served.                           *)
(***************************************************************************)
EXTENDS Integers, Sequences

CONSTANTS
    SIZE_OF_RX_BUF,
    Byte,
    UartFifo,       \* bytes the UART holds by itself
    ReadLength      \* lengths of a read or a skip: header, arguments, payload

ASSUME SerialAssumption ==
    /\ SIZE_OF_RX_BUF \in Nat \ {0, 1}
    /\ Byte # {} /\ UartFifo \in Nat
    /\ ReadLength \subseteq Nat \ {0}

Slots == 0 .. SIZE_OF_RX_BUF - 1

VARIABLES
    rp, wp, rxbuf,  \* _rp, _wp and the ring
    uart,           \* bytes in the UART
    isr,            \* the interrupt is being served
    pc,             \* where the message task is
    raw,            \* it is in waitforRawByte, otherwise in waitForRead
    left,           \* waitForRead: bytes still to come
    len, d,         \* what pread returned: length and position
    got,            \* waitForRead: the bytes copied from there
    out,            \* the bytes handed to the parser last
    ahead           \* history: parity of the seeks over bytes not yet there

ring       == <<wp, rxbuf, uart>>
reader     == <<pc, raw, left, len, d, got, out>>
serialVars == <<rp, ring, isr, reader, ahead>>

(* NyLPC_cSnicSerialDevice_initialize *)
SerialInit ==
    /\ rp = 0 /\ wp = 0
    /\ rxbuf \in {[i \in Slots |-> b] : b \in Byte}
    /\ uart = <<>> /\ isr = FALSE
    /\ pc = "idle" /\ raw = FALSE /\ left = 0 /\ len = 0 /\ d = 0
    /\ got = <<>> /\ out = <<>> /\ ahead = 0

-----------------------------------------------------------------------------
(* The UART and its interrupt *)

(* A byte arrives on the line; the UART drops it when its own FIFO is full.*)
Arrive(b) ==
    /\ Len(uart) < UartFifo
    /\ uart' = Append(uart, b)
    /\ UNCHANGED <<rp, wp, rxbuf, isr, reader, ahead>>

Interrupt ==
    /\ ~isr /\ uart # <<>>
    /\ isr' = TRUE
    /\ UNCHANGED <<rp, ring, reader, ahead>>

RingFull == rp = (wp + 1) % SIZE_OF_RX_BUF

(* One iteration of uartHandler. *)
UartHandler ==
    /\ isr /\ uart # <<>> /\ ~RingFull
    /\ rxbuf' = [rxbuf EXCEPT ![wp] = Head(uart)]
    /\ wp' = (wp + 1) % SIZE_OF_RX_BUF
    /\ uart' = Tail(uart)
    /\ UNCHANGED <<rp, isr, reader, ahead>>

(* It returns when the UART is empty, or the ring is full: then the byte   *)
(* stays in the UART.                                                      *)
UartReturn ==
    /\ isr /\ (uart = <<>> \/ RingFull)
    /\ isr' = FALSE
    /\ UNCHANGED <<rp, ring, reader, ahead>>

-----------------------------------------------------------------------------
(* pread and its callers.  The two reads of _wp in pread are two steps.    *)

(* waitForRead(n), as readPayload and recvHeader call it. *)
WaitForRead(n) ==
    /\ ~isr /\ pc = "idle"
    /\ pc' = "wait" /\ raw' = FALSE /\ left' = n
    /\ UNCHANGED <<rp, ring, isr, len, d, got, out, ahead>>

WaitForRawByte ==
    /\ ~isr /\ pc = "idle"
    /\ pc' = "wait" /\ raw' = TRUE
    /\ UNCHANGED <<rp, ring, isr, left, len, d, got, out, ahead>>

(* Mutant: the loop is left without a byte when the semaphore times out. *)
PreadWaitOnce ==
    /\ ~isr /\ pc = "wait"
    /\ pc' = "load"
    /\ UNCHANGED <<rp, ring, isr, raw, left, len, d, got, out, ahead>>

(* The loop around the semaphore, which times out, ends when there are     *)
(* bytes.                                                                  *)
PreadWait ==
    /\ ~isr /\ pc = "wait" /\ rp # wp
    /\ pc' = "load"
    /\ UNCHANGED <<rp, ring, isr, raw, left, len, d, got, out, ahead>>

(* The bytes up to the write position, or to the end of the ring. *)
PreadLoad ==
    /\ ~isr /\ pc = "load"
    /\ len' = IF rp <= wp THEN wp - rp ELSE SIZE_OF_RX_BUF - rp
    /\ d' = rp
    /\ pc' = "have"
    /\ UNCHANGED <<rp, ring, isr, raw, left, got, out, ahead>>

Seek(n) == rp' = (rp + n) % SIZE_OF_RX_BUF

(* waitForRead copies at most what is missing ... *)
ReadCopy ==
    /\ ~isr /\ pc = "have" /\ ~raw
    /\ got' = [i \in 1 .. (IF len < left THEN len ELSE left) |-> rxbuf[d + i - 1]]
    /\ pc' = "seek"
    /\ UNCHANGED <<rp, ring, isr, raw, left, len, d, out, ahead>>

(* Mutant: it always seeks over the whole block. *)
ReadSeekBlock ==
    /\ ~isr /\ pc = "seek"
    /\ Seek(len)
    /\ left' = left - Len(got)
    /\ out' = got
    /\ pc' = IF left = Len(got) THEN "idle" ELSE "wait"
    /\ len' = 0 /\ d' = 0 /\ got' = <<>>
    /\ UNCHANGED <<ring, isr, raw, ahead>>

(* ... and seeks behind it; its locals are dead afterwards. *)
ReadSeek ==
    /\ ~isr /\ pc = "seek"
    /\ Seek(Len(got))
    /\ left' = left - Len(got)
    /\ out' = got
    /\ pc' = IF left = Len(got) THEN "idle" ELSE "wait"
    /\ len' = 0 /\ d' = 0 /\ got' = <<>>
    /\ UNCHANGED <<ring, isr, raw, ahead>>

(* waitforRawByte seeks first ... *)
RawSeek ==
    /\ ~isr /\ pc = "have" /\ raw
    /\ Seek(1)
    /\ pc' = "raw"
    /\ UNCHANGED <<ring, isr, raw, left, len, d, got, out, ahead>>

(* ... and looks at the byte afterwards. *)
RawRead ==
    /\ ~isr /\ pc = "raw"
    /\ out' = <<rxbuf[d]>>
    /\ pc' = "idle" /\ len' = 0 /\ d' = 0
    /\ UNCHANGED <<rp, ring, isr, raw, left, got, ahead>>

Arrived == (wp - rp) % SIZE_OF_RX_BUF

(* seekPayload(n) over a part of a message that no one wants.  It does not *)
(* look at what has arrived: the read position may pass the write position.*)
SeekPayload(n) ==
    /\ ~isr /\ pc = "idle"
    /\ Seek(n)
    /\ ahead' = IF n <= Arrived THEN ahead ELSE 1 - ahead
    /\ UNCHANGED <<ring, isr, reader>>

SerialNext ==
    \/ \E b \in Byte : Arrive(b)
    \/ Interrupt \/ UartHandler \/ UartReturn
    \/ \E n \in ReadLength : WaitForRead(n) \/ SeekPayload(n)
    \/ WaitForRawByte
    \/ PreadWait \/ PreadLoad \/ ReadCopy \/ ReadSeek \/ RawSeek \/ RawRead

SerialSpec == SerialInit /\ [][SerialNext]_serialVars

-----------------------------------------------------------------------------
(* Properties *)

(* Type invariant of the ring and the message task's position in it.       *)
SerialTypeOK ==
    /\ rp \in Slots /\ wp \in Slots /\ rxbuf \in [Slots -> Byte]
    /\ uart \in Seq(Byte) /\ isr \in BOOLEAN
    /\ pc \in {"idle", "wait", "load", "have", "seek", "raw"}
    /\ raw \in BOOLEAN /\ left \in Nat /\ len \in Slots /\ d \in Slots
    /\ got \in Seq(Byte) /\ out \in Seq(Byte) /\ ahead \in {0, 1}

(* pread never returns an empty block nor one beyond what has arrived or   *)
(* beyond the end of the ring, although the interrupt moves _wp between    *)
(* its two reads: its callers use d[0] and seek over it unconditionally.   *)
PreadInRing ==
    pc \in {"have", "seek"} =>
        /\ d = rp /\ len \in 1 .. Arrived /\ d + len <= SIZE_OF_RX_BUF

(* The bytes in the ring, oldest first, and the bytes last taken out of    *)
(* it: waitforRawByte has taken its byte when it seeks, before it reads it.*)
Queue == [i \in 1 .. Arrived |-> rxbuf[(rp + i - 1) % SIZE_OF_RX_BUF]]

Taken == IF pc = "raw" THEN <<rxbuf[d]>> ELSE out

Fifo == INSTANCE SnicFifo WITH
            Capacity <- SIZE_OF_RX_BUF - 1, queue <- Queue, out <- Taken

(* The ring is a bounded first-in first-out queue: no byte is lost,        *)
(* repeated, reordered or changed while a caller looks at it, whatever the *)
(* interrupt does between the steps of pread, pseek and their callers; in  *)
(* particular the byte that waitforRawByte reads after its pseek is still  *)
(* the one that had arrived, because one slot always stays empty.  Only a  *)
(* seekPayload over bytes that are not there makes up another content, of  *)
(* bytes seen before; from it on the ring is a queue again.                *)
RingIsFifo == Fifo!FifoSpec
=============================================================================
