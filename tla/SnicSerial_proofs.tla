-------------------------- MODULE SnicSerial_proofs --------------------------
(***************************************************************************)
(* The receive ring implements the bounded queue of SnicFifo, for every    *)
(* size of the ring, whether seekPayload skips bytes that have arrived or  *)
(* bytes that have not.                                                    *)
(***************************************************************************)
EXTENDS SnicSerial, SequenceTheorems, TLAPS

USE SerialAssumption DEF Slots

(* A position of the ring, without a remainder.                            *)
Wrap(a) == IF a < SIZE_OF_RX_BUF THEN a ELSE a - SIZE_OF_RX_BUF

(* Moving a position forward by at most the size of the ring.              *)
LEMMA WrapSum ==
    ASSUME NEW a \in Slots, NEW k \in 0 .. SIZE_OF_RX_BUF
    PROVE  (a + k) % SIZE_OF_RX_BUF = Wrap(a + k) /\ Wrap(a + k) \in Slots
  <1>1. CASE a + k < SIZE_OF_RX_BUF
    BY <1>1 DEF Wrap
  <1>2. CASE a + k >= SIZE_OF_RX_BUF
    <2>1. a + k \in SIZE_OF_RX_BUF .. 2 * SIZE_OF_RX_BUF - 1
      BY <1>2
    <2> QED
      BY <2>1 DEF Wrap
  <1> QED
    BY <1>1, <1>2

(* Moving it forward by any number of bytes.                               *)
LEMMA SeekInRing ==
    ASSUME NEW a \in Slots, NEW k \in Nat
    PROVE  (a + k) % SIZE_OF_RX_BUF \in Slots
  OBVIOUS

(* The distance from one position to another.                              *)
LEMMA WrapDiff ==
    ASSUME NEW a \in Slots, NEW b \in Slots
    PROVE  (b - a) % SIZE_OF_RX_BUF =
               IF a <= b THEN b - a ELSE b - a + SIZE_OF_RX_BUF
  <1>1. CASE a <= b
    <2>1. b - a \in Slots
      BY <1>1
    <2> QED
      BY <1>1, <2>1
  <1>2. CASE a > b
    <2>1. a \in 1 .. SIZE_OF_RX_BUF - 1 /\ b \in 0 .. a - 1
      BY <1>2
    <2> QED
      BY <1>2, <2>1
  <1> QED
    BY <1>1, <1>2

(* The number of bytes in the ring.                                        *)
LEMMA ArrivedIs ==
    ASSUME rp \in Slots, wp \in Slots
    PROVE  /\ Arrived \in Slots
           /\ Arrived = IF rp <= wp THEN wp - rp ELSE wp - rp + SIZE_OF_RX_BUF
  BY WrapDiff DEF Arrived

(* What the message task knows between its steps.                          *)
Reading ==
    /\ pc = "load" => rp # wp
    /\ pc \in {"wait", "load", "have", "seek"} /\ ~raw => left # 0
    /\ pc = "seek" =>
         /\ ~raw /\ Len(got) \in 1 .. len /\ Len(got) <= left
         /\ \A i \in 1 .. Len(got) : got[i] = rxbuf[rp + i - 1]
    /\ pc = "raw" => rp = (d + 1) % SIZE_OF_RX_BUF

SerialInv == SerialTypeOK /\ PreadInRing /\ Reading

(* The initial state: the ring is empty and the task idle.                 *)
LEMMA SerialInitInv == SerialInit => SerialInv
  BY DEF SerialInit, SerialInv, SerialTypeOK, PreadInRing, Reading

(* A byte put into the ring leaves those already there where they are.     *)
LEMMA HandlerInv == SerialInv /\ UartHandler => SerialInv'
  <1> SUFFICES ASSUME SerialInv, UartHandler PROVE SerialInv'
    OBVIOUS
  <1> USE DEF SerialInv
  <1>0. rp \in Slots /\ wp \in Slots /\ uart \in Seq(Byte) /\ uart # <<>>
        /\ rp' = rp /\ UNCHANGED <<isr, pc, raw, left, len, d, got, out, ahead>>
    BY DEF SerialTypeOK, UartHandler, reader
  <1>1. wp' = Wrap(wp + 1) /\ wp' \in Slots /\ rp # wp'
    BY <1>0, WrapSum DEF UartHandler, RingFull
  <1>2. Arrived' = Arrived + 1
    <2>1. Arrived = IF rp <= wp THEN wp - rp ELSE wp - rp + SIZE_OF_RX_BUF
      BY <1>0, ArrivedIs
    <2>2. Arrived' = (wp' - rp) % SIZE_OF_RX_BUF
      BY <1>0 DEF Arrived
    <2>3. Arrived' = IF rp <= wp' THEN wp' - rp ELSE wp' - rp + SIZE_OF_RX_BUF
      BY <1>0, <1>1, <2>2, WrapDiff
    <2> QED
      BY <1>0, <1>1, <2>1, <2>3 DEF Wrap
  <1>3. SerialTypeOK'
    <2>1. uart' \in Seq(Byte) /\ rxbuf' \in [Slots -> Byte]
      BY <1>0 DEF UartHandler, SerialTypeOK
    <2> QED
      BY <1>0, <1>1, <2>1 DEF SerialTypeOK
  <1>4. PreadInRing'
    <2>1. Arrived \in Slots
      BY <1>0, ArrivedIs
    <2> QED
      BY <1>0, <1>2, <2>1 DEF PreadInRing, SerialTypeOK
  <1>5. Reading'
    <2>1. ASSUME pc = "seek", NEW i \in 1 .. Len(got)
          PROVE  rxbuf'[rp + i - 1] = rxbuf[rp + i - 1]
      <3>1. rp + i - 1 # wp /\ rp + i - 1 \in Slots
        <4>1. Len(got) \in Nat /\ len \in 1 .. Arrived /\ i <= len
              /\ rp + len <= SIZE_OF_RX_BUF
          BY <2>1 DEF PreadInRing, Reading, SerialTypeOK
        <4> QED
          BY <4>1, <1>0, ArrivedIs
      <3> QED
        BY <3>1, <1>0 DEF UartHandler, SerialTypeOK
    <2> QED
      BY <1>0, <1>1, <2>1 DEF Reading
  <1> QED
    BY <1>3, <1>4, <1>5

(* A step of the UART that leaves the ring alone.                          *)
LEMMA QuietInv ==
    ASSUME SerialInv, uart' \in Seq(Byte), isr' \in BOOLEAN,
           UNCHANGED <<rp, wp, rxbuf, reader, ahead>>
    PROVE  SerialInv'
  <1>1. Arrived' = Arrived
    BY DEF Arrived
  <1>2. SerialTypeOK'
    BY DEF SerialInv, SerialTypeOK, reader
  <1>3. PreadInRing' /\ Reading'
    BY <1>1 DEF SerialInv, PreadInRing, Reading, reader
  <1> QED
    BY <1>2, <1>3 DEF SerialInv

(* The task's own steps up to its seek.                                    *)
LEMMA PreadInv ==
    ASSUME SerialInv,
           \/ \E n \in ReadLength : WaitForRead(n)
           \/ WaitForRawByte \/ PreadWait \/ PreadLoad \/ ReadCopy
    PROVE  SerialInv'
  <1> USE DEF SerialInv
  <1>0. rp \in Slots /\ wp \in Slots /\ len \in Slots /\ left \in Nat
        /\ rxbuf \in [Slots -> Byte]
        /\ UNCHANGED <<rp, wp, rxbuf, uart, isr, out, ahead>>
    BY DEF SerialTypeOK, WaitForRead, WaitForRawByte, PreadWait, PreadLoad,
           ReadCopy, ring
  <1>1. Arrived' = Arrived /\ Arrived \in Slots
        /\ Arrived = IF rp <= wp THEN wp - rp ELSE wp - rp + SIZE_OF_RX_BUF
    BY <1>0, ArrivedIs DEF Arrived
  <1>2. CASE \E n \in ReadLength : WaitForRead(n)
    BY <1>0, <1>2 DEF WaitForRead, SerialTypeOK, PreadInRing, Reading
  <1>3. CASE WaitForRawByte
    BY <1>0, <1>3 DEF WaitForRawByte, SerialTypeOK, PreadInRing, Reading
  <1>4. CASE PreadWait
    BY <1>0, <1>4 DEF PreadWait, SerialTypeOK, PreadInRing, Reading
  <1>5. CASE PreadLoad
    <2>1. len' \in Slots /\ len' \in 1 .. Arrived /\ rp + len' <= SIZE_OF_RX_BUF
      BY <1>0, <1>1, <1>5 DEF PreadLoad, Reading
    <2> QED
      BY <1>0, <1>1, <1>5, <2>1 DEF PreadLoad, SerialTypeOK, PreadInRing, Reading
  <1>6. CASE ReadCopy
    <2> DEFINE k == IF len < left THEN len ELSE left
    <2>1. k \in 1 .. len /\ k <= left /\ d = rp /\ rp + len <= SIZE_OF_RX_BUF
          /\ len \in 1 .. Arrived
      BY <1>0, <1>6 DEF ReadCopy, PreadInRing, Reading
    <2>2. \A i \in 1 .. k : rxbuf[rp + i - 1] \in Byte
      BY <1>0, <2>1
    <2>3. got' = [i \in 1 .. k |-> rxbuf[rp + i - 1]]
      BY <1>6, <2>1 DEF ReadCopy
    <2> HIDE DEF k
    <2>4. got' \in Seq(Byte) /\ Len(got') = k
      BY <2>1, <2>2, <2>3, <1>0
    <2>5. \A i \in 1 .. Len(got') : got'[i] = rxbuf[rp + i - 1]
      BY <2>3, <2>4
    <2>6. SerialTypeOK'
      BY <1>0, <1>6, <2>4 DEF ReadCopy, SerialTypeOK
    <2>7. PreadInRing'
      BY <1>0, <1>1, <1>6, <2>1 DEF ReadCopy, PreadInRing
    <2>8. Reading'
      BY <1>0, <1>6, <2>1, <2>4, <2>5 DEF ReadCopy, Reading
    <2> QED
      BY <2>6, <2>7, <2>8
  <1> QED
    BY <1>2, <1>3, <1>4, <1>5, <1>6

(* Seeks, and the byte read after one.                                     *)
LEMMA SeekInv ==
    ASSUME SerialInv,
           \/ \E n \in ReadLength : SeekPayload(n)
           \/ ReadSeek \/ RawSeek \/ RawRead
    PROVE  SerialInv'
  <1> USE DEF SerialInv
  <1>0. rp \in Slots /\ wp \in Slots /\ Arrived \in Slots
        /\ UNCHANGED <<wp, rxbuf, uart, isr>> /\ ahead' \in {0, 1}
    BY ArrivedIs DEF SerialTypeOK, SeekPayload, ReadSeek, RawSeek, RawRead, ring
  <1>1. CASE \E n \in ReadLength : SeekPayload(n)
    <2>0. PICK n \in ReadLength : SeekPayload(n)
      BY <1>1
    <2>1. rp' \in Slots /\ pc = "idle" /\ UNCHANGED reader
      BY <1>0, <2>0, SeekInRing DEF SeekPayload, Seek
    <2> QED
      BY <1>0, <2>1 DEF reader, SerialTypeOK, PreadInRing, Reading
  <1>2. CASE ReadSeek
    <2>1. Len(got) \in 1 .. SIZE_OF_RX_BUF /\ Len(got) <= left /\ left \in Nat
          /\ got \in Seq(Byte)
      BY <1>2 DEF ReadSeek, Reading, SerialTypeOK
    <2>2. rp' \in Slots
      <3>1. PICK k \in 1 .. SIZE_OF_RX_BUF : k = Len(got)
        BY <2>1
      <3>2. rp' = (rp + k) % SIZE_OF_RX_BUF
        BY <1>2, <3>1 DEF ReadSeek, Seek
      <3> QED
        BY <1>0, <3>2, WrapSum
    <2>3. left' \in Nat /\ (pc' = "wait" => left' # 0)
      BY <1>2, <2>1 DEF ReadSeek
    <2> QED
      BY <1>0, <1>2, <2>1, <2>2, <2>3
      DEF ReadSeek, SerialTypeOK, PreadInRing, Reading
  <1>3. CASE RawSeek
    <2>1. rp' \in Slots /\ d = rp /\ rp' = (d + 1) % SIZE_OF_RX_BUF
      BY <1>0, <1>3, WrapSum DEF RawSeek, Seek, PreadInRing
    <2> QED
      BY <1>0, <1>3, <2>1 DEF RawSeek, SerialTypeOK, PreadInRing, Reading
  <1>4. CASE RawRead
    <2>1. rxbuf[d] \in Byte
      BY DEF SerialTypeOK
    <2>2. out' \in Seq(Byte)
      BY <1>4, <2>1 DEF RawRead
    <2> QED
      BY <1>0, <1>4, <2>2 DEF RawRead, SerialTypeOK, PreadInRing, Reading
  <1> QED
    BY <1>1, <1>2, <1>3, <1>4

(* Every step preserves the invariant.                                     *)
LEMMA SerialStepInv ==
    ASSUME SerialInv, [SerialNext]_serialVars
    PROVE  SerialInv'
  <1>1. CASE \E b \in Byte : Arrive(b)
    <2>1. PICK b \in Byte : Arrive(b)
      BY <1>1
    <2>2. Append(uart, b) \in Seq(Byte)
      BY <2>1 DEF SerialInv, SerialTypeOK
    <2> QED
      BY <2>1, <2>2, QuietInv DEF Arrive, SerialInv, SerialTypeOK
  <1>2. CASE Interrupt \/ UartReturn
    BY <1>2, QuietInv DEF Interrupt, UartReturn, ring, SerialInv, SerialTypeOK
  <1>3. CASE UartHandler
    BY <1>3, HandlerInv
  <1>4. CASE \/ \E n \in ReadLength : WaitForRead(n)
             \/ WaitForRawByte \/ PreadWait \/ PreadLoad \/ ReadCopy
    BY <1>4, PreadInv
  <1>5. CASE (\E n \in ReadLength : SeekPayload(n)) \/ ReadSeek \/ RawSeek \/ RawRead
    BY <1>5, SeekInv
  <1>6. CASE UNCHANGED serialVars
    BY <1>6, QuietInv DEF serialVars, ring, SerialInv, SerialTypeOK
  <1> QED
    BY <1>1, <1>2, <1>3, <1>4, <1>5, <1>6 DEF SerialNext

(* The ring's positions stay in the ring, for every size of it, every      *)
(* length of a message and every moment of the interrupt.                  *)
THEOREM SerialTypeCorrect ==
    SerialSpec => []SerialTypeOK
  <1>1. SerialInv /\ [SerialNext]_serialVars => SerialInv'
    BY SerialStepInv
  <1>2. SerialInv => SerialTypeOK
    BY DEF SerialInv
  <1> QED
    BY SerialInitInv, <1>1, <1>2, PTL DEF SerialSpec

(* pread returns at least one byte and none that has not arrived.          *)
THEOREM PreadStaysInRing ==
    SerialSpec => []PreadInRing
  <1>1. SerialInv /\ [SerialNext]_serialVars => SerialInv'
    BY SerialStepInv
  <1>2. SerialInv => PreadInRing
    BY DEF SerialInv
  <1> QED
    BY SerialInitInv, <1>1, <1>2, PTL DEF SerialSpec

-----------------------------------------------------------------------------
(* The refinement *)

(* The distance of two positions and the bytes between them.               *)
Dist(r, w) == IF r <= w THEN w - r ELSE w - r + SIZE_OF_RX_BUF

Between(r, w, b) == [i \in 1 .. Dist(r, w) |-> b[Wrap(r + i - 1)]]

(* The bytes between two positions are a sequence.                         *)
LEMMA BetweenSeq ==
    ASSUME NEW r \in Slots, NEW w \in Slots, NEW b \in [Slots -> Byte]
    PROVE  /\ Dist(r, w) \in Slots
           /\ \A i \in 1 .. Dist(r, w) : Wrap(r + i - 1) \in Slots
           /\ Between(r, w, b) \in Seq(Byte)
           /\ Len(Between(r, w, b)) = Dist(r, w)
           /\ \A i \in 1 .. Dist(r, w) : Between(r, w, b)[i] = b[Wrap(r + i - 1)]
  <1>1. Dist(r, w) \in Slots
    BY DEF Dist
  <1>2. \A i \in 1 .. Dist(r, w) : Wrap(r + i - 1) \in Slots
    BY DEF Dist, Wrap
  <1>3. Between(r, w, b) \in [1 .. Dist(r, w) -> Byte]
    BY <1>2 DEF Between
  <1>4. Between(r, w, b) \in Seq(Byte) /\ Len(Between(r, w, b)) = Dist(r, w)
    BY <1>1, <1>3
  <1> QED
    BY <1>1, <1>2, <1>4 DEF Between

(* The queue of the refinement mapping is what lies between the positions. *)
LEMMA QueueBetween ==
    ASSUME NEW r \in Slots, NEW w \in Slots, NEW b
    PROVE  [i \in 1 .. ((w - r) % SIZE_OF_RX_BUF)
               |-> b[(r + i - 1) % SIZE_OF_RX_BUF]] = Between(r, w, b)
  <1>1. (w - r) % SIZE_OF_RX_BUF = Dist(r, w) /\ Dist(r, w) \in Slots
    BY WrapDiff DEF Dist
  <1>2. ASSUME NEW i \in 1 .. Dist(r, w)
        PROVE  (r + i - 1) % SIZE_OF_RX_BUF = Wrap(r + i - 1)
    <2>1. PICK k \in 0 .. SIZE_OF_RX_BUF : k = i - 1
      BY <1>1
    <2>2. r + i - 1 = r + k
      BY <2>1
    <2> QED
      BY <2>2, WrapSum
  <1> QED
    BY <1>1, <1>2 DEF Between

(* Moving the read position over k bytes drops the first k of the queue.   *)
LEMMA SeekDrops ==
    ASSUME NEW r \in Slots, NEW w \in Slots, NEW b \in [Slots -> Byte],
           NEW k \in 1 .. Dist(r, w)
    PROVE  Between(Wrap(r + k), w, b) =
               SubSeq(Between(r, w, b), k + 1, Len(Between(r, w, b)))
  <1> DEFINE q == Between(r, w, b)
             t == Between(Wrap(r + k), w, b)
             n == Dist(r, w)
             u == SubSeq(q, k + 1, n)
  <1>1. Wrap(r + k) \in Slots /\ Dist(Wrap(r + k), w) = n - k /\ n \in Slots
    BY DEF Wrap, Dist
  <1>2. q \in Seq(Byte) /\ Len(q) = n
        /\ \A i \in 1 .. n : q[i] = b[Wrap(r + i - 1)]
    BY BetweenSeq
  <1>3. t \in Seq(Byte) /\ Len(t) = n - k
        /\ \A i \in 1 .. n - k : t[i] = b[Wrap(Wrap(r + k) + i - 1)]
    <2>1. PICK s \in Slots : s = Wrap(r + k)
      BY <1>1
    <2>2. Between(s, w, b) \in Seq(Byte) /\ Len(Between(s, w, b)) = Dist(s, w)
          /\ \A i \in 1 .. Dist(s, w) : Between(s, w, b)[i] = b[Wrap(s + i - 1)]
      BY BetweenSeq
    <2> QED
      BY <1>1, <2>1, <2>2
  <1> HIDE DEF q, t, n
  <1>4. u \in Seq(Byte) /\ Len(u) = n - k
        /\ \A i \in 1 .. n - k : u[i] = q[k + i]
    <2>1. k \in 1 .. n
      BY DEF n
    <2>2. \A i \in k + 1 .. n : q[i] \in Byte
      BY <1>1, <1>2, <2>1, ElementOfSeq
    <2>3. k + 1 \in Int /\ n \in Int
      BY <1>1, <2>1
    <2>4. u \in Seq(Byte) /\ Len(u) = (IF k + 1 <= n THEN n - (k + 1) + 1 ELSE 0)
          /\ \A i \in 1 .. n - (k + 1) + 1 : u[i] = q[(k + 1) + i - 1]
      BY <2>2, <2>3, SubSeqProperties
    <2> HIDE DEF u
    <2> QED
      BY <1>1, <2>1, <2>4
  <1>5. \A i \in 1 .. n - k : Wrap(Wrap(r + k) + i - 1) = Wrap(r + (k + i) - 1)
    BY <1>1 DEF Wrap, n, Dist
  <1>6. \A i \in 1 .. n - k : t[i] = u[i]
    <2>1. k \in 1 .. n
      BY DEF n
    <2>2. ASSUME NEW i \in 1 .. n - k PROVE t[i] = u[i]
      <3>1. PICK j \in 1 .. n : j = k + i
        BY <1>1, <2>1
      <3>2. Wrap(Wrap(r + k) + i - 1) = Wrap(r + j - 1)
        BY <1>5, <3>1
      <3> QED
        BY <1>2, <1>3, <1>4, <3>1, <3>2, SMTT(60)
    <2> QED
      BY <2>2
  <1> HIDE DEF u
  <1>7. t = u
    BY <1>1, <1>3, <1>4, <1>6, SeqEqual
  <1> QED
    BY <1>2, <1>7 DEF t, u, q

(* Writing one byte behind the last appends it.                            *)
LEMMA PutAppends ==
    ASSUME NEW r \in Slots, NEW w \in Slots, NEW b \in [Slots -> Byte],
           NEW v \in Byte, Wrap(w + 1) # r
    PROVE  /\ Between(r, Wrap(w + 1), [b EXCEPT ![w] = v]) =
                  Append(Between(r, w, b), v)
           /\ Dist(r, w) < SIZE_OF_RX_BUF - 1
  <1> DEFINE c == [b EXCEPT ![w] = v]
             q == Between(r, w, b)
             n == Dist(r, w)
  <1>1. PICK z \in Slots : z = Wrap(w + 1)
    BY DEF Wrap
  <1> DEFINE t == Between(r, z, c)
             a == Append(q, v)
  <1>2. c \in [Slots -> Byte]
    OBVIOUS
  <1>3. n \in Slots /\ Dist(r, z) = n + 1 /\ n < SIZE_OF_RX_BUF - 1
    BY <1>1 DEF Wrap, Dist
  <1>4. q \in Seq(Byte) /\ Len(q) = n
        /\ \A i \in 1 .. n : q[i] = b[Wrap(r + i - 1)]
    BY BetweenSeq
  <1> HIDE DEF c
  <1>5. t \in Seq(Byte) /\ Len(t) = n + 1
        /\ \A i \in 1 .. n + 1 : t[i] = c[Wrap(r + i - 1)]
    <2>1. t \in Seq(Byte) /\ Len(t) = Dist(r, z)
          /\ \A i \in 1 .. Dist(r, z) : t[i] = c[Wrap(r + i - 1)]
      BY <1>2, BetweenSeq
    <2> HIDE DEF t, n
    <2> QED
      BY <1>3, <2>1
  <1>6. Wrap(r + (n + 1) - 1) = w
    BY DEF Wrap, Dist
  <1>7. \A i \in 1 .. n : Wrap(r + i - 1) \in Slots /\ Wrap(r + i - 1) # w
    BY DEF Wrap, Dist
  <1>8. \A i \in 1 .. n : c[Wrap(r + i - 1)] = b[Wrap(r + i - 1)]
    BY <1>7 DEF c
  <1>9. c[w] = v
    BY DEF c
  <1> HIDE DEF q, t, n
  <1>10. a \in Seq(Byte) /\ Len(a) = n + 1
         /\ (\A i \in 1 .. n : a[i] = q[i]) /\ a[n + 1] = v
    BY <1>4, AppendProperties
  <1> HIDE DEF a
  <1>11. ASSUME NEW i \in 1 .. n + 1 PROVE t[i] = a[i]
    <2>1. CASE i = n + 1
      BY <1>3, <1>5, <1>6, <1>9, <1>10, <2>1
    <2>2. CASE i # n + 1
      <3>1. i \in 1 .. n
        BY <1>3, <2>2
      <3> QED
        BY <1>3, <1>4, <1>5, <1>8, <1>10, <3>1
    <2> QED
      BY <2>1, <2>2
  <1>12. t = a
    BY <1>3, <1>5, <1>10, <1>11, SeqEqual
  <1> QED
    BY <1>1, <1>3, <1>12 DEF t, a, q, c, n

(* A whole beginning of the contiguous part is a beginning of the queue.   *)
LEMMA FrontOfQueue ==
    ASSUME NEW r \in Slots, NEW w \in Slots, NEW b \in [Slots -> Byte],
           NEW g \in Seq(Byte), Len(g) \in 1 .. Dist(r, w),
           r + Len(g) <= SIZE_OF_RX_BUF,
           \A i \in 1 .. Len(g) : g[i] = b[r + i - 1]
    PROVE  g = SubSeq(Between(r, w, b), 1, Len(g))
  <1> DEFINE q == Between(r, w, b)
             n == Dist(r, w)
  <1>1. PICK k \in 1 .. n : k = Len(g)
    OBVIOUS
  <1> DEFINE u == SubSeq(q, 1, k)
  <1>2. q \in Seq(Byte) /\ Len(q) = n /\ n \in Slots
        /\ \A i \in 1 .. n : q[i] = b[Wrap(r + i - 1)]
    BY BetweenSeq
  <1>3. \A i \in 1 .. k : Wrap(r + i - 1) = r + i - 1
    BY <1>1 DEF Wrap
  <1> HIDE DEF q, n
  <1>4. \A i \in 1 .. k : q[i] \in Byte /\ q[i] = g[i]
    <2>1. ASSUME NEW i \in 1 .. k PROVE q[i] \in Byte /\ q[i] = g[i]
      <3>1. i \in 1 .. n /\ i \in 1 .. Len(g)
        BY <1>1, <1>2
      <3>2. q[i] \in Byte
        BY <1>2, <3>1, ElementOfSeq
      <3>3. q[i] = b[r + i - 1]
        BY <1>2, <1>3, <3>1
      <3> QED
        BY <3>1, <3>2, <3>3
    <2> QED
      BY <2>1
  <1>5. u \in Seq(Byte) /\ Len(u) = k /\ \A i \in 1 .. k : u[i] = q[i]
    <2>1. k \in Int /\ k >= 1
      BY <1>1, <1>2
    <2>2. u \in Seq(Byte) /\ Len(u) = (IF 1 <= k THEN k - 1 + 1 ELSE 0)
          /\ \A i \in 1 .. k - 1 + 1 : u[i] = q[1 + i - 1]
      BY <1>4, <2>1, SubSeqProperties
    <2> HIDE DEF u
    <2>3. ASSUME NEW i \in 1 .. k PROVE u[i] = q[i]
      <3>1. i \in 1 .. k - 1 + 1 /\ 1 + i - 1 = i
        BY <2>1
      <3> QED
        BY <2>2, <3>1
    <2>4. Len(u) = k
      BY <2>1, <2>2
    <2> QED
      BY <2>2, <2>3, <2>4
  <1> HIDE DEF u
  <1>6. g = u
    BY <1>1, <1>4, <1>5, SeqEqual
  <1> QED
    BY <1>1, <1>6 DEF u, q

-----------------------------------------------------------------------------
(* Initially the queue is empty and nothing has been taken.                *)
LEMMA RefineInit == SerialInit => Fifo!FifoInit
  <1> SUFFICES ASSUME SerialInit PROVE Fifo!FifoInit
    OBVIOUS
  <1>1. (0 - 0) % SIZE_OF_RX_BUF = 0
    BY WrapDiff
  <1>2. Arrived = 0
    BY <1>1 DEF SerialInit, Arrived
  <1>3. Queue = <<>>
    BY <1>2 DEF Queue
  <1> QED
    BY <1>3 DEF Fifo!FifoInit, SerialInit, Taken

(* The mapping of a state and of its successor, in terms of positions.     *)
LEMMA QueueOf ==
    ASSUME SerialTypeOK, SerialTypeOK'
    PROVE  /\ Queue = Between(rp, wp, rxbuf) /\ Arrived = Dist(rp, wp)
           /\ Queue' = Between(rp', wp', rxbuf')
  <1>1. rp \in Slots /\ wp \in Slots /\ rp' \in Slots /\ wp' \in Slots
    BY DEF SerialTypeOK
  <1>2. Queue = Between(rp, wp, rxbuf)
    BY <1>1, QueueBetween DEF Queue, Arrived
  <1>3. Queue' = Between(rp', wp', rxbuf')
    BY <1>1, QueueBetween DEF Queue, Arrived
  <1>4. Arrived = Dist(rp, wp)
    BY <1>1, WrapDiff DEF Arrived, Dist
  <1> QED
    BY <1>2, <1>3, <1>4

(* A byte stored by the interrupt is put into the queue; the byte that     *)
(* waitforRawByte is about to read is not the one overwritten.             *)
LEMMA RefinePut ==
    ASSUME SerialInv, SerialInv', UartHandler
    PROVE  Fifo!FifoNext
  <1>1. rp \in Slots /\ wp \in Slots /\ rxbuf \in [Slots -> Byte] /\ d \in Slots
        /\ uart \in Seq(Byte) /\ uart # <<>> /\ Head(uart) \in Byte
    BY DEF SerialInv, SerialTypeOK, UartHandler
  <1>2. wp' = Wrap(wp + 1) /\ Wrap(wp + 1) # rp
    BY <1>1, WrapSum DEF UartHandler, RingFull
  <1>3. rp' = rp /\ rxbuf' = [rxbuf EXCEPT ![wp] = Head(uart)]
        /\ UNCHANGED <<pc, d, out, ahead>>
    BY DEF UartHandler, reader
  <1>4. Queue = Between(rp, wp, rxbuf) /\ Queue' = Between(rp', wp', rxbuf')
    BY QueueOf DEF SerialInv
  <1>5. Queue' = Append(Queue, Head(uart)) /\ Dist(rp, wp) < SIZE_OF_RX_BUF - 1
    <2>1. PICK v \in Byte : v = Head(uart)
      BY <1>1
    <2>2. /\ Between(rp, Wrap(wp + 1), [rxbuf EXCEPT ![wp] = v]) =
                 Append(Between(rp, wp, rxbuf), v)
          /\ Dist(rp, wp) < SIZE_OF_RX_BUF - 1
      BY <1>1, <1>2, PutAppends
    <2> QED
      BY <1>2, <1>3, <1>4, <2>1, <2>2
  <1>6. Len(Queue) = Dist(rp, wp)
    BY <1>1, <1>4, BetweenSeq
  <1>7. Taken' = Taken
    <2>1. CASE pc = "raw"
      <3>1. rp = Wrap(d + 1)
        BY <1>1, <2>1, WrapSum DEF SerialInv, Reading
      <3>2. d # wp
        BY <1>2, <3>1
      <3> QED
        BY <1>1, <1>3, <2>1, <3>2 DEF Taken
    <2>2. CASE pc # "raw"
      BY <1>3, <2>2 DEF Taken
    <2> QED
      BY <2>1, <2>2
  <1>8. Fifo!Put(Head(uart))
    BY <1>3, <1>5, <1>6, <1>7 DEF Fifo!Put
  <1> QED
    BY <1>1, <1>8 DEF Fifo!FifoNext

(* A seek of the task takes bytes from the front of the queue.             *)
LEMMA RefineSeek ==
    ASSUME SerialInv, SerialInv', NEW k \in 1 .. Arrived, Seek(k),
           UNCHANGED <<wp, rxbuf>>
    PROVE  /\ Queue' = SubSeq(Queue, k + 1, Len(Queue))
           /\ k \in 1 .. Len(Queue)
  <1>1. rp \in Slots /\ wp \in Slots /\ rxbuf \in [Slots -> Byte]
        /\ Arrived \in Slots
    BY ArrivedIs DEF SerialInv, SerialTypeOK
  <1>2. Queue = Between(rp, wp, rxbuf) /\ Queue' = Between(rp', wp', rxbuf')
        /\ Arrived = Dist(rp, wp)
    BY QueueOf DEF SerialInv
  <1>3. rp' = Wrap(rp + k)
    BY <1>1, WrapSum DEF Seek
  <1>4. Len(Queue) = Arrived
    BY <1>1, <1>2, BetweenSeq
  <1> QED
    BY <1>1, <1>2, <1>3, <1>4, SeekDrops, SMTT(30)

(* Every step of the ring is a step of the queue or leaves it alone.       *)
LEMMA RefineStep ==
    ASSUME SerialInv, SerialInv', [SerialNext]_serialVars
    PROVE  [Fifo!FifoNext]_(Fifo!fifoVars)
  <1> USE DEF Fifo!fifoVars
  <1>0. ASSUME UNCHANGED <<rp, wp, rxbuf, ahead>>, Taken' = Taken
        PROVE  [Fifo!FifoNext]_(Fifo!fifoVars)
    BY <1>0 DEF Queue, Arrived
  <1>1. CASE UartHandler
    BY <1>1, RefinePut
  <1>2. CASE \/ \E b \in Byte : Arrive(b)
             \/ Interrupt \/ UartReturn \/ UNCHANGED serialVars
    BY <1>0, <1>2
    DEF Arrive, Interrupt, UartReturn, serialVars, reader, ring, Taken
  <1>3. CASE \/ \E n \in ReadLength : WaitForRead(n)
             \/ WaitForRawByte \/ PreadWait \/ PreadLoad \/ ReadCopy
    BY <1>0, <1>3
    DEF WaitForRead, WaitForRawByte, PreadWait, PreadLoad, ReadCopy, ring, Taken
  <1>4. CASE RawRead
    BY <1>0, <1>4 DEF RawRead, ring, Taken
  <1>5. CASE RawSeek
    <2>1. rp \in Slots /\ wp \in Slots /\ rxbuf \in [Slots -> Byte] /\ d = rp
          /\ 1 \in 1 .. Arrived /\ Arrived \in Slots
      BY <1>5, ArrivedIs DEF RawSeek, SerialInv, SerialTypeOK, PreadInRing
    <2>2. Seek(1) /\ UNCHANGED <<wp, rxbuf, d, out, ahead>> /\ pc' = "raw"
      BY <1>5 DEF RawSeek, ring
    <2>3. Queue' = SubSeq(Queue, 2, Len(Queue)) /\ 1 \in 1 .. Len(Queue)
      BY <2>1, <2>2, RefineSeek
    <2>4. Queue = Between(rp, wp, rxbuf) /\ Arrived = Dist(rp, wp)
      BY QueueOf DEF SerialInv
    <2>5. PICK g \in Seq(Byte) : g = <<rxbuf[rp]>>
      BY <2>1
    <2>6. Len(g) = 1 /\ g[1] = rxbuf[rp]
      BY <2>5
    <2>7. g = SubSeq(Queue, 1, 1)
      BY <2>1, <2>4, <2>6, FrontOfQueue
    <2>8. Taken' = g
      BY <2>1, <2>2, <2>5 DEF Taken
    <2>9. Fifo!Take(1)
      BY <2>2, <2>3, <2>7, <2>8 DEF Fifo!Take, Fifo!Drop
    <2> QED
      BY <2>3, <2>9 DEF Fifo!FifoNext
  <1>6. CASE ReadSeek
    <2>1. /\ rp \in Slots /\ wp \in Slots /\ rxbuf \in [Slots -> Byte]
          /\ got \in Seq(Byte) /\ Len(got) \in 1 .. len
          /\ len \in 1 .. Arrived /\ rp + len <= SIZE_OF_RX_BUF
          /\ Arrived \in Slots /\ \A i \in 1 .. Len(got) : got[i] = rxbuf[rp + i - 1]
      BY <1>6, ArrivedIs DEF ReadSeek, SerialInv, SerialTypeOK, PreadInRing, Reading
    <2>2. PICK k \in 1 .. Arrived : k = Len(got)
      BY <2>1
    <2>3. Seek(k) /\ UNCHANGED <<wp, rxbuf, ahead>> /\ out' = got /\ pc' # "raw"
      BY <1>6, <2>2 DEF ReadSeek, ring
    <2>4. Queue' = SubSeq(Queue, k + 1, Len(Queue)) /\ k \in 1 .. Len(Queue)
      BY <2>3, RefineSeek
    <2>5. Queue = Between(rp, wp, rxbuf) /\ Arrived = Dist(rp, wp)
      BY QueueOf DEF SerialInv
    <2>6. got = SubSeq(Queue, 1, k)
      BY <2>1, <2>2, <2>5, FrontOfQueue, SMTT(30)
    <2>7. Fifo!Take(k)
      BY <2>3, <2>4, <2>6 DEF Fifo!Take, Fifo!Drop, Taken
    <2> QED
      BY <2>4, <2>7 DEF Fifo!FifoNext
  <1>7. CASE \E n \in ReadLength : SeekPayload(n)
    <2>1. PICK n \in ReadLength : SeekPayload(n)
      BY <1>7
    <2>2. /\ Seek(n) /\ UNCHANGED <<wp, rxbuf, reader>> /\ Arrived \in Slots
          /\ n \in Nat \ {0} /\ ahead' = IF n <= Arrived THEN ahead ELSE 1 - ahead
      BY <2>1, ArrivedIs DEF SeekPayload, ring, SerialInv, SerialTypeOK
    <2>3. Taken' = Taken
      BY <2>2 DEF Taken, reader
    <2>4. CASE n <= Arrived
      <3>1. n \in 1 .. Arrived /\ ahead' = ahead
        BY <2>2, <2>4
      <3>2. Queue' = SubSeq(Queue, n + 1, Len(Queue)) /\ n \in 1 .. Len(Queue)
        BY <2>2, <3>1, RefineSeek
      <3>3. Fifo!Skip(n)
        BY <2>3, <3>1, <3>2 DEF Fifo!Skip, Fifo!Drop
      <3> QED
        BY <3>2, <3>3 DEF Fifo!FifoNext
    <2>5. CASE n > Arrived
      <3>1. PICK r \in Slots, w \in Slots, b \in [Slots -> Byte] :
                r = rp' /\ w = wp' /\ b = rxbuf'
        BY DEF SerialInv, SerialTypeOK
      <3>2. Queue' = Between(r, w, b)
        BY <3>1, QueueOf DEF SerialInv
      <3>3. Queue' \in Seq(Byte) /\ Len(Queue') <= SIZE_OF_RX_BUF - 1
        <4>1. /\ Between(r, w, b) \in Seq(Byte) /\ Dist(r, w) \in Slots
              /\ Len(Between(r, w, b)) = Dist(r, w)
          BY BetweenSeq
        <4>2. Len(Queue') = Dist(r, w)
          BY <3>2, <4>1
        <4> HIDE DEF Fifo!fifoVars
        <4> QED
          BY <3>2, <4>1, <4>2
      <3>4. ahead' = 1 - ahead
        BY <2>2, <2>5
      <3>5. Fifo!SkipAhead
        BY <2>3, <3>3, <3>4 DEF Fifo!SkipAhead
      <3> QED
        BY <3>5 DEF Fifo!FifoNext
    <2> QED
      BY <2>2, <2>4, <2>5
  <1> QED
    BY <1>1, <1>2, <1>3, <1>4, <1>5, <1>6, <1>7 DEF SerialNext

(* The receive ring implements a bounded queue: bytes come out once, in    *)
(* order and unchanged, for every size of the ring.                        *)
THEOREM RingRefinesFifo ==
    SerialSpec => RingIsFifo
  <1>1. SerialInv /\ [SerialNext]_serialVars => SerialInv'
    BY SerialStepInv
  <1>2. SerialInv /\ SerialInv' /\ [SerialNext]_serialVars
            => [Fifo!FifoNext]_(Fifo!fifoVars)
    BY RefineStep
  <1> QED
    BY SerialInitInv, RefineInit, <1>1, <1>2, PTL
    DEF SerialSpec, RingIsFifo, Fifo!FifoSpec
=============================================================================
