------------------------------ MODULE SnicFifo ------------------------------
(***************************************************************************)
(* What the serial device of the SNIC interface promises to the message    *)
(* task: a queue of bounded capacity from which bytes come out once, in    *)
(* the order in which they were put in.  A skip over more bytes than it    *)
(* holds leaves an unspecified content behind.                             *)
(***************************************************************************)
EXTENDS Integers, Sequences

CONSTANTS Byte, Capacity

VARIABLES
    queue,      \* bytes received and not yet taken
    out,        \* the bytes taken last
    ahead       \* parity of the skips over more than there was

fifoVars == <<queue, out, ahead>>

FifoInit == queue = <<>> /\ out = <<>> /\ ahead = 0

Put(b) ==
    /\ Len(queue) < Capacity
    /\ queue' = Append(queue, b)
    /\ UNCHANGED <<out, ahead>>

(* Remove the first k bytes. *)
Drop(k) == queue' = SubSeq(queue, k + 1, Len(queue))

Take(k) == out' = SubSeq(queue, 1, k) /\ Drop(k) /\ UNCHANGED ahead

Skip(k) == Drop(k) /\ UNCHANGED <<out, ahead>>

SkipAhead ==
    /\ ahead' = 1 - ahead
    /\ queue' \in Seq(Byte) /\ Len(queue') <= Capacity
    /\ UNCHANGED out

FifoNext ==
    \/ \E b \in Byte : Put(b)
    \/ \E k \in 1 .. Len(queue) : Take(k) \/ Skip(k)
    \/ SkipAhead

FifoSpec == FifoInit /\ [][FifoNext]_fifoVars
=============================================================================
