---------------------------- MODULE MCTcpSocket ----------------------------
(* Model values and bounds for TcpSocket. *)
EXTENDS TcpSocket, TLC

CONSTANTS b1, b2, b3

MCBufs == {b1, b2, b3}

MCInitialRto == {1}

MCPeerSeq == {1}

(* Every field of a segment is free, except that parseRx looks at nothing  *)
(* but the flag of an RST.                                                 *)
MCInSegment ==
    {[BlankSegment EXCEPT !.flags = {"RST", "ACK"}]}
    \cup [flags : {{"ACK"}, {"SYN"}, {"SYN", "ACK"}, {"FIN", "ACK"}},
          seq : 1 .. 2, ack : 0 .. MaxSeq + 1, len : 0 .. 1, wnd : 0 .. 1]

BufSymmetry == Permutations(MCBufs)

(* Two states are the same when they differ only in what no step reads     *)
(* before it is written: the last output, the content of a buffer nobody   *)
(* holds, and the locals of a call that is over.                          *)
View ==
    <<IF used THEN <<conn, hist>> ELSE 0, txq, free, uipVars, apc, aop, abuf,
      IF apc \in {"seek", "gotBuf", "psendQ"} THEN alen ELSE 0,
      IF apc \in {"swrTx", "wait"} THEN asq ELSE 0,
      [b \in Queued \cup ({abuf} \cap Bufs) |-> mem[b]]>>
=============================================================================
