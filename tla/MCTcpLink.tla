----------------------------- MODULE MCTcpLink -----------------------------
(* Model values and bounds for TcpLink. *)
EXTENDS TcpLink, TLC

CONSTANTS b1, b2

MCBufs == {b1, b2}

MCInitialRto == {1}

MCNone == {}

BufSymmetry == Permutations(MCBufs)

(* As in MCTcpSocket: what no step reads before it is written.  The peer's *)
(* window matters while it has data to send, got and cut until close gives *)
(* up receiving.  When the one connection is over, only where the    *)
(* tasks are matters.                                                      *)
LinkView ==
    IF opened /\ state = "CLOSED"
    THEN <<apc, aop, upc, txq = <<>>, toDev = {}, toPeer = {}, alive>>
    ELSE <<conn, hist, txq, free, uipVars, apc, aop, abuf,
           IF apc \in {"seek", "gotBuf", "psendQ"} THEN alen ELSE 0,
           IF apc \in {"swrTx", "wait"} THEN asq ELSE 0,
           [b \in Queued \cup ({abuf} \cap Bufs) |-> mem[b]],
           net, opened, una, nxt, rcv, alive,
           IF una > PeerBytes THEN 0 ELSE <<edge, wl>>,
           IF state \in {"FIN_WAIT_1", "FIN_WAIT_2", "CLOSING", "TIME_WAIT"}
           THEN 0 ELSE <<got, cut>> >>
=============================================================================
