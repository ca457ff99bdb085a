------------------------------ MODULE MCEthTx ------------------------------
(* Model values and sizes for EthTx. *)
EXTENDS EthTx, TLC

CONSTANTS s1, s2, g1, g2, t1, t2

MCSys1 == {s1}
MCSys2 == {s1, s2}
MCGen1 == {g1}
MCGen2 == {g1, g2}
MCSizeOf == [b \in Gen |-> IF b = g1 THEN 128 ELSE 256]
MCTasks == {t1, t2}
MCOneTask == {t1}

(* Without the history frame, which no step reads, and without the index of *)
(* a loop that has ended.                                                   *)
RingView ==
    <<mem, desc, produce, consume, device, mutex, pc, buf, held,
      [t \in Tasks |-> IF pc[t] = "clean" THEN idx[t] ELSE 0]>>
=============================================================================
