---------------------------- MODULE MCTcpTables ----------------------------
(* Model values and sizes for TcpTables. *)
EXTENDS TcpTables, TLC

CONSTANTS srv, cl1, p1, p2

MCServers == {srv}
MCClients == {cl1}
MCPeers == {p1, p2}
MCListenPorts == {1}

(* Values that are written before they are read again: what a closed       *)
(* socket was connected to, who opened a socket, and a free listener.      *)
LiveSock == [i \in Slots |-> IF sock[i].open THEN <<sock[i].lport, sock[i].peer>> ELSE <<>>]
LiveLis  == [l \in LSlots |-> IF lused[l] THEN <<lport[l], item[l], wp[l], age[l]>> ELSE <<>>]

TablesView == <<used, LiveSock, LiveLis, counter, task, clash>>
=============================================================================
