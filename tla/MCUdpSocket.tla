----------------------------- MODULE MCUdpSocket -----------------------------
(* Instances of UdpSocket for TLC: a host, a router and a remote address.   *)
EXTENDS UdpSocket, TLC

CONSTANTS host, router, remote, m1, m2

MCLocalIps == {host, router}
MCIps      == {host, router, remote}
MCMacs     == {m1, m2}
MCSendTo   == {host, remote, BROADCAST}

MacSymmetry == Permutations(MCMacs)

(* What is left in an unused entry, the hardware address of one that is not *)
(* local and the one last announced for a host that is not in the table are *)
(* never read.                                                              *)
Entry(e) ==
    IF e.ipaddr = ZERO THEN Unused
    ELSE IF e.ipaddr \in LocalIps THEN e ELSE [e EXCEPT !.ethaddr = NoMac]

Table == <<[i \in Entries |-> Entry(arp_table[i])],
           [ip \in LocalIps |-> IF Of(ip) = {} THEN NoMac ELSE learned[ip]], arptime>>

(* Nor is the argument of a call that has sent its frame, and that frame.   *)
(* When all memory is forgotten no call reads the table or its argument,    *)
(* and none reads the table that was left when the interface was stopped.   *)
Dry == refs = Blocks /\ spc \in {"idle", "alloc"}

Sender == <<spc, try, refs, lost,
            IF Dry \/ spc \in {"idle", "release"} THEN Router ELSE dest,
            IF spc = "release" THEN NoFrame ELSE frame>>

UdpView == <<IF Dry \/ (~isRun /\ spc = "idle") THEN <<>> ELSE Table, Sender,
             runVars, rxVars>>
=============================================================================
