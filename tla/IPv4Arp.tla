------------------------------- MODULE IPv4Arp -------------------------------
(***************************************************************************)
(* The ARP table, mimicip/NyLPC_cIPv4Arp.c.  Only the uip task changes it; *)
(* it has the highest priority and no operation below blocks, so each is   *)
(* one step for the threads that look addresses up.                        *)
(***************************************************************************)
EXTENDS Integers, FiniteSetsExt

CONSTANTS
    ARPTAB_SIZE,
    UIP_ARP_MAXAGE,     \* 120
    AgeMod,             \* arptime and time are 8 bits wide: 256
    Ips,                \* the addresses that packets come from, 0.0.0.0 aside
    LocalIps,           \* those of the local network
    ZERO,               \* 0.0.0.0, which marks an unused entry
    Macs, NoMac

Entries == 1 .. ARPTAB_SIZE
Ages    == 0 .. AgeMod - 1

ASSUME ArpAssumption ==
    /\ ARPTAB_SIZE \in Nat \ {0} /\ UIP_ARP_MAXAGE \in Nat \ {0}
    /\ AgeMod \in Nat /\ AgeMod > UIP_ARP_MAXAGE
    /\ LocalIps \subseteq Ips /\ ZERO \notin Ips /\ NoMac \notin Macs

VARIABLES
    arp_table, arptime,
    learned     \* the hardware address last announced for each address

arpVars == <<arp_table, arptime, learned>>

ArpTypeOK ==
    /\ arp_table \in [Entries -> [ipaddr : Ips \cup {ZERO},
                                  ethaddr : Macs \cup {NoMac}, time : Ages]]
    /\ arptime \in Ages
    /\ learned \in [Ips -> Macs \cup {NoMac}]

Unused == [ipaddr |-> ZERO, ethaddr |-> NoMac, time |-> 0]

ArpInit ==
    /\ arp_table = [i \in Entries |-> Unused]
    /\ arptime = 0
    /\ learned = [ip \in Ips |-> NoMac]

(* NyLPC_cIPv4Arp_initialize, at every start. *)
ArpStart ==
    /\ arp_table' = [i \in Entries |-> [arp_table[i] EXCEPT !.ipaddr = ZERO]]
    /\ arptime' = 0
    /\ UNCHANGED learned

Of(ip) == {i \in Entries : arp_table[i].ipaddr = ip}

(* NyLPC_cIPv4Arp_IPv4toEthAddr searches from the end. *)
IPv4toEthAddr(ip) == IF Of(ip) = {} THEN NoMac ELSE arp_table[Max(Of(ip))].ethaddr

(* The difference of two 8-bit numbers, as an int: negative once arptime   *)
(* has gone round.                                                         *)
Age(i) == arptime - arp_table[i].time

Oldest ==
    LET old == {i \in Entries : Age(i) > 0 /\ \A j \in Entries : Age(j) <= Age(i)}
    IN  IF old = {} THEN 1 ELSE Min(old)

(* Mutant: an unused entry is taken before the rest of the table is searched. *)
EntryForUnusedFirst(ip) ==
    IF Of(ZERO) # {} THEN Min(Of(ZERO))
    ELSE IF Of(ip) # {} THEN Min(Of(ip)) ELSE Oldest

(* The entry that is written: the address's own, else an unused one, else  *)
(* the oldest.  An announcement of 0.0.0.0 (a probe) finds no entry of its *)
(* own.                                                                    *)
EntryFor(ip) ==
    IF ip # ZERO /\ Of(ip) # {} THEN Min(Of(ip))
    ELSE IF Of(ZERO) # {} THEN Min(Of(ZERO)) ELSE Oldest

(* Mutant: an entry that is found is only made younger. *)
updateTimeOnly(ip, mac) ==
    /\ arp_table' = [arp_table EXCEPT ![EntryFor(ip)] =
                        [ipaddr |-> ip, time |-> arptime,
                         ethaddr |-> IF Of(ip) = {} THEN mac ELSE IPv4toEthAddr(ip)]]
    /\ learned' = IF ip = ZERO THEN learned ELSE [learned EXCEPT ![ip] = mac]
    /\ UNCHANGED arptime

uip_arp_update(ip, mac) ==
    /\ arp_table' = [arp_table EXCEPT ![EntryFor(ip)] =
                        [ipaddr |-> ip, ethaddr |-> mac, time |-> arptime]]
    /\ learned' = IF ip = ZERO THEN learned ELSE [learned EXCEPT ![ip] = mac]
    /\ UNCHANGED arptime

(* NyLPC_cIPv4Arp_rx: a request for our address or a reply to us.  The     *)
(* sender may be anyone, also one outside the local network.               *)
ArpRx(ip, mac) == uip_arp_update(ip, mac)

(* NyLPC_cIPv4Arp_incomingIp: the sender of a packet, if it is local. *)
incomingIp(ip, mac) ==
    IF ip \in LocalIps THEN uip_arp_update(ip, mac) ELSE UNCHANGED arpVars

(* NyLPC_cIPv4Arp_periodic *)
periodic ==
    LET now == (arptime + 1) % AgeMod IN
    /\ arptime' = now
    /\ arp_table' = [i \in Entries |->
                        IF now - arp_table[i].time >= UIP_ARP_MAXAGE
                          THEN [arp_table[i] EXCEPT !.ipaddr = ZERO]
                          ELSE arp_table[i]]
    /\ UNCHANGED learned

-----------------------------------------------------------------------------
(* An address has one entry: NyLPC_cIPv4Arp.c searches from both ends and   *)
(* frees entries one by one, so that a second entry of an address would be *)
(* found by one search and not by the other.                               *)
ArpUnique == \A i, j \in Entries :
    arp_table[i].ipaddr = arp_table[j].ipaddr /\ i # j => arp_table[i].ipaddr = ZERO

=============================================================================
