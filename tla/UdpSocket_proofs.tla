--------------------------- MODULE UdpSocket_proofs ---------------------------
(***************************************************************************)
(* Proofs about UdpSocket, for every size of the ARP table and of the      *)
(* receive buffer, every set of hosts and hardware addresses.              *)
(***************************************************************************)
EXTENDS UdpSocket, WellFoundedInduction, SequenceTheorems, TLAPS

USE ArpAssumption, UdpAssumption

-----------------------------------------------------------------------------
(* Searching the ARP table *)

(* A non-empty set of naturals has a least element. *)
LEMMA SomeLeast ==
    ASSUME NEW T \in SUBSET Nat, T # {}
    PROVE  \E x \in T : \A y \in T : x <= y
  <1> DEFINE R == OpToRel(<, Nat)
  <1>1. PICK x \in T : \A y \in T : ~(<<y, x>> \in R)
    <2> HIDE DEF R
    <2>1. IsWellFoundedOn(R, Nat)
      BY NatLessThanWellFounded DEF R
    <2> QED
      BY <2>1, WFMin
  <1>2. \A y \in T : y < x => <<y, x>> \in R
    BY DEF OpToRel
  <1> HIDE DEF R
  <1>3. \A y \in T : ~(y < x)
    BY <1>1, <1>2
  <1>4. \A y \in T : x <= y
    BY <1>3
  <1> QED
    BY <1>4

(* The search from the front finds an element of the set. *)
LEMMA MinIn ==
    ASSUME NEW T \in SUBSET Entries, T # {}
    PROVE  Min(T) \in T
  <1>1. T \in SUBSET Nat
    BY DEF Entries
  <1>2. \E x \in T : \A y \in T : x =< y
    BY <1>1, SomeLeast
  <1> QED
    BY <1>2 DEF Min

(* So does the search from the end. *)
LEMMA MaxIn ==
    ASSUME NEW T \in SUBSET Entries, T # {}
    PROVE  Max(T) \in T
  <1> DEFINE U == {ARPTAB_SIZE - x : x \in T}
  <1>1. U \in SUBSET Nat /\ U # {}
    BY DEF Entries
  <1>2. PICK u \in U : \A y \in U : u <= y
    <2> HIDE DEF U
    <2> QED
      BY <1>1, SomeLeast
  <1>3. PICK x \in T : u = ARPTAB_SIZE - x
    BY <1>2
  <1>4. \A y \in T : ARPTAB_SIZE - x <= ARPTAB_SIZE - y
    BY <1>2, <1>3
  <1>5. \A y \in T : x >= y
    <2> TAKE y \in T
    <2>1. x \in Int /\ y \in Int
      BY DEF Entries
    <2> QED
      BY <1>4, <2>1
  <1> QED
    BY <1>5 DEF Max

(* The table holds one entry per address, with what was announced last. *)
Fresh ==
    \A i \in Entries : arp_table[i].ipaddr # ZERO =>
        /\ arp_table[i].ethaddr = learned[arp_table[i].ipaddr]
        /\ arp_table[i].ethaddr # NoMac

ArpInv == ArpTypeOK /\ ArpUnique /\ Fresh

(* The entry that is written is the address's own if it has one.           *)
LEMMA EntryForIs ==
    ASSUME NEW ip \in Ips \cup {ZERO}
    PROVE  /\ EntryFor(ip) \in Entries
           /\ ip # ZERO /\ Of(ip) # {} => arp_table[EntryFor(ip)].ipaddr = ip
  <1>1. Of(ip) \in SUBSET Entries /\ Of(ZERO) \in SUBSET Entries
    BY DEF Of
  <1>2. CASE ip # ZERO /\ Of(ip) # {}
    <2>1. Min(Of(ip)) \in Of(ip)
      BY <1>1, <1>2, MinIn
    <2>2. EntryFor(ip) = Min(Of(ip))
      BY <1>2 DEF EntryFor
    <2> QED
      BY <2>1, <2>2 DEF Of
  <1>3. CASE ~(ip # ZERO /\ Of(ip) # {}) /\ Of(ZERO) # {}
    <2>1. Min(Of(ZERO)) \in Of(ZERO)
      BY <1>1, <1>3, MinIn
    <2>2. EntryFor(ip) = Min(Of(ZERO))
      BY <1>3 DEF EntryFor
    <2> QED
      BY <1>3, <2>1, <2>2 DEF Of
  <1>4. CASE ~(ip # ZERO /\ Of(ip) # {}) /\ Of(ZERO) = {}
    <2> DEFINE old == {i \in Entries : Age(i) > 0 /\ \A j \in Entries : Age(j) <= Age(i)}
    <2>1. EntryFor(ip) = IF old = {} THEN 1 ELSE Min(old)
      BY <1>4 DEF EntryFor, Oldest
    <2>2. old \in SUBSET Entries
      OBVIOUS
    <2>3. 1 \in Entries
      BY DEF Entries
    <2> HIDE DEF old
    <2>4. old # {} => Min(old) \in old
      BY <2>2, MinIn
    <2> QED
      BY <1>4, <2>1, <2>2, <2>3, <2>4
  <1> QED
    BY <1>2, <1>3, <1>4

(* What a lookup returns.                                                  *)
LEMMA LookUp ==
    ASSUME ArpInv, NEW ip \in LocalIps
    PROVE  IPv4toEthAddr(ip) # NoMac => IPv4toEthAddr(ip) = learned[ip]
  <1>1. Of(ip) \in SUBSET Entries
    BY DEF Of
  <1>2. CASE Of(ip) # {}
    <2>1. Max(Of(ip)) \in Of(ip)
      BY <1>1, <1>2, MaxIn
    <2> QED
      BY <1>2, <2>1 DEF Of, IPv4toEthAddr, ArpInv, Fresh
  <1> QED
    BY <1>2 DEF IPv4toEthAddr

(* An announcement.                                                        *)
LEMMA UpdateArp ==
    ASSUME ArpInv, NEW ip \in Ips \cup {ZERO}, NEW mac \in Macs,
           uip_arp_update(ip, mac)
    PROVE  ArpInv'
  <1> DEFINE e == EntryFor(ip)
  <1>1. e \in Entries /\ (ip # ZERO /\ Of(ip) # {} => arp_table[e].ipaddr = ip)
    BY EntryForIs
  <1>2. \A i \in Entries : ip # ZERO /\ arp_table[i].ipaddr = ip => i = e
    BY <1>1 DEF Of, ArpInv, ArpUnique
  <1>3. /\ arp_table' = [arp_table EXCEPT ![e] =
                            [ipaddr |-> ip, ethaddr |-> mac, time |-> arptime]]
        /\ learned' = IF ip = ZERO THEN learned ELSE [learned EXCEPT ![ip] = mac]
        /\ arptime' = arptime
    BY DEF uip_arp_update
  <1> HIDE DEF e
  <1>4. ArpTypeOK'
    BY <1>1, <1>3 DEF ArpInv, ArpTypeOK
  <1>5. \A i \in Entries :
          arp_table'[i] = IF i = e THEN [ipaddr |-> ip, ethaddr |-> mac, time |-> arptime]
                                   ELSE arp_table[i]
    BY <1>1, <1>3 DEF ArpInv, ArpTypeOK
  <1>6. ArpUnique'
    BY <1>2, <1>5 DEF ArpInv, ArpUnique
  <1>7. Fresh'
    <2> SUFFICES ASSUME NEW i \in Entries, arp_table'[i].ipaddr # ZERO
                 PROVE  /\ arp_table'[i].ethaddr = learned'[arp_table'[i].ipaddr]
                        /\ arp_table'[i].ethaddr # NoMac
      BY DEF Fresh
    <2>1. CASE i = e
      BY <1>3, <1>5, <2>1 DEF ArpInv, ArpTypeOK
    <2>2. CASE i # e
      <3>1. arp_table'[i] = arp_table[i] /\ arp_table[i].ipaddr \in Ips
        BY <1>5, <2>2 DEF ArpInv, ArpTypeOK
      <3>2. arp_table[i].ipaddr # ip
        BY <1>2, <2>2, <3>1
      <3> QED
        BY <1>3, <3>1, <3>2 DEF ArpInv, ArpTypeOK, Fresh
    <2> QED
      BY <2>1, <2>2
  <1> QED
    BY <1>4, <1>6, <1>7 DEF ArpInv

(* Entries that are too old are freed.                                     *)
LEMMA PeriodicArp ==
    ASSUME ArpInv, periodic
    PROVE  ArpInv'
  <1>1. arptime' \in Ages /\ learned' = learned
    BY DEF periodic, ArpInv, ArpTypeOK, Ages
  <1>2. \A i \in Entries :
          \/ arp_table'[i] = arp_table[i]
          \/ arp_table'[i] = [arp_table[i] EXCEPT !.ipaddr = ZERO]
    BY DEF periodic
  <1>3. \A i \in Entries :
          /\ arp_table'[i] \in [ipaddr : Ips \cup {ZERO},
                                ethaddr : Macs \cup {NoMac}, time : Ages]
          /\ arp_table'[i].ipaddr \in {arp_table[i].ipaddr, ZERO}
          /\ arp_table'[i].ethaddr = arp_table[i].ethaddr
    <2> DEFINE Entry == [ipaddr : Ips \cup {ZERO},
                         ethaddr : Macs \cup {NoMac}, time : Ages]
    <2>1. \A r \in Entry :
            LET f == [r EXCEPT !.ipaddr = ZERO]
            IN f \in Entry /\ f.ipaddr = ZERO /\ f.ethaddr = r.ethaddr
      OBVIOUS
    <2>2. \A i \in Entries : arp_table[i] \in Entry
      BY DEF ArpInv, ArpTypeOK
    <2> HIDE DEF Entry
    <2>3. \A i \in Entries :
            /\ arp_table'[i] \in Entry
            /\ arp_table'[i].ipaddr \in {arp_table[i].ipaddr, ZERO}
            /\ arp_table'[i].ethaddr = arp_table[i].ethaddr
      <3> TAKE i \in Entries
      <3>1. CASE arp_table'[i] = arp_table[i]
        BY <2>2, <3>1
      <3>2. CASE arp_table'[i] = [arp_table[i] EXCEPT !.ipaddr = ZERO]
        BY <2>1, <2>2, <3>2
      <3> QED
        BY <1>2, <3>1, <3>2
    <2> QED
      BY <2>3 DEF Entry
  <1>4. ArpTypeOK'
    <2>1. arp_table' \in [Entries -> [ipaddr : Ips \cup {ZERO},
                                      ethaddr : Macs \cup {NoMac}, time : Ages]]
      BY <1>3 DEF periodic
    <2> QED
      BY <1>1, <2>1 DEF ArpInv, ArpTypeOK
  <1>5. ArpUnique'
    BY <1>3 DEF ArpInv, ArpUnique
  <1>6. Fresh'
    BY <1>1, <1>3 DEF ArpInv, Fresh
  <1> QED
    BY <1>4, <1>5, <1>6 DEF ArpInv

(* A start frees all entries.                                              *)
LEMMA StartArp ==
    ASSUME ArpInv, ArpStart
    PROVE  ArpInv'
  <1>1. \A i \in Entries : arp_table'[i] = [arp_table[i] EXCEPT !.ipaddr = ZERO]
    BY DEF ArpStart
  <1> DEFINE E == [ipaddr : Ips \cup {ZERO}, ethaddr : Macs \cup {NoMac}, time : Ages]
  <1>2. ArpTypeOK'
    <2>1. \A r \in E : [r EXCEPT !.ipaddr = ZERO] \in E
      OBVIOUS
    <2>2. \A i \in Entries : arp_table[i] \in E
      BY DEF ArpInv, ArpTypeOK
    <2>3. \A i \in Entries : arp_table'[i] \in E
      BY <1>1, <2>1, <2>2, ZenonT(60)
    <2>4. arp_table' \in [Entries -> E]
      <3> HIDE DEF E
      <3> QED
        BY <2>3 DEF ArpStart
    <2> QED
      BY <2>4 DEF ArpInv, ArpTypeOK, ArpStart, Ages
  <1>3. \A i \in Entries : arp_table'[i].ipaddr = ZERO
    BY <1>1 DEF ArpInv, ArpTypeOK
  <1> QED
    BY <1>2, <1>3 DEF ArpInv, ArpUnique, Fresh

(* The table at the beginning.                                             *)
LEMMA InitArp == ArpInit => ArpInv
  <1> SUFFICES ASSUME ArpInit PROVE ArpInv
    OBVIOUS
  <1>1. ArpTypeOK
    BY DEF ArpInit, ArpTypeOK, Unused, Ages
  <1>2. \A i \in Entries : arp_table[i].ipaddr = ZERO
    BY DEF ArpInit, Unused
  <1> QED
    BY <1>1, <1>2 DEF ArpInv, ArpUnique, Fresh

(* Every step of the specification keeps the table.                        *)
LEMMA StepArp ==
    ASSUME ArpInv, [UdpNext]_udpVars
    PROVE  ArpInv'
  <1> DEFINE same == UNCHANGED arpVars
  <1>1. same => ArpInv'
    BY DEF arpVars, ArpInv, ArpTypeOK, ArpUnique, Fresh
  <1>2. ASSUME NEW ip \in Ips, NEW mac \in Macs, incomingIp(ip, mac)
        PROVE  ArpInv'
    BY <1>1, <1>2, UpdateArp DEF incomingIp
  <1> HIDE DEF same
  <1>3. CASE UipNext
    <2>1. CASE UipStart
      BY <2>1, StartArp DEF UipStart
    <2>2. CASE UipDevice \/ UipStarted \/ UipStop \/ UipStopped
      BY <1>1, <2>2 DEF UipDevice, UipStarted, UipStop, UipStopped, same
    <2>3. CASE UipPeriodic
      BY <2>3, PeriodicArp DEF UipPeriodic
    <2>4. ASSUME NEW ip \in Ips \cup {ZERO}, NEW mac \in Macs, UipArp(ip, mac)
          PROVE  ArpInv'
      BY <2>4, UpdateArp DEF UipArp, ArpRx
    <2>5. ASSUME NEW bcast \in BOOLEAN, NEW size \in Sizes, UipUdp(bcast, size)
          PROVE  ArpInv'
      BY <1>2, <2>5 DEF UipUdp
    <2>6. ASSUME NEW ip \in LocalIps, NEW mac \in Macs, UipDrop(ip, mac)
          PROVE  ArpInv'
      BY <1>2, <2>6 DEF UipDrop
    <2> QED
      BY <1>3, <2>1, <2>2, <2>3, <2>4, <2>5, <2>6 DEF UipNext
  <1>4. CASE CtlNext
    BY <1>1, <1>4 DEF CtlNext, Order, OrderDone, same
  <1>5. CASE UserNext
    BY <1>1, <1>5 DEF UserNext, same, Create, finalize, setBroadcast, precv, pseek, Send,
        AllocSendBuf, psendRefused, psend, Wake, sendIPv4Tx, releaseTxBuf, SendGoto
  <1>6. CASE UNCHANGED udpVars
    BY <1>1, <1>6 DEF udpVars, same
  <1> QED
    BY <1>3, <1>4, <1>5, <1>6 DEF UdpNext

(* An address has one entry in the ARP table.                              *)
THEOREM ArpEntriesUnique == UdpSpec => []ArpUnique
  <1>1. UdpInit => ArpInv
    BY InitArp DEF UdpInit
  <1>2. ArpInv /\ [UdpNext]_udpVars => ArpInv'
    BY StepArp
  <1>3. ArpInv => ArpUnique
    BY DEF ArpInv
  <1> QED
    BY <1>1, <1>2, <1>3, PTL DEF UdpSpec

-----------------------------------------------------------------------------
(* Start and stop *)

(* An order and the uip task's place in it: the order bit is there exactly *)
(* until the uip task has done what the waiting thread asked for.          *)
OrderInv ==
    /\ status \subseteq {"IS_RUNNING", "ORDER_START", "ORDER_STOP"}
    /\ upc \in {"loop", "device", "started", "stopped"}
    /\ ctl \in {"idle", "start", "stop"}
    /\ ctl # "start" => "ORDER_START" \notin status
    /\ ctl # "stop" => "ORDER_STOP" \notin status
    /\ upc = "loop" /\ ctl = "start" => ("ORDER_START" \in status) = (~isRun)
    /\ upc = "loop" /\ ctl = "stop" => ("ORDER_STOP" \in status) = isRun
    /\ upc = "device" => ctl = "start" /\ "ORDER_START" \in status /\ ~isRun
    /\ upc = "started" => ctl = "start" /\ "ORDER_START" \in status /\ isRun
    /\ upc = "stopped" => ctl = "stop" /\ "ORDER_STOP" \in status /\ ~isRun

(* Every step keeps it.                                                    *)
LEMMA StepOrder ==
    ASSUME OrderInv, [UdpNext]_udpVars
    PROVE  OrderInv'
  <1> DEFINE same == UNCHANGED runVars
  <1>1. same => OrderInv'
    BY DEF runVars, OrderInv, isRun
  <1> HIDE DEF same
  <1>2. CASE UipNext
    <2>1. CASE UipStart
      BY <2>1 DEF UipStart, OrderInv, isRun
    <2>2. CASE UipDevice
      BY <2>2 DEF UipDevice, OrderInv, isRun
    <2>3. CASE UipStarted
      BY <2>3 DEF UipStarted, OrderInv, isRun
    <2>4. CASE UipStop
      BY <2>4 DEF UipStop, OrderInv, isRun
    <2>5. CASE UipStopped
      BY <2>5 DEF UipStopped, OrderInv, isRun
    <2>6. CASE UipPeriodic
      BY <1>1, <2>6 DEF UipPeriodic, same
    <2>7. ASSUME NEW ip \in Ips \cup {ZERO}, NEW mac \in Macs, UipArp(ip, mac)
          PROVE  OrderInv'
      BY <1>1, <2>7 DEF UipArp, same
    <2>8. ASSUME NEW bcast \in BOOLEAN, NEW size \in Sizes, UipUdp(bcast, size)
          PROVE  OrderInv'
      BY <1>1, <2>8 DEF UipUdp, same
    <2>9. ASSUME NEW ip \in LocalIps, NEW mac \in Macs, UipDrop(ip, mac)
          PROVE  OrderInv'
      BY <1>1, <2>9 DEF UipDrop, same
    <2> QED
      BY <1>2, <2>1, <2>2, <2>3, <2>4, <2>5, <2>6, <2>7, <2>8, <2>9 DEF UipNext
  <1>3. CASE CtlNext
    BY <1>3 DEF CtlNext, Order, OrderDone, OrderInv, isRun
  <1>4. CASE UserNext
    BY <1>1, <1>4 DEF UserNext, same, Create, finalize, setBroadcast, precv, pseek, Send,
        AllocSendBuf, psendRefused, psend, Wake, sendIPv4Tx, releaseTxBuf, SendGoto
  <1>5. CASE UNCHANGED udpVars
    BY <1>1, <1>5 DEF udpVars, same
  <1> QED
    BY <1>2, <1>3, <1>4, <1>5 DEF UdpNext

(* start returns when the interface is running, stop when it is not.       *)
THEOREM OrdersObeyed == UdpSpec => OrderObeyed
  <1>1. UdpInit => OrderInv
    BY DEF UdpInit, OrderInv, isRun
  <1>2. OrderInv /\ [UdpNext]_udpVars => OrderInv'
    BY StepOrder
  <1>3. ASSUME OrderInv, [UdpNext]_udpVars
        PROVE  [ctl # ctl' /\ ctl' = "idle" => isRun = (ctl = "start")]_udpVars
    <2> SUFFICES ASSUME UdpNext, ctl # ctl', ctl' = "idle"
                 PROVE  isRun = (ctl = "start")
      BY <1>3
    <2>1. CtlNext
      BY DEF UdpNext, UipNext, UserNext, UipStart, UipDevice, UipStarted, UipStop, UipStopped,
          UipPeriodic, UipArp, UipUdp, UipDrop, runVars, Create, finalize, setBroadcast, precv,
          pseek, Send, AllocSendBuf, psendRefused, psend, Wake, sendIPv4Tx, releaseTxBuf,
          SendGoto
    <2>2. \/ OrderDone("start", "ORDER_START")
          \/ OrderDone("stop", "ORDER_STOP")
      BY <2>1 DEF CtlNext, Order
    <2>3. CASE OrderDone("start", "ORDER_START")
      BY <1>3, <2>3 DEF OrderDone, OrderInv, isRun
    <2>4. CASE OrderDone("stop", "ORDER_STOP")
      BY <1>3, <2>4 DEF OrderDone, OrderInv, isRun
    <2> QED
      BY <2>2, <2>3, <2>4
  <1> QED
    BY <1>1, <1>2, <1>3, PTL DEF UdpSpec, OrderObeyed

-----------------------------------------------------------------------------
(* The reader *)

Datagram == [size : Sizes, read : BOOLEAN]

(* A datagram handed out by precv stays the first one until pseek, unless  *)
(* a start empties the buffer.                                             *)
ReadInv ==
    /\ used \in BOOLEAN /\ reading \in BOOLEAN /\ cleared \in BOOLEAN
    /\ broadcast \in BOOLEAN /\ skipped = FALSE
    /\ rxbuf \in Seq(Datagram)
    /\ reading => used
    /\ cleared => reading
    /\ reading /\ ~cleared => rxbuf # <<>> /\ rxbuf[1].read = TRUE

(* Every step keeps it.                                                    *)
LEMMA StepRead ==
    ASSUME ReadInv, [UdpNext]_udpVars
    PROVE  ReadInv'
  <1> DEFINE same == UNCHANGED rxVars
  <1>1. same => ReadInv'
    BY DEF rxVars, ReadInv
  <1> HIDE DEF same
  <1>2. CASE UipNext
    <2>1. CASE UipStart
      BY <2>1 DEF UipStart, ReadInv
    <2>2. CASE UipDevice \/ UipStarted \/ UipStop \/ UipStopped \/ UipPeriodic
      BY <1>1, <2>2 DEF UipDevice, UipStarted, UipStop, UipStopped, UipPeriodic, same
    <2>3. ASSUME NEW ip \in Ips \cup {ZERO}, NEW mac \in Macs, UipArp(ip, mac)
          PROVE  ReadInv'
      BY <1>1, <2>3 DEF UipArp, same
    <2>4. ASSUME NEW bcast \in BOOLEAN, NEW size \in Sizes, UipUdp(bcast, size)
          PROVE  ReadInv'
      <3> DEFINE new == [size |-> size, read |-> FALSE]
      <3>1. new \in Datagram
        BY DEF Datagram
      <3>2. rxbuf' = Append(rxbuf, new)
        BY <2>4 DEF UipUdp
      <3> HIDE DEF new
      <3>3. /\ rxbuf' \in Seq(Datagram) /\ rxbuf' # <<>>
            /\ rxbuf # <<>> => rxbuf'[1] = rxbuf[1]
        BY <3>1, <3>2 DEF ReadInv
      <3> QED
        BY <2>4, <3>3 DEF UipUdp, ReadInv
    <2>5. ASSUME NEW ip \in LocalIps, NEW mac \in Macs, UipDrop(ip, mac)
          PROVE  ReadInv'
      BY <1>1, <2>5 DEF UipDrop, same
    <2> QED
      BY <1>2, <2>1, <2>2, <2>3, <2>4, <2>5 DEF UipNext
  <1>3. CASE CtlNext
    BY <1>1, <1>3 DEF CtlNext, Order, OrderDone, same
  <1>4. CASE UserNext
    <2>1. CASE Create
      <3>1. used' \in BOOLEAN /\ broadcast' \in BOOLEAN
        BY <2>1, Zenon DEF Create
      <3>2. rxbuf' \in Seq(Datagram)
        BY <2>1 DEF Create
      <3>3. ~reading /\ ~cleared
        BY <2>1, Zenon DEF Create, ReadInv
      <3>4. reading' = reading /\ cleared' = cleared /\ skipped' = skipped
        BY <2>1, Zenon DEF Create
      <3> QED
        BY <3>1, <3>2, <3>3, <3>4, Zenon DEF ReadInv
    <2>2. CASE finalize
      <3>1. used' \in BOOLEAN /\ broadcast' \in BOOLEAN
        BY <2>2, Zenon DEF finalize
      <3>2. rxbuf' \in Seq(Datagram)
        BY <2>2 DEF finalize
      <3>3. ~reading /\ ~cleared
        BY <2>2, Zenon DEF finalize, ReadInv
      <3>4. reading' = reading /\ cleared' = cleared /\ skipped' = skipped
        BY <2>2, Zenon DEF finalize
      <3> QED
        BY <3>1, <3>2, <3>3, <3>4, Zenon DEF ReadInv
    <2>3. CASE setBroadcast
      BY <2>3 DEF setBroadcast, ReadInv
    <2>4. CASE precv
      <3>1. rxbuf \in Seq(Datagram) /\ rxbuf # <<>> /\ 1 \in DOMAIN rxbuf
        BY <2>4 DEF precv, ReadInv
      <3>2. rxbuf[1] \in Datagram
        BY <3>1
      <3> DEFINE new == [rxbuf[1] EXCEPT !.read = TRUE]
      <3>3. new \in Datagram /\ new.read = TRUE
        BY <3>2 DEF Datagram
      <3>4. rxbuf' = [rxbuf EXCEPT ![1] = new]
        BY <2>4 DEF precv
      <3> HIDE DEF new
      <3>5. rxbuf' \in Seq(Datagram) /\ rxbuf' # <<>> /\ rxbuf'[1].read = TRUE
        BY <3>1, <3>3, <3>4
      <3> QED
        BY <2>4, <3>5 DEF precv, ReadInv
    <2>5. CASE pseek
      <3>1. CASE rxbuf = <<>>
        BY <2>5, <3>1 DEF pseek, ReadInv
      <3>2. CASE rxbuf # <<>>
        <4>1. Tail(rxbuf) \in Seq(Datagram)
          BY <3>2 DEF ReadInv
        <4>2. skipped' = FALSE
          BY <2>5, <3>2 DEF pseek, ReadInv
        <4> QED
          BY <2>5, <3>2, <4>1, <4>2 DEF pseek, ReadInv
      <3> QED
        BY <3>1, <3>2
    <2>6. CASE ~(Create \/ finalize \/ setBroadcast \/ precv \/ pseek)
      BY <1>1, <1>4, <2>6 DEF UserNext, same, Send, AllocSendBuf, psendRefused, psend, Wake,
          sendIPv4Tx, releaseTxBuf, SendGoto
    <2> QED
      BY <2>1, <2>2, <2>3, <2>4, <2>5, <2>6
  <1>5. CASE UNCHANGED udpVars
    BY <1>1, <1>5 DEF udpVars, same
  <1> QED
    BY <1>2, <1>3, <1>4, <1>5 DEF UdpNext

(* The reader at the beginning.                                            *)
LEMMA InitRead == UdpInit => ReadInv
  <1> SUFFICES ASSUME UdpInit PROVE ReadInv
    OBVIOUS
  <1>1. rxbuf \in Seq(Datagram)
    BY DEF UdpInit
  <1> QED
    BY <1>1, Zenon DEF UdpInit, ReadInv

(* pseek removes only what precv has handed out.                           *)
THEOREM SeeksWhatWasRead == UdpSpec => []ReadBeforeSeek
  <1>1. UdpInit => ReadInv
    BY InitRead
  <1>2. ReadInv /\ [UdpNext]_udpVars => ReadInv'
    BY StepRead
  <1>3. ReadInv => ReadBeforeSeek
    BY DEF ReadInv, ReadBeforeSeek
  <1> QED
    BY <1>1, <1>2, <1>3, PTL DEF UdpSpec

-----------------------------------------------------------------------------
(* The sender *)

Frames == [dest : Dests, mac : Macs \cup {BroadcastMac}]

(* Beside the blocks that were too small, one is held from the allocation  *)
(* to the release; a frame only between sendIPv4Tx and the release.        *)
SendInv ==
    /\ spc \in {"idle", "alloc", "psend", "sleep", "tx", "release"}
    /\ dest \in Dests /\ try \in 1 .. MaxTry
    /\ refs \in 0 .. Blocks /\ lost \in 0 .. Blocks
    /\ frame \in Frames \cup {NoFrame}
    /\ refs = IF spc \in {"idle", "alloc"} THEN lost ELSE lost + 1
    /\ spc # "release" => frame = NoFrame

(* The next hop is a local host.                                           *)
LEMMA HopIsLocal == \A d \in Dests : d # BROADCAST => NextHop(d) \in LocalIps
  BY DEF NextHop, Dests

(* What is looked up for a destination.                                    *)
LEMMA EthDestIs ==
    ASSUME ArpInv, NEW d \in Dests, EthDest(d) # NoMac
    PROVE  /\ EthDest(d) \in Macs \cup {BroadcastMac}
           /\ EthDest(d) = IF d = BROADCAST THEN BroadcastMac ELSE learned[NextHop(d)]
  <1>1. CASE d = BROADCAST
    BY <1>1 DEF EthDest
  <1>2. CASE d # BROADCAST
    <2>1. NextHop(d) \in LocalIps
      BY <1>2, HopIsLocal
    <2>2. EthDest(d) = IPv4toEthAddr(NextHop(d))
      BY <1>2 DEF EthDest
    <2>3. EthDest(d) = learned[NextHop(d)]
      BY <2>1, <2>2, LookUp
    <2>4. learned[NextHop(d)] \in Macs \cup {NoMac}
      BY <2>1 DEF ArpInv, ArpTypeOK
    <2> QED
      BY <1>2, <2>3, <2>4
  <1> QED
    BY <1>1, <1>2

(* The frame that sendIPv4Tx hands to the device.                          *)
LEMMA FrameSent ==
    ASSUME ArpInv, SendInv, sendIPv4Tx
    PROVE  /\ frame' \in Frames \cup {NoFrame}
           /\ frame' # NoFrame =>
                frame'.mac = IF frame'.dest = BROADCAST THEN BroadcastMac
                                                        ELSE learned[NextHop(frame'.dest)]
  <1>1. dest \in Dests
    BY DEF SendInv
  <1>2. CASE EthDest(dest) = NoMac
    BY <1>2 DEF sendIPv4Tx
  <1>3. CASE EthDest(dest) # NoMac
    <2> DEFINE m == EthDest(dest)
    <2>1. /\ m \in Macs \cup {BroadcastMac}
          /\ m = IF dest = BROADCAST THEN BroadcastMac ELSE learned[NextHop(dest)]
      BY <1>1, <1>3, EthDestIs
    <2>2. frame' = [dest |-> dest, mac |-> m]
      BY <1>3 DEF sendIPv4Tx
    <2> HIDE DEF m
    <2>3. frame'.dest = dest /\ frame'.mac = m /\ frame' \in Frames
      BY <1>1, <2>1, <2>2 DEF Frames
    <2> QED
      BY <2>1, <2>3
  <1> QED
    BY <1>2, <1>3

(* Every step keeps the sender's invariant.                                *)
LEMMA StepSend ==
    ASSUME ArpInv, SendInv, [UdpNext]_udpVars
    PROVE  SendInv'
  <1> DEFINE same == UNCHANGED txVars
  <1>1. same => SendInv'
    BY DEF txVars, SendInv
  <1> HIDE DEF same
  <1>2. CASE UipNext \/ CtlNext
    BY <1>1, <1>2 DEF UipNext, CtlNext, same, UipStart, UipDevice, UipStarted, UipStop,
        UipStopped, UipPeriodic, UipArp, UipUdp, UipDrop, Order, OrderDone
  <1>3. CASE UserNext
    <2>1. CASE Create \/ finalize \/ setBroadcast \/ precv \/ pseek
      BY <1>1, <2>1 DEF same, Create, finalize, setBroadcast, precv, pseek
    <2>2. ASSUME NEW d \in SendTo, Send(d) PROVE SendInv'
      BY <2>2 DEF Send, SendGoto, SendInv
    <2>3. ASSUME NEW b \in {"none", "small", "enough"}, AllocSendBuf(b) PROVE SendInv'
      BY <2>3 DEF AllocSendBuf, SendGoto, SendInv
    <2>4. CASE psendRefused \/ psend \/ Wake
      BY <2>4 DEF psendRefused, psend, Wake, SendGoto, SendInv
    <2>5. CASE sendIPv4Tx
      BY <2>5, FrameSent DEF sendIPv4Tx, SendGoto, SendInv
    <2>6. CASE releaseTxBuf
      BY <2>6 DEF releaseTxBuf, SendGoto, SendInv
    <2> QED
      BY <1>3, <2>1, <2>2, <2>3, <2>4, <2>5, <2>6 DEF UserNext
  <1>4. CASE UNCHANGED udpVars
    BY <1>1, <1>4 DEF udpVars, same
  <1> QED
    BY <1>2, <1>3, <1>4 DEF UdpNext

(* When send returns, it has given back the block that it used: what it    *)
(* still holds are the blocks its loop found too small.                    *)
THEOREM SendReleases == UdpSpec => []SendKeepsSmallOnly
  <1>1. UdpInit => ArpInv /\ SendInv
    BY InitArp DEF UdpInit, SendInv, Dests
  <1>2. ArpInv /\ SendInv /\ [UdpNext]_udpVars => ArpInv' /\ SendInv'
    BY StepArp, StepSend
  <1>3. SendInv => SendKeepsSmallOnly
    BY DEF SendInv, SendKeepsSmallOnly
  <1> QED
    BY <1>1, <1>2, <1>3, PTL DEF UdpSpec

(* A frame carries the hardware address announced last for its next hop.   *)
THEOREM FramesFindTheirHop == UdpSpec => RightNextHop
  <1>1. UdpInit => ArpInv /\ SendInv
    BY InitArp DEF UdpInit, SendInv, Dests
  <1>2. ArpInv /\ SendInv /\ [UdpNext]_udpVars => ArpInv' /\ SendInv'
    BY StepArp, StepSend
  <1>3. ASSUME ArpInv, SendInv, [UdpNext]_udpVars
        PROVE  [frame = NoFrame /\ frame' # NoFrame =>
                    frame'.mac = IF frame'.dest = BROADCAST THEN BroadcastMac
                                 ELSE learned[NextHop(frame'.dest)]]_udpVars
    <2> SUFFICES ASSUME UdpNext, frame = NoFrame, frame' # NoFrame
                 PROVE  frame'.mac = IF frame'.dest = BROADCAST THEN BroadcastMac
                                     ELSE learned[NextHop(frame'.dest)]
      BY <1>3
    <2>1. sendIPv4Tx
      BY DEF UdpNext, UipNext, CtlNext, UserNext, UipStart, UipDevice, UipStarted, UipStop,
          UipStopped, UipPeriodic, UipArp, UipUdp, UipDrop, Order, OrderDone, txVars, Create,
          finalize, setBroadcast, precv, pseek, Send, AllocSendBuf, psendRefused, psend, Wake,
          releaseTxBuf, SendGoto
    <2> QED
      BY <1>3, <2>1, FrameSent
  <1> QED
    BY <1>1, <1>2, <1>3, PTL DEF UdpSpec, RightNextHop

(* The types of all variables.                                             *)
THEOREM UdpTypeCorrect == UdpSpec => []UdpTypeOK
  <1>1. UdpInit => ArpInv /\ OrderInv /\ ReadInv /\ SendInv
    BY InitArp, InitRead DEF UdpInit, OrderInv, SendInv, Dests, isRun
  <1>2. ArpInv /\ OrderInv /\ ReadInv /\ SendInv /\ [UdpNext]_udpVars
            => ArpInv' /\ OrderInv' /\ ReadInv' /\ SendInv'
    BY StepArp, StepOrder, StepRead, StepSend
  <1>3. ArpInv /\ OrderInv /\ ReadInv /\ SendInv => UdpTypeOK
    <2>1. ReadInv => {used, broadcast, reading, cleared, skipped} \subseteq BOOLEAN
      BY DEF ReadInv
    <2> QED
      BY <2>1 DEF ArpInv, OrderInv, ReadInv, SendInv, UdpTypeOK, Datagram, Frames
  <1> QED
    BY <1>1, <1>2, <1>3, PTL DEF UdpSpec

=============================================================================
