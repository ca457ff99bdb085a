-------------------------- MODULE TcpTables_proofs --------------------------
(***************************************************************************)
(* What TcpTables keeps for every size of the tables and of the SYN queue. *)
(*                                                                         *)
(* OldestFirst and the bound on the ages follow from AgeInv: the age of a  *)
(* queued SYN is its distance behind wp.  TakenOpens needs the socket of a *)
(* call of listen to stay closed (ListenClosed), and that each socket has  *)
(* one user (SlotOwnership), which is so until two tasks have been given   *)
(* one slot of the socket table.                                           *)
(***************************************************************************)
EXTENDS TcpTables, TLAPS

AgeOf(w, k) == IF k < w THEN w - 1 - k ELSE NUMBER_OF_Q + w - 1 - k

AgeInv ==
    \A l \in LSlots : \A k \in QSlots :
        item[l][k] # NoPeer => age[l][k] = AgeOf(wp[l], k)

(* wp + i modulo the size of the queue, as a step of the ring *)
LEMMA RingStep ==
    ASSUME NEW w \in QSlots, NEW i \in 1 .. NUMBER_OF_Q
    PROVE  (w + i) % NUMBER_OF_Q =
                IF w + i < NUMBER_OF_Q THEN w + i ELSE w + i - NUMBER_OF_Q
  BY TablesAssumption, SMT DEF QSlots

(* htons maps ports to ports *)
LEMMA HtonsType == \A n \in Ports : htons(n) \in Ports
<1> SUFFICES ASSUME NEW n \in Ports PROVE htons(n) \in Ports
  OBVIOUS
<1> DEFINE q == n \div Byte
           r == n % Byte
<1>1. n \in Nat /\ Byte \in Nat /\ Byte > 0 /\ n < Byte * Byte
  BY TablesAssumption, SMT DEF Ports
<1>2. q \in Nat /\ r \in 0 .. Byte - 1 /\ n = Byte * q + r
  BY <1>1, SMT
<1>3. q <= Byte - 1
  BY <1>1, <1>2, SMT
<1>4. r * Byte + q \in 0 .. Byte * Byte - 1
  <2> HIDE DEF q, r
  <2>1. r * Byte <= (Byte - 1) * Byte
    BY <1>1, <1>2, SMT
  <2>2. (Byte - 1) * Byte = Byte * Byte - Byte
    BY <1>1, SMT
  <2>3. r * Byte \in Nat /\ Byte * Byte \in Nat
    BY <1>1, <1>2, SMT
  <2> QED
    BY <2>1, <2>2, <2>3, <1>1, <1>2, <1>3, SMT
<1> QED
  BY <1>4 DEF htons, Ports

-----------------------------------------------------------------------------
(* Types and ages. *)

TInv == TablesTypeOK /\ AgeInv

(* All tables and queues are empty at first. *)
LEMMA TInit == TablesInit => TInv
<1> SUFFICES ASSUME TablesInit PROVE TInv
  OBVIOUS
<1>1. 0 \in QSlots /\ 0 \in Ports /\ 0 \in 0 .. PortMod - 1
  BY TablesAssumption, HtonsType, SMT DEF QSlots, Ports
<1>2. TablesTypeOK
  BY <1>1 DEF TablesInit, TablesTypeOK, Socket, NoSocket, Task, None
<1>3. AgeInv
  BY DEF TablesInit, AgeInv
<1> QED
  BY <1>2, <1>3 DEF TInv

(* The queues are left alone. *)
LEMMA QueuesKept ==
    ASSUME AgeInv, UNCHANGED <<item, wp, age>> PROVE AgeInv'
  BY DEF AgeInv

(* add moves wp one slot on: the new SYN is the youngest and every other   *)
(* one is one step further behind.                                         *)
LEMMA AddAge ==
    ASSUME TInv, NEW l \in LSlots, NEW peer \in Peers, add(l, peer)
    PROVE  /\ item' \in [LSlots -> [QSlots -> Peers \cup {NoPeer}]]
           /\ wp' \in [LSlots -> QSlots] /\ age' \in [LSlots -> [QSlots -> QSlots]]
           /\ AgeInv'
<1> DEFINE w == wp[l]
           v == wp'[l]
<1>1. w \in QSlots /\ NUMBER_OF_Q \in Nat /\ NUMBER_OF_Q > 0
  BY TablesAssumption DEF TInv, TablesTypeOK
<1>2. wp' = [wp EXCEPT ![l] = (w + 1) % NUMBER_OF_Q]
  BY DEF add
<1>3. v = IF w + 1 < NUMBER_OF_Q THEN w + 1 ELSE 0
  <2>1. 1 \in 1 .. NUMBER_OF_Q
    BY <1>1
  <2>2. v = (w + 1) % NUMBER_OF_Q
    BY <1>2 DEF TInv, TablesTypeOK
  <2>3. v = IF w + 1 < NUMBER_OF_Q THEN w + 1 ELSE w + 1 - NUMBER_OF_Q
    BY <1>1, <2>1, <2>2, RingStep
  <2> QED
    BY <1>1, <2>3, SMT DEF QSlots
<1>4. v \in QSlots
  BY <1>1, <1>3, SMT DEF QSlots
<1>5. wp' \in [LSlots -> QSlots]
  BY <1>2, <1>4 DEF TInv, TablesTypeOK
<1>6. item' = [item EXCEPT ![l][w] = peer] /\ item[l][w] = NoPeer
  BY DEF add
<1>7. item' \in [LSlots -> [QSlots -> Peers \cup {NoPeer}]]
  BY <1>1, <1>6 DEF TInv, TablesTypeOK
<1>8. age' = [age EXCEPT ![l] = [k \in QSlots |->
                IF k = w \/ item[l][k] = NoPeer THEN 0 ELSE age[l][k] + 1]]
  BY DEF add, Older, TInv, TablesTypeOK
<1>9. \A k \in QSlots : item'[l][k] # NoPeer => age'[l][k] = AgeOf(v, k)
  <2> SUFFICES ASSUME NEW k \in QSlots, item'[l][k] # NoPeer
               PROVE  age'[l][k] = AgeOf(v, k)
    OBVIOUS
  <2>1. age'[l][k] = IF k = w \/ item[l][k] = NoPeer THEN 0 ELSE age[l][k] + 1
    BY <1>8 DEF TInv, TablesTypeOK
  <2>2. CASE k = w
    BY <2>1, <2>2, <1>1, <1>3, SMT DEF AgeOf, QSlots
  <2>3. CASE k # w
    <3>1. item'[l][k] = item[l][k]
      BY <1>1, <1>6, <2>3 DEF TInv, TablesTypeOK
    <3>2. age[l][k] = AgeOf(w, k)
      BY <3>1 DEF TInv, AgeInv
    <3>3. age'[l][k] = AgeOf(w, k) + 1
      BY <2>1, <2>3, <3>1, <3>2
    <3> QED
      BY <3>3, <2>3, <1>1, <1>3, SMT DEF AgeOf, QSlots
  <2> QED
    BY <2>2, <2>3
<1>10. \A k \in QSlots : age'[l][k] \in QSlots
  <2> SUFFICES ASSUME NEW k \in QSlots PROVE age'[l][k] \in QSlots
    OBVIOUS
  <2>1. age'[l][k] = IF k = w \/ item[l][k] = NoPeer THEN 0 ELSE age[l][k] + 1
    BY <1>8 DEF TInv, TablesTypeOK
  <2>2. CASE k = w \/ item[l][k] = NoPeer
    BY <2>1, <2>2, <1>1, SMT DEF QSlots
  <2>3. CASE k # w /\ item[l][k] # NoPeer
    <3>1. item'[l][k] # NoPeer
      BY <1>1, <1>6, <2>3 DEF TInv, TablesTypeOK
    <3> QED
      BY <3>1, <1>9, <1>1, <1>4, SMT DEF AgeOf, QSlots
  <2> QED
    BY <2>2, <2>3
<1>11. age' \in [LSlots -> [QSlots -> QSlots]]
  <2>1. age'[l] \in [QSlots -> QSlots]
    BY <1>8, <1>10 DEF TInv, TablesTypeOK
  <2> QED
    BY <2>1, <1>8 DEF TInv, TablesTypeOK
<1>12. AgeInv'
  <2> SUFFICES ASSUME NEW m \in LSlots, NEW k \in QSlots, item'[m][k] # NoPeer
               PROVE  age'[m][k] = AgeOf(wp'[m], k)
    BY DEF AgeInv, AgeOf
  <2>1. CASE m = l
    BY <2>1, <1>9
  <2>2. CASE m # l
    <3>1. item'[m] = item[m] /\ age'[m] = age[m] /\ wp'[m] = wp[m]
      BY <2>2, <1>2, <1>6, <1>8 DEF TInv, TablesTypeOK
    <3> QED
      BY <3>1 DEF TInv, AgeInv
  <2> QED
    BY <2>1, <2>2
<1> QED
  BY <1>5, <1>7, <1>11, <1>12

(* Closing a socket changes no type. *)
LEMMA SockClosed ==
    ASSUME sock \in [Slots -> Socket], NEW i \in Slots,
           sock' = [sock EXCEPT ![i].open = FALSE]
    PROVE  sock' \in [Slots -> Socket]
  BY DEF Socket

(* A number that getNewPortNumber tries is a port. *)
LEMMA NewPort == \A c \in 0 .. PortMod - 1 : c + PortBase \in Ports
<1> DEFINE top == Byte * Byte
<1>1. top \in Int /\ PortBase \in Nat /\ PortMod \in Nat /\ PortBase + PortMod <= top
  BY TablesAssumption, SMT
<1>2. Ports = 0 .. top - 1
  BY DEF Ports
<1> HIDE DEF top
<1> QED
  BY <1>1, <1>2, SMT

(* A step of a task keeps the types and the ages. *)
LEMMA AppKeepsTInv == ASSUME TInv, NEW t \in Tasks, AppNext(t) PROVE TInv'
<1> USE DEF TInv, TablesTypeOK, Task, Socket, None
<1>1. CASE CreateScan(t)
  <2>1. TablesTypeOK'
    <3>1. PICK i \in Slots :
            task' = [task EXCEPT ![t].pc = "making", ![t].at = i]
      BY <1>1 DEF CreateScan
    <3>2. clash' \in BOOLEAN
      BY <1>1 DEF CreateScan
    <3> QED
      BY <1>1, <3>1, <3>2 DEF CreateScan, sockVars, lisVars, Slots
  <2> QED
    BY <1>1, <2>1, QueuesKept DEF CreateScan, lisVars
<1>2. CASE CreateMark(t)
  <2>1. task[t].at \in Slots
    BY <1>2 DEF CreateMark
  <2>2. NoSocket \in Socket
    BY TablesAssumption DEF NoSocket, Ports
  <2> QED
    BY <1>2, <2>1, <2>2, QueuesKept DEF CreateMark, lisVars
<1>3. CASE ListenTake(t)
  <2> DEFINE i == task[t].at
             l == task[t].lis
  <2>1. i \in Slots /\ l \in LSlots
    BY <1>3 DEF ListenTake
  <2>2. PICK k \in QSlots :
            /\ item[l][k] # NoPeer
            /\ sock' = IF sock[i].open THEN sock
                       ELSE [sock EXCEPT ![i] = [open |-> TRUE, lport |-> lport[l],
                                                 peer |-> item[l][k], active |-> FALSE]]
            /\ item' = [item EXCEPT ![l][k] = NoPeer]
            /\ age' = [age EXCEPT ![l][k] = 0]
    BY <1>3 DEF ListenTake, IsLastIndex, remove
  <2>3. sock' \in [Slots -> Socket]
    BY <2>1, <2>2
  <2>4. item' \in [LSlots -> [QSlots -> Peers \cup {NoPeer}]]
    BY <2>1, <2>2
  <2>5. age' \in [LSlots -> [QSlots -> QSlots]]
    <3>1. 0 \in QSlots
      BY TablesAssumption DEF QSlots
    <3> QED
      BY <2>1, <2>2, <3>1
  <2>6. TablesTypeOK'
    BY <1>3, <2>3, <2>4, <2>5 DEF ListenTake, Returned
  <2>7. AgeInv'
    <3> SUFFICES ASSUME NEW m \in LSlots, NEW j \in QSlots, item'[m][j] # NoPeer
                 PROVE  age'[m][j] = AgeOf(wp'[m], j)
      BY DEF AgeInv, AgeOf
    <3>1. wp' = wp
      BY <1>3 DEF ListenTake
    <3>2. item'[m][j] = item[m][j] /\ age'[m][j] = age[m][j]
      BY <2>1, <2>2
    <3> QED
      BY <3>1, <3>2 DEF AgeInv
  <2> QED
    BY <2>6, <2>7
<1>4. CASE ListenTimeout(t)
  BY <1>4, QueuesKept DEF ListenTimeout, Returned, sockVars, lisVars
<1>5. CASE \E i \in Slots : Finalize(t, i)
  BY <1>5, QueuesKept DEF Finalize, lisVars
<1>6. CASE \E i \in Slots : AppClose(t, i)
  <2>1. PICK i \in Slots : AppClose(t, i)
    BY <1>6
  <2>2. sock' \in [Slots -> Socket]
    BY <2>1, SockClosed DEF AppClose
  <2> QED
    BY <2>1, <2>2, QueuesKept DEF AppClose, lisVars
<1>7. CASE \E i \in Slots, peer \in Peers : Connect(t, i, peer)
  <2>1. PICK i \in Slots, peer \in Peers : Connect(t, i, peer)
    BY <1>7
  <2>2. counter' \in 0 .. PortMod - 1
    BY <2>1, TablesAssumption, SMT DEF Connect
  <2>3. counter' + PortBase \in Ports
    BY <2>2, NewPort
  <2>4. htons(counter' + PortBase) \in Ports
    BY <2>3, HtonsType
  <2>5. sock' \in [Slots -> Socket]
    BY <2>1, <2>4 DEF Connect
  <2>6. AgeInv'
    BY <2>1, QueuesKept DEF Connect, lisVars
  <2> QED
    BY <2>1, <2>2, <2>5, <2>6 DEF Connect, lisVars
<1>8. CASE \E i \in Slots, l \in LSlots : Listen(t, i, l)
  <2>1. PICK i \in Slots, l \in LSlots : Listen(t, i, l)
    BY <1>8
  <2>2. TablesTypeOK'
    BY <2>1 DEF Listen, sockVars, lisVars, Slots, LSlots
  <2> QED
    BY <2>1, <2>2, QueuesKept DEF Listen, lisVars
<1> QED
  BY <1>1, <1>2, <1>3, <1>4, <1>5, <1>6, <1>7, <1>8 DEF AppNext

(* Every step keeps the types and the ages. *)
LEMMA TStep == TInv /\ [TablesNext]_tvars => TInv'
<1> SUFFICES ASSUME TInv, [TablesNext]_tvars PROVE TInv'
  OBVIOUS
<1> USE DEF TInv, TablesTypeOK
<1>1. CASE \E t \in Tasks : AppNext(t)
  BY <1>1, AppKeepsTInv
<1>2. CASE \E p \in ListenPorts : CreateListener(p)
  <2>1. PICK p \in ListenPorts : CreateListener(p)
    BY <1>2
  <2>2. htons(p) \in Ports /\ 0 \in QSlots
    BY TablesAssumption, HtonsType DEF QSlots
  <2>3. PICK l \in LSlots :
            /\ lused' = [lused EXCEPT ![l] = TRUE]
            /\ lport' = [lport EXCEPT ![l] = htons(p)]
            /\ wp' = [wp EXCEPT ![l] = 0]
            /\ item' = [item EXCEPT ![l] = [k \in QSlots |-> NoPeer]]
            /\ age' = [age EXCEPT ![l] = [k \in QSlots |-> 0]]
    BY <2>1 DEF CreateListener
  <2>4. TablesTypeOK'
    BY <2>1, <2>2, <2>3 DEF CreateListener, sockVars
  <2>5. AgeInv'
    BY <2>3 DEF AgeInv, AgeOf
  <2> QED
    BY <2>4, <2>5
<1>3. CASE \E l \in LSlots : FinalizeListener(l)
  BY <1>3, QueuesKept DEF FinalizeListener, sockVars
<1>4. CASE \E p \in Ports, peer \in Peers : RxSyn(p, peer)
  <2>1. PICK p \in Ports, peer \in Peers : RxSyn(p, peer)
    BY <1>4
  <2>2. PICK l \in LSlots : add(l, peer)
    BY <2>1 DEF RxSyn, getListenerByPeerPort
  <2> QED
    BY <2>1, <2>2, AddAge DEF RxSyn, sockVars
<1>5. CASE \E p \in Ports, peer \in Peers : RxEnd(p, peer)
  <2>1. PICK i \in Slots : sock' = [sock EXCEPT ![i].open = FALSE]
    BY <1>5 DEF RxEnd, getMatchTcpSocket
  <2>2. sock' \in [Slots -> Socket]
    BY <2>1, SockClosed
  <2> QED
    BY <1>5, <2>2, QueuesKept DEF RxEnd, lisVars
<1>6. CASE \E i \in Slots : GiveUp(i)
  <2>1. PICK i \in Slots : GiveUp(i)
    BY <1>6
  <2>2. sock' \in [Slots -> Socket]
    BY <2>1, SockClosed DEF GiveUp
  <2> QED
    BY <2>1, <2>2, QueuesKept DEF GiveUp, lisVars
<1>7. CASE UNCHANGED tvars
  BY <1>7, QueuesKept DEF tvars
<1> QED
  BY <1>1, <1>2, <1>3, <1>4, <1>5, <1>6, <1>7 DEF TablesNext

(* Every behaviour of the tables is type-correct; in particular the age of *)
(* a queued SYN stays below the size of the queue.                         *)
THEOREM TablesTypeCorrect == TablesSpec => []TablesTypeOK
<1>1. TInv => TablesTypeOK
  BY DEF TInv
<1> QED
  BY <1>1, TInit, TStep, PTL DEF TablesSpec

(* getLastIndex returns the oldest SYN while the slot at wp is free: the   *)
(* slots before it in the scan are free, and those after it are younger.   *)
THEOREM TakenInOrder == TablesSpec => []OldestFirst
<1>1. TInv => OldestFirst
  <2> SUFFICES ASSUME TInv, NEW l \in LSlots, NEW k \in QSlots, NEW m \in QSlots,
                      item[l][wp[l]] = NoPeer, IsLastIndex(l, k), item[l][m] # NoPeer
               PROVE  age[l][m] <= age[l][k]
    BY DEF OldestFirst
  <2> DEFINE w == wp[l]
  <2>1. w \in QSlots /\ NUMBER_OF_Q \in Nat
    BY TablesAssumption DEF TInv, TablesTypeOK
  <2>2. PICK i \in 1 .. NUMBER_OF_Q :
            /\ k = (w + i) % NUMBER_OF_Q
            /\ item[l][k] # NoPeer
            /\ \A j \in 1 .. i - 1 : item[l][(w + j) % NUMBER_OF_Q] = NoPeer
    BY DEF IsLastIndex
  <2>3. k = IF w + i < NUMBER_OF_Q THEN w + i ELSE w + i - NUMBER_OF_Q
    BY <2>1, <2>2, RingStep
  <2> DEFINE j == IF m > w THEN m - w ELSE m - w + NUMBER_OF_Q
  <2>4. m # w /\ j \in 1 .. NUMBER_OF_Q
    BY <2>1, SMT DEF QSlots
  <2>5. (w + j) % NUMBER_OF_Q = m
    <3>1. (w + j) % NUMBER_OF_Q = IF w + j < NUMBER_OF_Q THEN w + j ELSE w + j - NUMBER_OF_Q
      BY <2>1, <2>4, RingStep
    <3> QED
      BY <3>1, <2>1, <2>4, SMT DEF QSlots
  <2>6. ~(j \in 1 .. i - 1)
    BY <2>2, <2>5
  <2>7. j >= i
    BY <2>6, <2>4, <2>2, SMT
  <2>8. age[l][m] = AgeOf(w, m) /\ age[l][k] = AgeOf(w, k)
    BY <2>2 DEF TInv, AgeInv
  <2>9. k # w
    BY <2>2
  <2> QED
    BY <2>1, <2>3, <2>4, <2>7, <2>8, <2>9, SMT DEF AgeOf, QSlots
<1> QED
  BY <1>1, TInit, TStep, PTL DEF TablesSpec

-----------------------------------------------------------------------------
(* Who uses a socket. *)

(* A used slot of the socket table belongs to one task, and no other task  *)
(* is about to use it.                                                     *)
SlotOwnership ==
    /\ \A i \in Slots : used[i] <=> \E t \in Tasks : i \in task[t].held
    /\ \A t, u \in Tasks : t # u =>
        /\ task[t].held \cap task[u].held = {}
        /\ task[t].pc = "making" => task[t].at \notin task[u].held
        /\ task[t].pc = "making" /\ task[u].pc = "making" => task[t].at # task[u].at

(* The socket of a call of listen is the caller's, and closed. *)
ListenClosed ==
    \A t \in Tasks : task[t].pc = "listen" =>
        task[t].at \in task[t].held /\ ~sock[task[t].at].open

SInv == TInv /\ (~clash => SlotOwnership /\ ListenClosed)

(* At first no slot is used and no call is under way. *)
LEMMA SInit == TablesInit => SInv
  BY TInit DEF TablesInit, SInv, SlotOwnership, ListenClosed

(* The tasks and the flags are left alone, and no socket is opened. *)
LEMMA OnlyCloses ==
    ASSUME SlotOwnership, ListenClosed, TablesTypeOK, UNCHANGED <<used, task>>,
           \A i \in Slots : sock'[i].open => sock[i].open
    PROVE  SlotOwnership' /\ ListenClosed'
<1>1. SlotOwnership'
  BY DEF SlotOwnership
<1>2. \A t \in Tasks : task[t].pc = "listen" => task[t].at \in Slots
  BY DEF TablesTypeOK, Task, None
<1>3. ListenClosed'
  BY <1>2 DEF ListenClosed
<1> QED
  BY <1>1, <1>3

(* A clash is not forgotten. *)
LEMMA ClashStays == TInv /\ clash /\ [TablesNext]_tvars => clash'
  BY ZenonT(60) DEF TablesNext, AppNext, CreateScan, CreateMark, ListenTake, ListenTimeout,
     Finalize, AppClose, Connect, Listen, CreateListener, FinalizeListener, RxSyn, RxEnd,
     GiveUp, tvars

(* A step of a task keeps the owners, unless it chooses a slot that        *)
(* another task has chosen.                                                *)
LEMMA AppKeepsSInv ==
    ASSUME TInv, SlotOwnership, ListenClosed,
           NEW t \in Tasks, AppNext(t), ~clash'
    PROVE  SlotOwnership' /\ ListenClosed'
<1> USE DEF TInv, TablesTypeOK, Task
<1>0. \A u \in Tasks : task[u].pc # "run" => task[u].at \in Slots
  OBVIOUS
<1>1. CASE CreateScan(t)
  <2>1. PICK i \in Slots :
            /\ ~used[i]
            /\ task' = [task EXCEPT ![t].pc = "making", ![t].at = i]
            /\ clash' = IF \E u \in Tasks : task[u].pc = "making" /\ task[u].at = i
                          THEN TRUE ELSE clash
    BY <1>1 DEF CreateScan
  <2>0. \A u \in Tasks : task[u].pc = "making" => task[u].at # i
    BY <2>1
  <2>2. used' = used /\ sock' = sock /\ task[t].pc = "run"
    BY <1>1 DEF CreateScan, sockVars
  <2>3. \A u \in Tasks : task'[u].held = task[u].held /\ i \notin task[u].held
    BY <2>1 DEF SlotOwnership
  <2>4. \A u \in Tasks : u # t => task'[u] = task[u]
    BY <2>1
  <2>5. task'[t].pc = "making" /\ task'[t].at = i
    BY <2>1
  <2>6. SlotOwnership'
    <3> HIDE DEF TInv, TablesTypeOK, Task
    <3>1. \A c \in Slots : used'[c] <=> \E u \in Tasks : c \in task'[u].held
      BY <2>2, <2>3 DEF SlotOwnership
    <3> SUFFICES ASSUME NEW u \in Tasks, NEW v \in Tasks, u # v
                 PROVE  /\ task'[u].held \cap task'[v].held = {}
                        /\ task'[u].pc = "making" => task'[u].at \notin task'[v].held
                        /\ task'[u].pc = "making" /\ task'[v].pc = "making"
                             => task'[u].at # task'[v].at
      BY <3>1 DEF SlotOwnership
    <3>2. /\ task[u].held \cap task[v].held = {}
          /\ task[u].pc = "making" => task[u].at \notin task[v].held
          /\ task[v].pc = "making" => task[v].at \notin task[u].held
          /\ task[u].pc = "making" /\ task[v].pc = "making" => task[u].at # task[v].at
      BY DEF SlotOwnership
    <3>3. CASE u = t
      BY <3>2, <3>3, <2>0, <2>2, <2>3, <2>4, <2>5
    <3>4. CASE v = t
      BY <3>2, <3>4, <2>0, <2>2, <2>3, <2>4, <2>5
    <3>5. CASE u # t /\ v # t
      BY <3>2, <3>5, <2>2, <2>3, <2>4, <2>5
    <3> QED
      BY <3>3, <3>4, <3>5
  <2>7. ListenClosed'
    BY <2>2, <2>3, <2>4, <2>5 DEF ListenClosed
  <2> QED
    BY <2>6, <2>7
<1>2. CASE CreateMark(t)
  <2>1. /\ task[t].pc = "making"
        /\ sock' = [sock EXCEPT ![task[t].at] = NoSocket]
        /\ used' = [used EXCEPT ![task[t].at] = TRUE]
    BY <1>2 DEF CreateMark
  <2>2. \A u \in Tasks : u # t => task'[u] = task[u]
    BY <1>2 DEF CreateMark
  <2>3. task'[t].pc = "run" /\ task'[t].held = task[t].held \cup {task[t].at}
    BY <1>2 DEF CreateMark
  <2>4. task[t].at \in Slots
    BY <2>1, <1>0
  <2>5. \A i \in Slots : used'[i] <=> used[i] \/ i = task[t].at
    BY <2>1, <2>4
  <2>6. \A i \in Slots : used'[i] <=> \E u \in Tasks : i \in task'[u].held
    <3> SUFFICES ASSUME NEW i \in Slots
                 PROVE  used'[i] <=> \E u \in Tasks : i \in task'[u].held
      OBVIOUS
    <3>1. used[i] <=> \E u \in Tasks : i \in task[u].held
      BY DEF SlotOwnership
    <3>2. \A u \in Tasks : i \in task'[u].held <=>
                i \in task[u].held \/ (u = t /\ i = task[t].at)
      BY <2>2, <2>3
    <3> QED
      BY <3>1, <3>2, <2>5
  <2>7. SlotOwnership'
    <3> HIDE DEF TInv, TablesTypeOK, Task
    <3>1. \A c \in Slots : used'[c] <=> \E u \in Tasks : c \in task'[u].held
      BY <2>6
    <3> SUFFICES ASSUME NEW u \in Tasks, NEW v \in Tasks, u # v
                 PROVE  /\ task'[u].held \cap task'[v].held = {}
                        /\ task'[u].pc = "making" => task'[u].at \notin task'[v].held
                        /\ task'[u].pc = "making" /\ task'[v].pc = "making"
                             => task'[u].at # task'[v].at
      BY <3>1 DEF SlotOwnership
    <3>2. /\ task[u].held \cap task[v].held = {}
          /\ task[u].pc = "making" => task[u].at \notin task[v].held
          /\ task[v].pc = "making" => task[v].at \notin task[u].held
          /\ task[u].pc = "making" /\ task[v].pc = "making" => task[u].at # task[v].at
      BY DEF SlotOwnership
    <3>3. CASE u = t
      BY <3>2, <3>3, <2>1, <2>2, <2>3
    <3>4. CASE v = t
      BY <3>2, <3>4, <2>1, <2>2, <2>3
    <3>5. CASE u # t /\ v # t
      BY <3>2, <3>5, <2>1, <2>2, <2>3
    <3> QED
      BY <3>3, <3>4, <3>5
  <2>8. ListenClosed'
    <3>1. \A u \in Tasks : task'[u].pc = "listen" => u # t /\ task'[u] = task[u]
      BY <2>2, <2>3
    <3>2. \A i \in Slots : sock'[i] = sock[i] \/ ~sock'[i].open
      BY <2>1, <2>4 DEF NoSocket
    <3> QED
      BY <3>1, <3>2, <1>0 DEF ListenClosed
  <2> QED
    BY <2>7, <2>8
<1>3. CASE ListenTake(t) \/ ListenTimeout(t)
  <2>1. /\ task[t].pc = "listen" /\ used' = used /\ task' = Returned(t)
    BY <1>3 DEF ListenTake, ListenTimeout, sockVars
  <2>2. \A u \in Tasks : u # t => task'[u] = task[u]
    BY <2>1 DEF Returned
  <2>3. task'[t].pc = "run" /\ task'[t].held = task[t].held
    BY <2>1 DEF Returned
  <2>4. SlotOwnership'
    <3> HIDE DEF TInv, TablesTypeOK, Task
    <3>1. \A c \in Slots : used'[c] <=> \E u \in Tasks : c \in task'[u].held
      BY <2>1, <2>2, <2>3 DEF SlotOwnership
    <3> SUFFICES ASSUME NEW u \in Tasks, NEW v \in Tasks, u # v
                 PROVE  /\ task'[u].held \cap task'[v].held = {}
                        /\ task'[u].pc = "making" => task'[u].at \notin task'[v].held
                        /\ task'[u].pc = "making" /\ task'[v].pc = "making"
                             => task'[u].at # task'[v].at
      BY <3>1 DEF SlotOwnership
    <3>2. /\ task[u].held \cap task[v].held = {}
          /\ task[u].pc = "making" => task[u].at \notin task[v].held
          /\ task[v].pc = "making" => task[v].at \notin task[u].held
          /\ task[u].pc = "making" /\ task[v].pc = "making" => task[u].at # task[v].at
      BY DEF SlotOwnership
    <3>3. CASE u = t
      BY <3>2, <3>3, <2>1, <2>2, <2>3
    <3>4. CASE v = t
      BY <3>2, <3>4, <2>1, <2>2, <2>3
    <3>5. CASE u # t /\ v # t
      BY <3>2, <3>5, <2>1, <2>2, <2>3
    <3> QED
      BY <3>3, <3>4, <3>5
  <2>5. \A i \in Slots : i # task[t].at => sock'[i] = sock[i]
    BY <1>3, <2>1, <1>0 DEF ListenTake, ListenTimeout, sockVars
  <2>6. \A u \in Tasks : u # t /\ task[u].pc = "listen" => task[u].at # task[t].at
    BY <2>1 DEF SlotOwnership, ListenClosed
  <2>7. ListenClosed'
    BY <2>2, <2>3, <2>5, <2>6, <1>0 DEF ListenClosed
  <2> QED
    BY <2>4, <2>7
<1>4. CASE \E i \in Slots : Finalize(t, i)
  <2>1. PICK i \in Slots : Finalize(t, i)
    BY <1>4
  <2>2. /\ task[t].pc = "run" /\ i \in task[t].held /\ sock' = sock
        /\ used' = [used EXCEPT ![i] = FALSE]
    BY <2>1 DEF Finalize
  <2>3. \A u \in Tasks : u # t => task'[u] = task[u]
    BY <2>1 DEF Finalize
  <2>4. task'[t].pc = "run" /\ task'[t].held = task[t].held \ {i}
    BY <2>1, <2>2 DEF Finalize
  <2>5. \A u \in Tasks : u # t => i \notin task[u].held
    BY <2>2 DEF SlotOwnership
  <2>6. \A j \in Slots : used'[j] <=> \E u \in Tasks : j \in task'[u].held
    <3> SUFFICES ASSUME NEW j \in Slots
                 PROVE  used'[j] <=> \E u \in Tasks : j \in task'[u].held
      OBVIOUS
    <3>1. used[j] <=> \E u \in Tasks : j \in task[u].held
      BY DEF SlotOwnership
    <3>2. \A u \in Tasks : j \in task'[u].held <=> j \in task[u].held /\ j # i
      BY <2>3, <2>4, <2>5
    <3>3. used'[j] <=> used[j] /\ j # i
      BY <2>2
    <3> QED
      BY <3>1, <3>2, <3>3
  <2>7. SlotOwnership'
    BY <2>3, <2>4, <2>6, SMTT(30) DEF SlotOwnership
  <2>8. ListenClosed'
    BY <2>2, <2>3, <2>4 DEF ListenClosed
  <2> QED
    BY <2>7, <2>8
<1>5. CASE \E i \in Slots : AppClose(t, i)
  <2>1. \A i \in Slots : sock'[i].open => sock[i].open
    BY <1>5 DEF AppClose, Socket
  <2> QED
    BY <1>5, <2>1, OnlyCloses DEF AppClose
<1>6. CASE \E i \in Slots, peer \in Peers : Connect(t, i, peer)
  <2>1. PICK i \in Slots, peer \in Peers : Connect(t, i, peer)
    BY <1>6
  <2>2. /\ task[t].pc = "run" /\ i \in task[t].held
        /\ used' = used /\ task' = task
    BY <2>1 DEF Connect
  <2>3. \A j \in Slots : j # i => sock'[j] = sock[j]
    BY <2>1 DEF Connect
  <2>4. \A u \in Tasks : task[u].pc = "listen" => task[u].at # i
    BY <2>2 DEF SlotOwnership, ListenClosed
  <2>5. SlotOwnership'
    BY <2>2 DEF SlotOwnership
  <2>6. ListenClosed'
    BY <2>2, <2>3, <2>4, <1>0 DEF ListenClosed
  <2> QED
    BY <2>5, <2>6
<1>7. CASE \E i \in Slots, l \in LSlots : Listen(t, i, l)
  <2>1. PICK i \in Slots, l \in LSlots : Listen(t, i, l)
    BY <1>7
  <2>2. /\ task[t].pc = "run" /\ i \in task[t].held /\ ~sock[i].open
        /\ used' = used /\ sock' = sock
    BY <2>1 DEF Listen, sockVars
  <2>3. \A u \in Tasks : u # t => task'[u] = task[u]
    BY <2>1 DEF Listen
  <2>4. task'[t].pc = "listen" /\ task'[t].at = i /\ task'[t].held = task[t].held
    BY <2>1 DEF Listen
  <2>5. SlotOwnership'
    <3> HIDE DEF TInv, TablesTypeOK, Task
    <3>1. \A c \in Slots : used'[c] <=> \E u \in Tasks : c \in task'[u].held
      BY <2>2, <2>3, <2>4 DEF SlotOwnership
    <3> SUFFICES ASSUME NEW u \in Tasks, NEW v \in Tasks, u # v
                 PROVE  /\ task'[u].held \cap task'[v].held = {}
                        /\ task'[u].pc = "making" => task'[u].at \notin task'[v].held
                        /\ task'[u].pc = "making" /\ task'[v].pc = "making"
                             => task'[u].at # task'[v].at
      BY <3>1 DEF SlotOwnership
    <3>2. /\ task[u].held \cap task[v].held = {}
          /\ task[u].pc = "making" => task[u].at \notin task[v].held
          /\ task[v].pc = "making" => task[v].at \notin task[u].held
          /\ task[u].pc = "making" /\ task[v].pc = "making" => task[u].at # task[v].at
      BY DEF SlotOwnership
    <3>3. CASE u = t
      BY <3>2, <3>3, <2>2, <2>3, <2>4
    <3>4. CASE v = t
      BY <3>2, <3>4, <2>2, <2>3, <2>4
    <3>5. CASE u # t /\ v # t
      BY <3>2, <3>5, <2>2, <2>3, <2>4
    <3> QED
      BY <3>3, <3>4, <3>5
  <2>6. ListenClosed'
    BY <2>2, <2>3, <2>4 DEF ListenClosed
  <2> QED
    BY <2>5, <2>6
<1> QED
  BY <1>1, <1>2, <1>3, <1>4, <1>5, <1>6, <1>7 DEF AppNext

(* Every step keeps the owners, as long as there is no clash. *)
LEMMA SStep == SInv /\ [TablesNext]_tvars => SInv'
<1> SUFFICES ASSUME SInv, [TablesNext]_tvars, ~clash'
             PROVE  SlotOwnership' /\ ListenClosed'
  BY TStep DEF SInv
<1>0. TInv /\ TablesTypeOK /\ SlotOwnership /\ ListenClosed
  BY ClashStays DEF SInv, TInv
<1>1. CASE \E t \in Tasks : AppNext(t)
  BY <1>0, <1>1, AppKeepsSInv
<1>2. CASE UNCHANGED <<used, sock, task>>
  BY <1>0, <1>2, OnlyCloses
<1>3. CASE \E i \in Slots : used' = used /\ task' = task /\ sock' = [sock EXCEPT ![i].open = FALSE]
  <2>1. \A i \in Slots : sock'[i].open => sock[i].open
    BY <1>3, <1>0 DEF TablesTypeOK, Socket
  <2> QED
    BY <1>0, <1>3, <2>1, OnlyCloses
<1>4. CASE TablesNext /\ ~(\E t \in Tasks : AppNext(t))
  <2>1. CASE \E p \in ListenPorts : CreateListener(p)
    BY <2>1, <1>2 DEF CreateListener, sockVars
  <2>2. CASE \E l \in LSlots : FinalizeListener(l)
    BY <2>2, <1>2 DEF FinalizeListener, sockVars
  <2>3. CASE \E p \in Ports, peer \in Peers : RxSyn(p, peer)
    BY <2>3, <1>2 DEF RxSyn, sockVars
  <2>4. CASE \E p \in Ports, peer \in Peers : RxEnd(p, peer)
    BY <2>4, <1>3 DEF RxEnd, getMatchTcpSocket
  <2>5. CASE \E i \in Slots : GiveUp(i)
    BY <2>5, <1>3 DEF GiveUp
  <2> QED
    BY <1>4, <2>1, <2>2, <2>3, <2>4, <2>5 DEF TablesNext
<1>5. CASE UNCHANGED tvars
  BY <1>5, <1>2 DEF tvars
<1> QED
  BY <1>1, <1>4, <1>5

(* No SYN is lost in listen: when one leaves the queue, the caller's       *)
(* socket, which was closed, is open for its peer.  This holds for every   *)
(* interleaving of the tasks up to the step in which createTcpSocetEx      *)
(* gives two of them one slot.                                             *)
THEOREM NoSynLost == TablesSpec => TakenOpens
<1>1. SInv /\ [TablesNext]_tvars =>
        [~clash => \A l \in LSlots, k \in QSlots :
            lused[l] /\ item[l][k] # NoPeer /\ item'[l][k] = NoPeer =>
                \E i \in Slots : /\ ~sock[i].open /\ sock'[i].open
                                 /\ sock'[i].peer = item[l][k]
                                 /\ sock'[i].lport = lport[l]]_tvars
  <2> SUFFICES ASSUME SInv, [TablesNext]_tvars, ~clash,
                      NEW l \in LSlots, NEW k \in QSlots,
                      lused[l], item[l][k] # NoPeer, item'[l][k] = NoPeer
               PROVE  \E i \in Slots : /\ ~sock[i].open /\ sock'[i].open
                                       /\ sock'[i].peer = item[l][k]
                                       /\ sock'[i].lport = lport[l]
    OBVIOUS
  <2>1. item' # item
    OBVIOUS
  <2> USE DEF SInv, TInv, TablesTypeOK
  <2>2. ~(\E p \in ListenPorts : CreateListener(p))
    <3> SUFFICES ASSUME NEW p \in ListenPorts, CreateListener(p) PROVE FALSE
      OBVIOUS
    <3>1. PICK m \in LSlots : ~lused[m] /\ item' = [item EXCEPT ![m] = [j \in QSlots |-> NoPeer]]
      BY DEF CreateListener
    <3> QED
      BY <3>1
  <2>3. ~(\E p \in Ports, peer \in Peers : RxSyn(p, peer))
    <3> SUFFICES ASSUME NEW p \in Ports, NEW peer \in Peers, RxSyn(p, peer) PROVE FALSE
      OBVIOUS
    <3>1. PICK m \in LSlots : item' = [item EXCEPT ![m][wp[m]] = peer]
      BY DEF RxSyn, getListenerByPeerPort, add
    <3> QED
      BY <3>1, TablesAssumption
  <2>4. PICK t \in Tasks : ListenTake(t)
    BY <2>1, <2>2, <2>3, ZenonT(60) DEF TablesNext, AppNext, CreateScan, CreateMark, ListenTimeout,
        Finalize, AppClose, Connect, Listen, FinalizeListener, RxEnd, GiveUp, lisVars, tvars
  <2> DEFINE i == task[t].at
             m == task[t].lis
  <2>5. i \in Slots /\ m \in LSlots
    BY <2>4 DEF ListenTake, Task, None
  <2>6. ~sock[i].open
    BY <2>4 DEF ListenTake, ListenClosed
  <2>7. PICK j \in QSlots :
            /\ sock' = [sock EXCEPT ![i] = [open |-> TRUE, lport |-> lport[m],
                                            peer |-> item[m][j], active |-> FALSE]]
            /\ item' = [item EXCEPT ![m][j] = NoPeer]
    BY <2>4, <2>6 DEF ListenTake, remove
  <2>8. m = l /\ j = k
    <3>1. item'[l][k] # item[l][k]
      OBVIOUS
    <3>2. m # l => item'[l] = item[l]
      BY <2>5, <2>7
    <3>3. m = l /\ j # k => item'[l][k] = item[l][k]
      BY <2>5, <2>7
    <3> QED
      BY <3>1, <3>2, <3>3
  <2>9. sock'[i] = [open |-> TRUE, lport |-> lport[l], peer |-> item[l][k], active |-> FALSE]
    BY <2>5, <2>7, <2>8
  <2>10. sock'[i].open /\ sock'[i].peer = item[l][k] /\ sock'[i].lport = lport[l]
    BY <2>9
  <2> HIDE DEF SInv, TInv, TablesTypeOK, i
  <2> QED
    BY <2>5, <2>6, <2>10
<1>2. SInv /\ [TablesNext]_tvars => SInv'
  BY SStep
<1> QED
  BY <1>1, <1>2, SInit, PTL DEF TablesSpec, TakenOpens
=============================================================================
