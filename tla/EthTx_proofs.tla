---------------------------- MODULE EthTx_proofs ----------------------------
(***************************************************************************)
(* The transmit ring never loses a block: for every number of descriptors, *)
(* blocks and tasks, and with restarts at any moment, a locked block is in *)
(* a descriptor or about to be.                                            *)
(***************************************************************************)
EXTENDS EthTx, TLAPS

USE EthAssumption DEF Bufs, Slots

(* Only the owner of the mutex is inside a call, and sends a block.        *)
Owner ==
    \A t \in Tasks :
        /\ pc[t] # "idle" => mutex = t
        /\ pc[t] \in {"full", "clean", "put", "write", "hand"} => buf[t] \in Bufs

(* Why the next descriptor is empty when it is written: the loop starts    *)
(* behind the produce index, and clears that descriptor first.             *)
Cleaned ==
    /\ NextIsEmpty
    /\ \A t \in Tasks :
         /\ pc[t] \in {"put", "write", "hand"} => desc[Succ(produce)] = NoBuf
         /\ pc[t] = "clean" => \/ idx[t] = Succ(produce)
                               \/ desc[Succ(produce)] = NoBuf

(* A block that is about to be written is locked and in no descriptor yet, *)
(* unless a start of the device has just unlocked it.                      *)
Locking ==
    \A t \in Tasks :
        pc[t] = "write" => \/ buf[t] \in late
                           \/ is_lock[buf[t]] /\ \A i \in Slots : desc[i] # buf[t]

EthInv == EthTypeOK /\ Owner /\ Cleaned /\ Locking /\ LockedInRing

(* The successor of an index of the ring is another index of the ring.     *)
LEMMA SuccSlot == \A i \in Slots : Succ(i) \in Slots /\ Succ(i) # i
  BY DEF Succ

(* The initial state: all blocks free, all descriptors empty.              *)
LEMMA EthInitInv == EthInit => EthInv
  <1> SUFFICES ASSUME EthInit PROVE EthInv
    OBVIOUS
  <1>1. EthTypeOK
    BY DEF EthInit, EthTypeOK, TaskPC
  <1>2. Owner /\ Cleaned /\ Locking /\ LockedInRing
    BY DEF EthInit, Owner, Cleaned, NextIsEmpty, Locking, LockedInRing
  <1> QED
    BY <1>1, <1>2 DEF EthInv

(* A step that leaves the ring, the locks and the calls' positions alone.  *)
LEMMA Quiet ==
    ASSUME EthInv, EthTypeOK', UNCHANGED <<is_lock, desc, produce, buf, late>>,
           \A t \in Tasks : pc'[t] = pc[t] /\ idx'[t] = idx[t],
           \A t \in Tasks : pc[t] # "idle" => mutex' = mutex
    PROVE  EthInv'
  BY DEF EthInv, Owner, Cleaned, NextIsEmpty, Locking, LockedInRing, Writing

(* Type correctness of a step of a task.                                   *)
LEMMA TaskType ==
    ASSUME EthTypeOK, Owner, NEW t \in Tasks, TaskStep(t)
    PROVE  EthTypeOK'
  <1>1. CASE \E hint \in {SizeOf[b] : b \in Gen} : AllocTxBuf(t, hint)
    <2>1. PICK hint \in {SizeOf[b] : b \in Gen} : AllocTxBuf(t, hint)
      BY <1>1
    <2> QED
      BY <2>1 DEF AllocTxBuf, GenCandidates, Take, EthTypeOK, ring, device
  <1>2. CASE AllocSysTxBuf(t)
    <2>1. CASE SysCandidates = {}
      BY <1>2, <2>1 DEF AllocSysTxBuf, EthTypeOK, ring, device, TaskPC
    <2>2. CASE SysCandidates # {}
      <3>1. PICK b \in SysCandidates : Take(t, b)
        BY <1>2, <2>2 DEF AllocSysTxBuf
      <3>2. b \in Bufs /\ UNCHANGED <<mutex, pc>>
        BY <1>2, <2>2 DEF AllocSysTxBuf, SysCandidates
      <3> QED
        BY <1>2, <3>1, <3>2 DEF AllocSysTxBuf, Take, EthTypeOK, ring, device
    <2> QED
      BY <2>1, <2>2
  <1>3. CASE AllocSysRetry(t)
    BY <1>3 DEF AllocSysRetry, SysCandidates, Take, EthTypeOK, ring, device, TaskPC
  <1>4. CASE \E b \in held[t] : ReleaseTxBuf(t, b) \/ Send(t, b)
    <2>1. PICK b \in held[t] : ReleaseTxBuf(t, b) \/ Send(t, b)
      BY <1>4
    <2>2. b \in Bufs
      BY DEF EthTypeOK
    <2>3. CASE ReleaseTxBuf(t, b)
      BY <2>2, <2>3 DEF ReleaseTxBuf, EthTypeOK, ring, device
    <2>4. CASE Send(t, b)
      BY <2>2, <2>4 DEF Send, EthTypeOK, ring, mem, device, TaskPC
    <2> QED
      BY <2>1, <2>3, <2>4
  <1>5. CASE WaitEmpty(t)
    BY <1>5, SuccSlot DEF WaitEmpty, EthTypeOK, ring, mem, device, TaskPC
  <1>6. CASE Clean(t)
    <2>1. idx' \in [Tasks -> Slots]
      <3>1. idx' = idx \/ idx' = [idx EXCEPT ![t] = Succ(idx[t])]
        BY <1>6 DEF Clean
      <3>2. idx \in [Tasks -> Slots] /\ Succ(idx[t]) \in Slots
        BY SuccSlot DEF EthTypeOK
      <3> QED
        BY <3>1, <3>2
    <2>2. pc' \in [Tasks -> TaskPC]
      <3>1. pc' = pc \/ pc' = [pc EXCEPT ![t] = "put"]
        BY <1>6 DEF Clean
      <3> QED
        BY <3>1 DEF EthTypeOK, TaskPC
    <2>3. desc' \in [Slots -> Bufs \cup {NoBuf}]
      BY <1>6, SMTT(30) DEF Clean, Unlock, EthTypeOK
    <2>4. is_lock' \in [Bufs -> BOOLEAN]
      BY <1>6, ZenonT(30) DEF Clean, Unlock, EthTypeOK
    <2>5. UNCHANGED <<ref, produce, consume, frame, enabled, late, orphans, mutex, buf, held>>
      BY <1>6 DEF Clean, device
    <2> QED
      BY <2>1, <2>2, <2>3, <2>4, <2>5 DEF EthTypeOK
  <1>7. CASE Put(t)
    <2>1. CASE PutLock(t)
      BY <2>1, ZenonT(60) DEF PutLock, EthTypeOK, TaskPC, Owner, ring, device
    <2>2. CASE PutDesc(t)
      BY <2>2, ZenonT(60) DEF PutDesc, EthTypeOK, TaskPC, Owner, mem, device
    <2>3. CASE PutIndex(t)
      BY <2>3, SuccSlot, ZenonT(60) DEF PutIndex, EthTypeOK, TaskPC, mem, device
    <2> QED
      BY <1>7, <2>1, <2>2, <2>3 DEF Put
  <1> QED
    BY <1>1, <1>2, <1>3, <1>4, <1>5, <1>6, <1>7 DEF TaskStep

(* One iteration of the loop in waitForTxEthFrameEmpty.                    *)
LEMMA CleanInv ==
    ASSUME EthInv, EthTypeOK', NEW t \in Tasks, Clean(t)
    PROVE  EthInv'
  <1>1. \A u \in Tasks : u # t => pc[u] = "idle" /\ pc'[u] = "idle"
    BY DEF EthInv, Owner, Clean, EthTypeOK
  <1>2. Owner'
    BY <1>1 DEF EthInv, Owner, Clean, EthTypeOK
  <1>3. \A i \in Slots : desc'[i] = IF i = idx[t] THEN NoBuf ELSE desc[i]
    BY DEF EthInv, EthTypeOK, Clean, Unlock
  <1>4. NextIsEmpty'
    BY <1>3 DEF EthInv, Cleaned, NextIsEmpty, Clean, EthTypeOK
  <1>5. desc'[Succ(produce)] = NoBuf
    BY <1>3, SuccSlot DEF EthInv, Cleaned, Clean, EthTypeOK
  <1>6. Cleaned'
    BY <1>1, <1>4, <1>5 DEF Cleaned, Clean, Succ
  <1>7. Locking' /\ \A u \in Tasks : pc[u] # "write" /\ pc'[u] # "write"
    BY <1>1 DEF Locking, Clean, EthInv, EthTypeOK
  <1>8. LockedInRing'
    <2>1. \A b \in Bufs : is_lock'[b] <=> is_lock[b] /\ desc[idx[t]] # b
      BY DEF Clean, Unlock
    <2>2. idx[t] \in Slots /\ desc \in [Slots -> Bufs \cup {NoBuf}] /\ late' = late
      BY DEF EthInv, EthTypeOK, Clean, device
    <2>3. \A b \in Bufs : is_lock'[b] => \E i \in Slots : desc'[i] = b
      BY <1>3, <1>7, <2>1, <2>2 DEF EthInv, LockedInRing, Writing
    <2>4. \A i, j \in Slots : desc'[i] \in Bufs \ late' =>
            is_lock'[desc'[i]] /\ (desc'[i] = desc'[j] => i = j)
      BY <1>3, <2>1, <2>2 DEF EthInv, LockedInRing
    <2> QED
      BY <2>3, <2>4 DEF LockedInRing
  <1> QED
    BY <1>2, <1>6, <1>7, <1>8 DEF EthInv

(* The block is locked, or was queued already. *)
LEMMA PutLockInv ==
    ASSUME EthInv, EthTypeOK', NEW t \in Tasks, PutLock(t)
    PROVE  EthInv'
  <1>1. \A u \in Tasks : u # t => pc[u] = "idle" /\ pc'[u] = "idle"
    BY DEF EthInv, Owner, PutLock, EthTypeOK
  <1>2. pc[t] = "put" /\ pc'[t] \in {"idle", "write"} /\ buf[t] \in Bufs
    BY DEF EthInv, Owner, PutLock, EthTypeOK
  <1>3. UNCHANGED <<desc, produce, late>>
    BY DEF PutLock, ring, device
  <1>4. Owner' /\ Cleaned'
    BY <1>1, <1>2, <1>3
       DEF EthInv, Owner, Cleaned, NextIsEmpty, PutLock, EthTypeOK, Succ
  <1>5. CASE is_lock[buf[t]]
    <2>1. pc'[t] = "idle" /\ UNCHANGED is_lock
      BY <1>5 DEF EthInv, EthTypeOK, PutLock
    <2>2. Locking' /\ LockedInRing'
      BY <1>1, <1>2, <1>3, <2>1
         DEF EthInv, Locking, LockedInRing, Writing
    <2> QED
      BY <1>4, <2>2 DEF EthInv
  <1>6. CASE ~is_lock[buf[t]]
    <2>1. pc'[t] = "write" /\ UNCHANGED buf
      BY <1>6 DEF EthInv, EthTypeOK, PutLock
    <2>2. \A b \in Bufs : is_lock'[b] <=> is_lock[b] \/ b = buf[t]
      BY <1>2, <1>6 DEF EthInv, EthTypeOK, PutLock
    <2>3. desc \in [Slots -> Bufs \cup {NoBuf}]
      BY DEF EthInv, EthTypeOK
    <2>4. buf[t] \notin late => \A i \in Slots : desc[i] # buf[t]
      BY <1>2, <1>6 DEF EthInv, LockedInRing
    <2>5. Locking'
      BY <1>1, <1>2, <1>3, <2>1, <2>2, <2>4 DEF Locking
    <2>6. \A b \in Bufs : is_lock'[b] =>
            Writing(b)' \/ \E i \in Slots : desc'[i] = b
      BY <1>1, <1>2, <1>3, <2>1, <2>2 DEF EthInv, LockedInRing, Writing
    <2>7. \A i, j \in Slots : desc'[i] \in Bufs \ late' =>
            is_lock'[desc'[i]] /\ (desc'[i] = desc'[j] => i = j)
      BY <1>3, <2>2, <2>3 DEF EthInv, LockedInRing
    <2> QED
      BY <1>4, <2>5, <2>6, <2>7 DEF EthInv, LockedInRing
  <1> QED
    BY <1>5, <1>6

(* The descriptor is written. *)
LEMMA PutDescInv ==
    ASSUME EthInv, EthTypeOK', NEW t \in Tasks, PutDesc(t)
    PROVE  EthInv'
  <1>1. \A u \in Tasks : u # t => pc[u] = "idle" /\ pc'[u] = "idle"
    BY DEF EthInv, Owner, PutDesc, EthTypeOK
  <1>2. pc[t] = "write" /\ pc'[t] = "hand" /\ buf[t] \in Bufs
    BY DEF EthInv, Owner, PutDesc, EthTypeOK
  <1>3. UNCHANGED <<is_lock, produce, buf, mutex, late>>
    BY DEF PutDesc, mem, device
  <1>4. produce \in Slots /\ Succ(produce) \in Slots /\ Succ(produce) # produce
    BY SuccSlot DEF EthInv, EthTypeOK
  <1>5. \A i \in Slots : desc'[i] = IF i = produce THEN buf[t] ELSE desc[i]
    BY DEF EthInv, EthTypeOK, PutDesc
  <1>6. Owner'
    BY <1>1, <1>2, <1>3 DEF EthInv, Owner, PutDesc
  <1>7. desc[produce] = NoBuf
    BY <1>1, <1>2 DEF EthInv, Cleaned, NextIsEmpty
  <1>8. Cleaned'
    <2>1. NextIsEmpty'
      BY <1>2 DEF NextIsEmpty
    <2>2. desc'[Succ(produce)'] = NoBuf
      BY <1>2, <1>3, <1>4, <1>5 DEF EthInv, Cleaned, Succ
    <2> QED
      BY <1>1, <1>2, <2>1, <2>2 DEF Cleaned
  <1>9. Locking'
    BY <1>1, <1>2 DEF Locking
  <1>10. \A b \in Bufs : is_lock'[b] => \E i \in Slots : desc'[i] = b
    BY <1>1, <1>2, <1>3, <1>4, <1>5, <1>7 DEF EthInv, LockedInRing, Writing
  <1>11. \A i, j \in Slots : desc'[i] \in Bufs \ late' =>
           is_lock'[desc'[i]] /\ (desc'[i] = desc'[j] => i = j)
    <2>1. buf[t] \notin late =>
            is_lock[buf[t]] /\ \A i \in Slots : desc[i] # buf[t]
      BY <1>2 DEF EthInv, Locking
    <2> QED
      BY <1>2, <1>3, <1>4, <1>5, <1>7, <2>1 DEF EthInv, LockedInRing
  <1> QED
    BY <1>6, <1>8, <1>9, <1>10, <1>11 DEF EthInv, LockedInRing

(* The frame is handed to the device. *)
LEMMA PutIndexInv ==
    ASSUME EthInv, EthTypeOK', NEW t \in Tasks, PutIndex(t)
    PROVE  EthInv'
  <1>1. \A u \in Tasks : pc'[u] = "idle"
    BY DEF EthInv, Owner, PutIndex, EthTypeOK
  <1>2. \A u \in Tasks : pc[u] # "write"
    BY DEF EthInv, Owner, PutIndex, EthTypeOK
  <1>3. UNCHANGED <<is_lock, desc, late>> /\ produce' = Succ(produce)
    BY DEF PutIndex, mem, device
  <1>4. desc[Succ(produce)] = NoBuf
    BY DEF EthInv, Cleaned, PutIndex
  <1>5. Owner' /\ Cleaned' /\ Locking'
    BY <1>1, <1>3, <1>4 DEF Owner, Cleaned, NextIsEmpty, Locking
  <1>6. LockedInRing'
    BY <1>1, <1>2, <1>3 DEF EthInv, LockedInRing, Writing
  <1> QED
    BY <1>5, <1>6 DEF EthInv

(* A task enters or leaves a call of the interface without touching the    *)
(* ring.                                                                   *)
LEMMA EntersCall ==
    ASSUME EthInv, EthTypeOK', Owner', UNCHANGED <<is_lock, desc, produce, late>>,
           NEW t \in Tasks, pc[t] \in {"idle", "spin"},
           pc' \in {[pc EXCEPT ![t] = "idle"], [pc EXCEPT ![t] = "spin"], [pc EXCEPT ![t] = "full"]},
           \A u \in Tasks \ {t} : pc[u] = "idle"
    PROVE  EthInv'
  <1>1. pc \in [Tasks -> TaskPC] /\ \A u \in Tasks : pc[u] \in {"idle", "spin"}
    BY DEF EthInv, EthTypeOK
  <1>2. \A u \in Tasks : pc'[u] \in {"idle", "spin", "full"}
    BY <1>1
  <1>3. Cleaned' /\ Locking'
    BY <1>1, <1>2 DEF EthInv, Cleaned, NextIsEmpty, Locking
  <1>4. LockedInRing'
    BY <1>1, <1>2 DEF EthInv, LockedInRing, Writing
  <1> QED
    BY <1>3, <1>4 DEF EthInv

(* A step of a task.                                                       *)
LEMMA TaskInv ==
    ASSUME EthInv, NEW t \in Tasks, TaskStep(t)
    PROVE  EthInv'
  <1>0. EthTypeOK'
    BY TaskType DEF EthInv
  <1>1. CASE \E hint \in {SizeOf[b] : b \in Gen} : AllocTxBuf(t, hint)
    BY <1>0, <1>1, Quiet DEF AllocTxBuf, ring, device
  <1>2. CASE AllocSysTxBuf(t)
    <2>1. CASE UNCHANGED pc
      BY <1>0, <1>2, <2>1, Quiet DEF AllocSysTxBuf, Calls, Take, ring, device, EthInv, Owner
    <2>2. CASE mutex' = t /\ pc' = [pc EXCEPT ![t] = "spin"]
      <3>1. Owner'
        BY <1>2, <2>2 DEF AllocSysTxBuf, Calls, EthInv, EthTypeOK, Owner
      <3> QED
        BY <1>0, <1>2, <2>2, <3>1, EntersCall, EthAssumption
           DEF AllocSysTxBuf, Calls, ring, device, EthInv, Owner
    <2> QED
      BY <1>2, <2>1, <2>2 DEF AllocSysTxBuf
  <1>3. CASE AllocSysRetry(t)
    <2>1. \A u \in Tasks \ {t} : pc[u] = "idle"
      BY <1>3 DEF AllocSysRetry, EthInv, Owner
    <2>2. Owner'
      BY <1>3, <2>1 DEF AllocSysRetry, EthInv, EthTypeOK, Owner
    <2> QED
      BY <1>0, <1>3, <2>1, <2>2, EntersCall DEF AllocSysRetry, ring, device
  <1>4. CASE \E b \in held[t] : ReleaseTxBuf(t, b) \/ Send(t, b)
    <2>1. PICK b \in held[t] : ReleaseTxBuf(t, b) \/ Send(t, b)
      BY <1>4
    <2>2. CASE ReleaseTxBuf(t, b)
      BY <1>0, <2>2, Quiet DEF ReleaseTxBuf, ring, device
    <2>3. CASE Send(t, b)
      <3>1. Owner'
        BY <2>3 DEF Send, Calls, EthInv, EthTypeOK, Owner
      <3> QED
        BY <1>0, <2>3, <3>1, EntersCall, EthAssumption
           DEF Send, Calls, ring, mem, device, EthInv, Owner
    <2> QED
      BY <2>1, <2>2, <2>3
  <1>5. CASE WaitEmpty(t)
    BY <1>0, <1>5
       DEF WaitEmpty, ring, mem, device, EthInv, EthTypeOK, Owner, Cleaned,
           NextIsEmpty, Locking, LockedInRing, Writing, Succ
  <1>6. CASE Clean(t)
    BY <1>0, <1>6, CleanInv
  <1>7. CASE Put(t)
    BY <1>0, <1>7, PutLockInv, PutDescInv, PutIndexInv DEF Put
  <1> QED
    BY <1>1, <1>2, <1>3, <1>4, <1>5, <1>6, <1>7 DEF TaskStep

(* Every step keeps the invariant.                                         *)
LEMMA EthNextInv == EthInv /\ [EthNext]_ethVars => EthInv'
  <1> SUFFICES ASSUME EthInv, [EthNext]_ethVars PROVE EthInv'
    OBVIOUS
  <1>1. ASSUME NEW t \in Tasks, TaskStep(t) PROVE EthInv'
    BY <1>1, TaskInv
  <1>2. CASE Transmitted
    <2>1. EthTypeOK'
      BY <1>2, SuccSlot DEF Transmitted, EthInv, EthTypeOK, mem, task, device
    <2> QED
      BY <1>2, <2>1, Quiet DEF Transmitted, mem, task, device
  <1>3. CASE DeviceStop \/ DeviceEnable
    <2>1. EthTypeOK'
      BY <1>3 DEF DeviceStop, DeviceEnable, EthInv, EthTypeOK, mem, ring, task
    <2> QED
      BY <1>3, <2>1, Quiet DEF DeviceStop, DeviceEnable, mem, ring, task
  <1>4. CASE DeviceStart
    <2>0. UNCHANGED <<produce, consume, frame, mutex, pc, buf, idx, held>>
      BY <1>4 DEF DeviceStart, task
    <2>1. EthTypeOK'
      <3>1. \A t \in Tasks : pc[t] = "write" => buf[t] \in Bufs
        BY DEF EthInv, Owner
      <3>2. late' \subseteq Bufs /\ orphans' \subseteq Bufs
        BY <1>4, <3>1 DEF DeviceStart, EthInv, EthTypeOK
      <3> QED
        BY <1>4, <2>0, <3>2 DEF DeviceStart, EthInv, EthTypeOK
    <2>2. Owner'
      BY <2>0 DEF EthInv, Owner
    <2>3. \A i \in Slots : desc'[i] = NoBuf
      BY <1>4 DEF DeviceStart
    <2>4. Cleaned'
      BY <2>0, <2>1, <2>3, SuccSlot DEF Cleaned, NextIsEmpty, EthTypeOK, Succ
    <2>5. Locking' /\ LockedInRing'
      <3>1. \A t \in Tasks : pc[t] = "write" => buf[t] \in late'
        BY <1>4 DEF DeviceStart
      <3>2. \A b \in Bufs : ~is_lock'[b]
        BY <1>4 DEF DeviceStart
      <3> QED
        BY <2>0, <2>3, <3>1, <3>2, EthAssumption DEF Locking, LockedInRing
    <2> QED
      BY <2>1, <2>2, <2>4, <2>5 DEF EthInv
  <1>5. CASE UNCHANGED ethVars
    <2>1. EthTypeOK'
      BY <1>5 DEF ethVars, EthInv, EthTypeOK, mem, ring, task, device
    <2> QED
      BY <1>5, <2>1, Quiet DEF ethVars, mem, ring, task, device
  <1> QED
    BY <1>1, <1>2, <1>3, <1>4, <1>5 DEF EthNext

(* The ring and the lock flags agree in every reachable state: no block is *)
(* lost to a stale lock flag, and none is queued twice but for those that  *)
(* a start of the device caught between lock and descriptor                *)
(* (waitForTxEthFrameEmpty, sendTxEthFrame).                               *)
THEOREM RingKeepsLocks == EthSpec => []LockedInRing
  <1>1. EthInv => LockedInRing
    BY DEF EthInv
  <1> QED
    BY <1>1, EthInitInv, EthNextInv, PTL DEF EthSpec

(* The descriptor that sendTxEthFrame writes next is always empty.         *)
THEOREM NextAlwaysEmpty == EthSpec => []NextIsEmpty
  <1>1. EthInv => NextIsEmpty
    BY DEF EthInv, Cleaned
  <1> QED
    BY <1>1, EthInitInv, EthNextInv, PTL DEF EthSpec

(* The headers, the ring and the tasks keep their types, and all indices   *)
(* stay inside the ring, across restarts too.                              *)
THEOREM EthTypeCorrect == EthSpec => []EthTypeOK
  <1>1. EthInv => EthTypeOK
    BY DEF EthInv
  <1> QED
    BY <1>1, EthInitInv, EthNextInv, PTL DEF EthSpec

-----------------------------------------------------------------------------
(* Who holds a block *)

(* OneHolder, with the reference count of a block nobody has taken.        *)
HolderInv ==
    /\ OneHolder
    /\ \A b \in Bufs \ orphans : (\A t \in Tasks : b \notin held[t]) => ref[b] = 0

(* alloc moves a block from nobody to one task. *)
LEMMA TakeHolds ==
    ASSUME EthTypeOK, HolderInv, NEW t \in Tasks, NEW b \in Bufs, Free(b), Take(t, b),
           UNCHANGED orphans
    PROVE  HolderInv'
  <1>1. ref' = [ref EXCEPT ![b] = @ + 1] /\ held' = [held EXCEPT ![t] = @ \cup {b}]
    BY DEF Take
  <1>2. ref \in [Bufs -> Int] /\ held \in [Tasks -> SUBSET Bufs] /\ orphans \subseteq Bufs
    BY DEF EthTypeOK
  <1> DEFINE Nobody(x) == \A u \in Tasks : x \notin held[u]
  <1>3. b \notin orphans => Nobody(b)
    <2> SUFFICES ASSUME b \notin orphans, NEW u \in Tasks, b \in held[u] PROVE FALSE
      OBVIOUS
    <2>1. ref[b] = 1
      BY DEF HolderInv, OneHolder
    <2> QED
      BY <2>1 DEF Free
  <1>4. ASSUME NEW u \in Tasks, NEW c \in held'[u] \ orphans
        PROVE  ref'[c] = 1 /\ \A v \in Tasks : c \in held'[v] => v = u
    BY <1>1, <1>2, <1>3, <1>4 DEF HolderInv, OneHolder
  <1>5. ASSUME NEW c \in Bufs \ orphans, \A u \in Tasks : c \notin held'[u]
        PROVE  ref'[c] = 0
    BY <1>1, <1>2, <1>5 DEF HolderInv
  <1> QED
    BY <1>4, <1>5 DEF HolderInv, OneHolder

(* Every step keeps HolderInv. *)
LEMMA HolderStep == EthTypeOK /\ HolderInv /\ [EthNext]_ethVars => HolderInv'
  <1> SUFFICES ASSUME EthTypeOK, HolderInv, [EthNext]_ethVars PROVE HolderInv'
    OBVIOUS
  <1>1. CASE UNCHANGED <<ref, held, orphans>>
    BY <1>1 DEF HolderInv, OneHolder
  <1>2. ASSUME NEW t \in Tasks, TaskStep(t) PROVE HolderInv'
    <2>1. ASSUME NEW hint, AllocTxBuf(t, hint) PROVE HolderInv'
      <3>1. PICK b \in GenCandidates(hint) : Take(t, b)
        BY <2>1 DEF AllocTxBuf
      <3>2. b \in Bufs /\ Free(b)
        BY DEF GenCandidates, Bufs
      <3> QED
        BY <2>1, <3>1, <3>2, TakeHolds DEF AllocTxBuf, device
    <2>2. CASE AllocSysTxBuf(t)
      <3>1. CASE UNCHANGED <<ref, held>>
        BY <1>1, <2>2, <3>1 DEF AllocSysTxBuf, device
      <3>2. CASE \E b \in SysCandidates : Take(t, b)
        BY <2>2, <3>2, TakeHolds DEF AllocSysTxBuf, SysCandidates, Bufs, device
      <3> QED
        BY <2>2, <3>1, <3>2 DEF AllocSysTxBuf
    <2>3. CASE AllocSysRetry(t)
      BY <2>3, TakeHolds DEF AllocSysRetry, SysCandidates, Bufs, device
    <2>4. ASSUME NEW b \in held[t], ReleaseTxBuf(t, b) PROVE HolderInv'
      <3>1. ref' = [ref EXCEPT ![b] = @ - 1] /\ held' = [held EXCEPT ![t] = @ \ {b}]
            /\ UNCHANGED orphans
        BY <2>4 DEF ReleaseTxBuf, device
      <3>2. ref \in [Bufs -> Int] /\ held \in [Tasks -> SUBSET Bufs] /\ b \in Bufs
        BY DEF EthTypeOK
      <3>3. b \notin orphans => ref[b] = 1 /\ \A u \in Tasks \ {t} : b \notin held[u]
        BY DEF HolderInv, OneHolder
      <3>4. ASSUME NEW u \in Tasks, NEW c \in held'[u] \ orphans
            PROVE  ref'[c] = 1 /\ \A v \in Tasks : c \in held'[v] => v = u
        BY <3>1, <3>2, <3>3, <3>4 DEF HolderInv, OneHolder
      <3>5. ASSUME NEW c \in Bufs \ orphans, \A u \in Tasks : c \notin held'[u]
            PROVE  ref'[c] = 0
        BY <3>1, <3>2, <3>3, <3>5 DEF HolderInv
      <3> QED
        BY <3>1, <3>4, <3>5 DEF HolderInv, OneHolder
    <2>5. ASSUME NEW b \in held[t], Send(t, b) PROVE HolderInv'
      BY <1>1, <2>5 DEF Send, mem, device
    <2>6. CASE WaitEmpty(t) \/ Clean(t) \/ Put(t)
      BY <1>1, <2>6
         DEF WaitEmpty, Clean, Put, PutLock, PutDesc, PutIndex, mem, device
    <2> QED
      BY <1>2, <2>1, <2>2, <2>3, <2>4, <2>5, <2>6 DEF TaskStep
  <1>3. CASE Transmitted \/ DeviceStop \/ DeviceEnable
    BY <1>1, <1>3 DEF Transmitted, DeviceStop, DeviceEnable, mem, task, device
  <1>4. CASE DeviceStart
    <2>1. held' = held /\ orphans' = UNION {held[t] : t \in Tasks}
      BY <1>4 DEF DeviceStart, task
    <2>2. \A t \in Tasks : held[t] \ orphans' = {}
      BY <2>1
    <2>3. \A b \in Bufs : ref'[b] = 0
      BY <1>4 DEF DeviceStart
    <2> QED
      BY <2>1, <2>2, <2>3 DEF HolderInv, OneHolder
  <1>5. CASE UNCHANGED ethVars
    BY <1>1, <1>5 DEF ethVars, mem, task, device
  <1> QED
    BY <1>2, <1>3, <1>4, <1>5 DEF EthNext

(* A block is handed to one task at a time, and the assertion of release   *)
(* about the reference count holds, for every number of tasks and blocks,  *)
(* except for blocks in use when the device was started.                   *)
THEOREM BlocksHaveOneHolder == EthSpec => []OneHolder
  <1>1. EthInit => HolderInv
    BY DEF EthInit, HolderInv, OneHolder
  <1>2. HolderInv => OneHolder
    BY DEF HolderInv
  <1> QED
    BY <1>1, <1>2, HolderStep, EthTypeCorrect, PTL DEF EthSpec
=============================================================================
