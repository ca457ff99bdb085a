------------------------------- MODULE EthTx -------------------------------
(***************************************************************************)
(* Transmission memory and the transmit ring of the LPC17xx Ethernet       *)
(* device: NyLPC_cEthernetMM.c, EthDev_LPC17xx.c, the start and stop of    *)
(* EtherDev_DP83848C.c, and the functions of NyLPC_cMiMicIpNetIf.c that    *)
(* lock the Ethernet mutex around them.                                    *)
(*                                                                         *)
(* Tasks are the uip task and the application's threads.  The device runs  *)
(* beside them: it consumes descriptors between any two steps.  A step is  *)
(* one iteration of a loop that reads a device register, or a critical     *)
(* section without such a loop.                                            *)
(***************************************************************************)
EXTENDS Integers, FiniteSets

CONSTANTS
    NUM_TX_FRAG,    \* descriptors of the transmit ring
    Sys,            \* the 64-byte blocks, for control packets only
    Gen,            \* all larger blocks
    SizeOf,         \* size of a larger block
    NoBuf,          \* NULL
    Tasks, NoTask,
    Restarts,       \* the interface may be stopped and started again
    MaxHeld         \* bound: blocks a task holds at a time

Bufs == Sys \cup Gen

Slots == 0 .. NUM_TX_FRAG - 1

ASSUME EthAssumption ==
    /\ NUM_TX_FRAG \in Nat \ {0, 1}
    /\ Sys \cap Gen = {} /\ NoBuf \notin Bufs
    /\ SizeOf \in [Gen -> Nat]
    /\ NoTask \notin Tasks
    /\ Restarts \in BOOLEAN /\ MaxHeld \in Nat

VARIABLES
    ref, is_lock,       \* the header of each block
    desc,               \* TX_DESC_PACKET
    produce, consume,   \* TxProduceIndex, TxConsumeIndex
    enabled,            \* the transmitter is enabled
    mutex,              \* owner of the Ethernet mutex
    pc, buf, idx,       \* per task: where it is, i_buf and i of its call
    held,               \* per task: the blocks it has allocated
    frame,              \* what each descriptor said when it was handed over
    late, orphans       \* history of the last start: the blocks it caught
                        \* between lock and descriptor, and in a task's hands

mem    == <<ref, is_lock>>
ring   == <<desc, produce, consume, frame>>
task   == <<mutex, pc, buf, idx, held>>
device == <<enabled, late, orphans>>
ethVars == <<mem, ring, device, task>>

TaskPC == {"idle", "spin", "full", "clean", "put", "write", "hand"}

Succ(i) == IF i + 1 = NUM_TX_FRAG THEN 0 ELSE i + 1

EthInit ==
    /\ ref = [b \in Bufs |-> 0]
    /\ is_lock = [b \in Bufs |-> FALSE]
    /\ desc = [i \in Slots |-> NoBuf]
    /\ frame = [i \in Slots |-> NoBuf]
    /\ produce = 0 /\ consume = 0
    /\ enabled = "on" /\ late = {} /\ orphans = {}
    /\ mutex = NoTask
    /\ pc = [t \in Tasks |-> "idle"]
    /\ buf = [t \in Tasks |-> NoBuf]
    /\ idx = [t \in Tasks |-> 0]
    /\ held = [t \in Tasks |-> {}]

-----------------------------------------------------------------------------
(* NyLPC_cEthernetMM *)

(* Mutant: a block that is sent but still referenced counts as free. *)
FreeUnlocked(b) == ~is_lock[b]

(* Neither referenced nor being transmitted. *)
Free(b) == ref[b] <= 0 /\ ~is_lock[b]

(* alloc for a control packet. *)
SysCandidates == {b \in Sys : Free(b)}

(* alloc for a size: the class of the hint, and when it has no free block  *)
(* the next smaller class.                                                 *)
GenCandidates(hint) ==
    LET fit == {b \in Gen : Free(b) /\ SizeOf[b] <= hint}
    IN {b \in fit : \A c \in fit : SizeOf[c] <= SizeOf[b]}

Take(t, b) ==
    /\ ref' = [ref EXCEPT ![b] = @ + 1]
    /\ held' = [held EXCEPT ![t] = @ \cup {b}]

-----------------------------------------------------------------------------
(* The interface's functions.  Each takes the mutex. *)

Calls(t) == pc[t] = "idle" /\ mutex = NoTask

AllocTxBuf(t, hint) ==
    /\ Calls(t) /\ Cardinality(held[t]) < MaxHeld
    /\ \E b \in GenCandidates(hint) : Take(t, b)
    /\ UNCHANGED <<is_lock, ring, device, mutex, pc, buf, idx>>

(* allocSysTxBuf tries again, with the mutex held, until it gets a block. *)
AllocSysTxBuf(t) ==
    /\ Calls(t) /\ Cardinality(held[t]) < MaxHeld
    /\ \/ /\ \E b \in SysCandidates : Take(t, b)
          /\ UNCHANGED <<mutex, pc>>
       \/ /\ SysCandidates = {}
          /\ mutex' = t /\ pc' = [pc EXCEPT ![t] = "spin"]
          /\ UNCHANGED <<ref, held>>
    /\ UNCHANGED <<is_lock, ring, device, buf, idx>>

AllocSysRetry(t) ==
    /\ pc[t] = "spin"
    /\ \E b \in SysCandidates : Take(t, b)
    /\ mutex' = NoTask /\ pc' = [pc EXCEPT ![t] = "idle"]
    /\ UNCHANGED <<is_lock, ring, device, buf, idx>>

ReleaseTxBuf(t, b) ==
    /\ Calls(t) /\ b \in held[t]
    /\ ref' = [ref EXCEPT ![b] = @ - 1]
    /\ held' = [held EXCEPT ![t] = @ \ {b}]
    /\ UNCHANGED <<is_lock, ring, device, mutex, pc, buf, idx>>

(* sendIPv4Tx, sendArpRequest: sendTxEthFrame with the mutex held. *)
Send(t, b) ==
    /\ Calls(t) /\ b \in held[t]
    /\ mutex' = t
    /\ pc' = [pc EXCEPT ![t] = "full"]
    /\ buf' = [buf EXCEPT ![t] = b]
    /\ UNCHANGED <<mem, ring, device, idx, held>>

(* Mutant: the loop starts at the consume index. *)
WaitEmptyAtConsume(t) ==
    /\ pc[t] = "full"
    /\ Succ(produce) # consume
    /\ idx' = [idx EXCEPT ![t] = consume]
    /\ pc' = [pc EXCEPT ![t] = "clean"]
    /\ UNCHANGED <<mem, ring, device, mutex, buf, held>>

(* Mutant: the test for a full ring is inverted. *)
WaitEmptyInverted(t) ==
    /\ pc[t] = "full"
    /\ Succ(produce) = consume
    /\ idx' = [idx EXCEPT ![t] = Succ(produce)]
    /\ pc' = [pc EXCEPT ![t] = "clean"]
    /\ UNCHANGED <<mem, ring, device, mutex, buf, held>>

(* waitForTxEthFrameEmpty: first until there is a free descriptor ... *)
WaitEmpty(t) ==
    /\ pc[t] = "full"
    /\ Succ(produce) # consume
    /\ idx' = [idx EXCEPT ![t] = Succ(produce)]
    /\ pc' = [pc EXCEPT ![t] = "clean"]
    /\ UNCHANGED <<mem, ring, device, mutex, buf, held>>

(* Mutant: the descriptor keeps its pointer. *)
UnlockKeepsDesc(i) ==
    /\ is_lock' = [b \in Bufs |-> is_lock[b] /\ desc[i] # b]
    /\ UNCHANGED desc

Unlock(i) ==
    /\ is_lock' = [b \in Bufs |-> is_lock[b] /\ desc[i] # b]
    /\ desc' = [desc EXCEPT ![i] = NoBuf]

(* ... then the flags of the frames up to the consume index, that one      *)
(* included, are cleared.                                                  *)
Clean(t) ==
    /\ pc[t] = "clean"
    /\ Unlock(idx[t])
    /\ \/ /\ idx[t] # consume
          /\ idx' = [idx EXCEPT ![t] = Succ(@)] /\ UNCHANGED pc
       \/ /\ idx[t] = consume
          /\ pc' = [pc EXCEPT ![t] = "put"] /\ UNCHANGED idx
    /\ UNCHANGED <<ref, produce, consume, frame, device, mutex, buf, held>>

(* The rest of sendTxEthFrame.  A block that is being sent is not sent     *)
(* again; another one is locked ...                                        *)
PutLock(t) ==
    /\ pc[t] = "put"
    /\ \/ /\ is_lock[buf[t]]
          /\ mutex' = NoTask /\ pc' = [pc EXCEPT ![t] = "idle"]
          /\ buf' = [buf EXCEPT ![t] = NoBuf]
          /\ UNCHANGED is_lock
       \/ /\ ~is_lock[buf[t]]
          /\ is_lock' = [is_lock EXCEPT ![buf[t]] = TRUE]
          /\ pc' = [pc EXCEPT ![t] = "write"]
          /\ UNCHANGED <<mutex, buf>>
    /\ UNCHANGED <<ref, ring, device, idx, held>>

(* ... then the descriptor is written ... *)
PutDesc(t) ==
    /\ pc[t] = "write"
    /\ desc' = [desc EXCEPT ![produce] = buf[t]]
    /\ pc' = [pc EXCEPT ![t] = "hand"]
    /\ UNCHANGED <<mem, produce, consume, frame, device, mutex, buf, idx, held>>

(* ... and handed to the device. *)
PutIndex(t) ==
    /\ pc[t] = "hand"
    /\ frame' = [frame EXCEPT ![produce] = desc[produce]]
    /\ produce' = Succ(produce)
    /\ mutex' = NoTask /\ pc' = [pc EXCEPT ![t] = "idle"]
    /\ buf' = [buf EXCEPT ![t] = NoBuf]
    /\ UNCHANGED <<mem, desc, consume, device, idx, held>>

Put(t) == PutLock(t) \/ PutDesc(t) \/ PutIndex(t)

TaskStep(t) ==
    \/ \E hint \in {SizeOf[b] : b \in Gen} : AllocTxBuf(t, hint)
    \/ AllocSysTxBuf(t) \/ AllocSysRetry(t)
    \/ \E b \in held[t] : ReleaseTxBuf(t, b) \/ Send(t, b)
    \/ WaitEmpty(t) \/ Clean(t) \/ Put(t)

-----------------------------------------------------------------------------
(* The device *)

Transmitted ==
    /\ enabled = "on" /\ consume # produce
    /\ consume' = Succ(consume)
    /\ UNCHANGED <<mem, desc, produce, frame, device, task>>

(* stop and start of the device, by the uip task without the mutex, while  *)
(* another task may be anywhere in a call.                                 *)
OutsideCalls == \E uip \in Tasks : pc[uip] = "idle"

DeviceStop ==
    /\ Restarts /\ enabled = "on" /\ OutsideCalls
    /\ enabled' = "off"
    /\ UNCHANGED <<mem, ring, late, orphans, task>>

(* start prepares memory and descriptors; the indices stay ... *)
DeviceStart ==
    /\ enabled = "off" /\ OutsideCalls
    /\ enabled' = "prepared"
    /\ ref' = [b \in Bufs |-> 0]
    /\ is_lock' = [b \in Bufs |-> FALSE]
    /\ desc' = [i \in Slots |-> NoBuf]
    /\ late' = {buf[t] : t \in {u \in Tasks : pc[u] = "write"}}
    /\ orphans' = UNION {held[t] : t \in Tasks}
    /\ UNCHANGED <<produce, consume, frame, task>>

(* ... then sleeps until there is a link, and enables the device. *)
DeviceEnable ==
    /\ enabled = "prepared"
    /\ enabled' = "on"
    /\ UNCHANGED <<mem, ring, late, orphans, task>>

EthNext ==
    \/ \E t \in Tasks : TaskStep(t)
    \/ Transmitted \/ DeviceStop \/ DeviceStart \/ DeviceEnable

EthSpec == EthInit /\ [][EthNext]_ethVars

(* A task inside a call goes on, and so does an enabled transmitter. *)
CallStep(t) == AllocSysRetry(t) \/ WaitEmpty(t) \/ Clean(t) \/ Put(t)

EthFairSpec ==
    /\ EthSpec
    /\ WF_ethVars(Transmitted)
    /\ \A t \in Tasks : WF_ethVars(CallStep(t))

-----------------------------------------------------------------------------
(* Properties *)

(* The descriptors hold blocks or NULL, and the indices of the device and  *)
(* of the loop in waitForTxEthFrameEmpty stay inside the ring.             *)
EthTypeOK ==
    /\ ref \in [Bufs -> Int]
    /\ is_lock \in [Bufs -> BOOLEAN]
    /\ desc \in [Slots -> Bufs \cup {NoBuf}]
    /\ frame \in [Slots -> Bufs \cup {NoBuf}]
    /\ produce \in Slots /\ consume \in Slots
    /\ enabled \in {"on", "off", "prepared"}
    /\ late \subseteq Bufs /\ orphans \subseteq Bufs
    /\ mutex \in Tasks \cup {NoTask}
    /\ pc \in [Tasks -> TaskPC]
    /\ buf \in [Tasks -> Bufs \cup {NoBuf}]
    /\ idx \in [Tasks -> Slots]
    /\ held \in [Tasks -> SUBSET Bufs]

(* A task is about to write a block it has locked into a descriptor.       *)
Writing(b) == \E t \in Tasks : pc[t] = "write" /\ buf[t] = b

(* No block stays locked with nobody left to unlock it: a descriptor       *)
(* points to it or is about to.  A descriptor's block is locked and in no  *)
(* other descriptor, unless a start of the device fell between its lock    *)
(* and its descriptor (sendTxEthFrame); although the consume index moves   *)
(* during the loop and a retransmission asks for a block still queued.     *)
LockedInRing ==
    /\ \A b \in Bufs : is_lock[b] => Writing(b) \/ \E i \in Slots : desc[i] = b
    /\ \A i, j \in Slots :
         desc[i] \in Bufs \ late =>
             is_lock[desc[i]] /\ (desc[i] = desc[j] => i = j)

(* The descriptor that sendTxEthFrame writes is empty until it does: the   *)
(* ring overwrites no pointer that is still needed to unlock its block.    *)
NextIsEmpty == desc[produce] # NoBuf => \E t \in Tasks : pc[t] = "hand"

(* alloc hands a block to one task at a time, and release finds its        *)
(* reference count positive (the assertion in release), except for blocks  *)
(* that were in use when the device was started (NyLPC_cEthernetMM.c).     *)
OneHolder ==
    \A t \in Tasks : \A b \in held[t] \ orphans :
        ref[b] = 1 /\ \A u \in Tasks : b \in held[u] => u = t

(* Slots handed over that the device has not consumed. *)
Pending ==
    {i \in Slots : IF consume <= produce THEN consume <= i /\ i < produce
                   ELSE consume <= i \/ i < produce}

(* alloc returns no block that is being transmitted ("neither referenced   *)
(* nor being sent" in alloc): the device still reads it.                   *)
AllocNotInFlight ==
    [][\A i \in Pending : frame[i] # NoBuf => ref'[frame[i]] <= ref[frame[i]]]_ethVars

(* "This function always succeeds": a task that waits in allocSysTxBuf,    *)
(* with the mutex held, gets its block.                                    *)
SysAllocReturns == \A t \in Tasks : pc[t] = "spin" ~> pc[t] # "spin"

(* A call of sendTxEthFrame returns the mutex while the device is enabled. *)
SendReturns ==
    \A t \in Tasks : pc[t] = "full" ~> pc[t] = "idle" \/ enabled # "on"
=============================================================================
