------------------------------- MODULE SnicApi -------------------------------
(***************************************************************************)
(* Commands to the SNIC module and their answers: NyLPC_cSnicApi.c,        *)
(* NyLPC_cSnicWifi.c, NyLPC_cSnicGeneral.c, the table of waiting objects   *)
(* NyLPC_cIdPtrTable.c, and how NyLPC_cSnicNetIf.c frames a message.       *)
(*                                                                         *)
(* A task calls a command of an instance (general, wifi or api: there is   *)
(* one of each, which every task is handed), registers the instance under  *)
(* a new sequence number, sends the command and spins                      *)
(* on _signal; the message task finds the instance by the number in the    *)
(* answer, stores the result and sets _signal.  The message task has the   *)
(* higher priority (PRIORITY_SERVICE): it is interrupted only where it     *)
(* waits for bytes of a frame.                                             *)
(***************************************************************************)
EXTENDS Integers, FiniteSets, FiniteSetsExt

CONSTANTS
    NUMBER_OF_ITEM,
    IdMod,          \* sequence numbers are 1 .. IdMod (255)
    Tasks, NoTask,
    Objects, NULL,  \* the instances
    Cmds,           \* an instance's commands that clear _signal before they send
    RawCmds,        \* its others: api's sendFromSocket, sendUdpPacketFromSocket,
                    \* setSocketOption
    StrayIds        \* numbers in answers no one waits for (sysCloseSocket: 0,
                    \* sendIndicateConfirm: any)

Items   == 1 .. NUMBER_OF_ITEM
Ids     == 0 .. IdMod
AllCmds == UNION {Cmds[o] \cup RawCmds[o] : o \in Objects}

ASSUME ApiAssumption ==
    /\ NUMBER_OF_ITEM \in Nat \ {0} /\ IdMod \in Nat \ {0}
    /\ NoTask \notin Tasks /\ NULL \notin Objects
    /\ NULL \notin AllCmds /\ StrayIds \subseteq Ids

VARIABLES
    id, obj, locked, counter,           \* the table
    signal, last_cmd, last_seq,         \* the instances
    mine,       \* last_status and _response are the answer to the call in progress
    pc, inst, cmd, seq, item,           \* the calls: step, arguments, item to remove
    mutex, txbuf, hdr,                  \* the frame being sent
    asked,                              \* commands the module has not yet answered
    fault,      \* a frame was spoilt, or the serial line lost an answer
    hpc, hinst, ans,                    \* the message task: step, instance, answer
    mixed       \* history: an instance, or a number, was used twice at a time

table    == <<id, obj, locked, counter>>
instance == <<signal, last_cmd, last_seq, mine>>
tx       == <<mutex, txbuf, hdr, fault>>
handler  == <<hpc, hinst, ans>>
call     == <<inst, cmd, seq>>
apiVars  == <<table, instance, pc, call, item, tx, asked, handler, mixed>>

Request == [task : Tasks, cmd : AllCmds, id : Ids, fresh : BOOLEAN]
NoRequest == [task |-> NoTask, cmd |-> NULL, id |-> 0, fresh |-> FALSE]
Stray(n)  == [NoRequest EXCEPT !.id = n]
Tail      == "checksum and EOM"

ApiInit ==
    /\ id = [i \in Items |-> 0] /\ obj = [i \in Items |-> NULL]
    /\ locked = [i \in Items |-> FALSE] /\ counter = 0
    /\ signal = [o \in Objects |-> FALSE]
    /\ last_cmd = [o \in Objects |-> NULL]
    /\ last_seq = [o \in Objects |-> 0]
    /\ mine = [o \in Objects |-> FALSE]
    /\ pc = [t \in Tasks |-> "idle"]
    /\ inst = [t \in Tasks |-> NULL]
    /\ cmd = [t \in Tasks |-> NULL]
    /\ seq = [t \in Tasks |-> 0]
    /\ item = [t \in Tasks |-> 0]
    /\ mutex = NoTask /\ txbuf = NoTask
    /\ hdr = [t \in Tasks |-> NoTask]
    /\ asked = {} /\ fault = "none"
    /\ hpc = "idle" /\ hinst = NULL /\ ans = NoRequest
    /\ mixed = FALSE

Goto(t, l) == pc' = [pc EXCEPT ![t] = l]

-----------------------------------------------------------------------------
(* NyLPC_cIdPtrTable *)

First(S) == IF S = {} THEN 0 ELSE Min(S)

obj2Item(o) == First({i \in Items : obj[i] = o})

id2Item(n) == First({i \in Items : id[i] = n})

(* The item of a new call; its lock, which a late answer may have left, is  *)
(* cleared.                                                                *)
addItem(i, o) ==
    /\ id' = [id EXCEPT ![i] = counter + 1]
    /\ obj' = [obj EXCEPT ![i] = o]
    /\ locked' = [locked EXCEPT ![i] = FALSE]
    /\ counter' = (counter + 1) % IdMod

(* The item of the answer is locked even if its object is gone. *)
getPtrByIdWithLock(n) ==
    LET i == id2Item(n) IN
    IF i = 0
      THEN UNCHANGED locked /\ hinst' = NULL
      ELSE locked' = [locked EXCEPT ![i] = TRUE] /\ hinst' = obj[i]

(* Mutant: an item is released only when it is the first of the table. *)
unLockPtrFirst(o) == locked' = [locked EXCEPT ![1] = @ /\ obj[1] # o]

unLockPtr(o) ==
    LET i == obj2Item(o) IN
    locked' = IF i = 0 THEN locked ELSE [locked EXCEPT ![i] = FALSE]

-----------------------------------------------------------------------------
(* A command *)

(* last_cmd and the place for the result are set first.  Nothing keeps two *)
(* tasks from calling commands of one instance.                            *)
Call(t, o, c) ==
    /\ pc[t] = "idle"
    /\ inst' = [inst EXCEPT ![t] = o]
    /\ cmd' = [cmd EXCEPT ![t] = c]
    /\ last_cmd' = [last_cmd EXCEPT ![o] = c]
    /\ mine' = [mine EXCEPT ![o] = FALSE]
    /\ Goto(t, "register")
    /\ mixed' = IF o \in {inst[u] : u \in Tasks} THEN TRUE ELSE mixed
    /\ UNCHANGED <<table, signal, last_seq, seq, item, tx, asked, handler>>

(* No command in progress and no answer to come has the number.            *)
NumberFree(n) ==
    /\ \A i \in Items : obj[i] # NULL => id[i] # n
    /\ \A r \in asked : r.id # n

(* regieterObject waits while all items are in use; it does not look       *)
(* whether the number is.                                                  *)
Register(t) ==
    LET o == inst[t]
        i == obj2Item(NULL) IN
    /\ pc[t] = "register" /\ i # 0
    /\ addItem(i, o)
    /\ last_seq' = [last_seq EXCEPT ![o] = counter + 1]
    /\ seq' = [seq EXCEPT ![t] = counter + 1]
    /\ Goto(t, "start")
    /\ mixed' = IF NumberFree(counter + 1) THEN mixed ELSE TRUE
    /\ UNCHANGED <<signal, last_cmd, mine, inst, cmd, item, tx, asked, handler>>

(* Mutant: no command clears the signal. *)
clearSignalNever(t) == signal

(* _signal is cleared before the frame is sent, except by three commands.  *)
clearSignal(t) ==
    IF cmd[t] \in Cmds[inst[t]] THEN [signal EXCEPT ![inst[t]] = FALSE] ELSE signal

(* startPayload fills the shared buffer before it locks the mutex ... *)
StartPayload(t) ==
    /\ pc[t] = "start"
    /\ signal' = clearSignal(t)
    /\ txbuf' = t
    /\ Goto(t, "lock")
    /\ UNCHANGED <<table, last_cmd, last_seq, mine, call, item, mutex, hdr, fault,
                   asked, handler, mixed>>

(* ... and writes it, then the payload, with the mutex locked. *)
LockAndWrite(t) ==
    /\ pc[t] = "lock" /\ mutex = NoTask
    /\ mutex' = t
    /\ hdr' = [hdr EXCEPT ![t] = txbuf]
    /\ Goto(t, "end")
    /\ UNCHANGED <<table, instance, call, item, txbuf, fault, asked, handler, mixed>>

(* endPayload uses the same buffer for the last two bytes. *)
EndPayload(t) ==
    /\ pc[t] = "end"
    /\ txbuf' = Tail
    /\ Goto(t, "write")
    /\ UNCHANGED <<table, instance, call, item, mutex, hdr, fault, asked, handler, mixed>>

(* The module understands a frame only if header and end are this frame's. *)
WriteAndUnlock(t) ==
    LET intact == hdr[t] = t /\ txbuf = Tail IN
    /\ pc[t] = "write"
    /\ mutex' = NoTask
    /\ hdr' = [hdr EXCEPT ![t] = NoTask]
    /\ asked' = IF intact
                  THEN asked \cup {[task |-> t, cmd |-> cmd[t], id |-> seq[t], fresh |-> TRUE]}
                  ELSE asked
    /\ fault' = IF intact THEN fault ELSE "frame"
    /\ Goto(t, "wait")
    /\ UNCHANGED <<table, instance, call, item, txbuf, handler, mixed>>

(* The loop around the thread's yield: no time-out. *)
WaitSignal(t) ==
    /\ pc[t] = "wait" /\ signal[inst[t]]
    /\ Goto(t, "remove")
    /\ UNCHANGED <<table, instance, call, item, tx, asked, handler, mixed>>

(* Mutant: removeItem does not wait for the message task. *)
RemoveAnyway(t, i) ==
    /\ obj' = [obj EXCEPT ![i] = NULL]
    /\ item' = [item EXCEPT ![t] = 0]
    /\ Goto(t, "done")
    /\ UNCHANGED <<id, locked, counter, instance, call, tx, asked, handler, mixed>>

Remove(t, i) ==
    /\ ~locked[i]
    /\ obj' = [obj EXCEPT ![i] = NULL]
    /\ item' = [item EXCEPT ![t] = 0]
    /\ Goto(t, "done")
    /\ UNCHANGED <<id, locked, counter, instance, call, tx, asked, handler, mixed>>

(* removeItem: the first item of the instance is removed, under the table's *)
(* mutex, if the message task has not locked it ...                        *)
RemoveItem(t) == pc[t] = "remove" /\ Remove(t, obj2Item(inst[t]))

(* ... otherwise it is remembered, the mutex given away, ... *)
RemoveFind(t) ==
    /\ pc[t] = "remove" /\ locked[obj2Item(inst[t])]
    /\ item' = [item EXCEPT ![t] = obj2Item(inst[t])]
    /\ Goto(t, "unlocked")
    /\ UNCHANGED <<table, instance, call, tx, asked, handler, mixed>>

(* ... and the item removed when the message task has released it.         *)
RemoveUnlocked(t) == pc[t] = "unlocked" /\ Remove(t, item[t])

(* The caller has the status and the result; an answer to this call that   *)
(* is still to come is a late one.                                         *)
Stale(r, t) == IF r.task = t THEN [r EXCEPT !.fresh = FALSE] ELSE r

Return(t) ==
    /\ pc[t] = "done"
    /\ asked' = {Stale(r, t) : r \in asked}
    /\ ans' = Stale(ans, t)
    /\ inst' = [inst EXCEPT ![t] = NULL]
    /\ cmd' = [cmd EXCEPT ![t] = NULL]
    /\ seq' = [seq EXCEPT ![t] = 0]
    /\ Goto(t, "idle")
    /\ UNCHANGED <<table, instance, item, tx, hpc, hinst, mixed>>

-----------------------------------------------------------------------------
(* The message task: requestHandler and the rxHandlers of wifi and general *)

(* The head of an answer: number to instance. *)
Receive(r) ==
    /\ hpc = "idle"
    /\ getPtrByIdWithLock(r.id)
    /\ IF hinst' = NULL
         THEN hpc' = "idle" /\ ans' = NoRequest
         ELSE hpc' = "check" /\ ans' = r
    /\ asked' = asked \ {r}
    /\ mixed' = IF r.task = NoTask /\ hinst' # NULL THEN TRUE ELSE mixed
    /\ UNCHANGED <<id, obj, counter, instance, pc, call, item, tx>>

(* The serial line loses it. *)
Lose(r) ==
    /\ asked' = asked \ {r}
    /\ fault' = "answer"
    /\ UNCHANGED <<table, instance, pc, call, item, mutex, txbuf, hdr, handler, mixed>>

IsAnswer(o, r) == last_seq[o] = r.id /\ last_cmd[o] = r.cmd

(* Status and result are stored if the answer is to the last command. *)
Store ==
    /\ hpc = "check"
    /\ mine' = IF IsAnswer(hinst, ans) THEN [mine EXCEPT ![hinst] = ans.fresh] ELSE mine
    /\ hpc' = "signal"
    /\ UNCHANGED <<table, signal, last_cmd, last_seq, pc, call, item, tx, asked,
                   hinst, ans, mixed>>

(* Every path, DROP_UNLOCK included, sets the signal ... *)
Signal ==
    /\ hpc = "signal"
    /\ signal' = [signal EXCEPT ![hinst] = TRUE]
    /\ hpc' = "unlock"
    /\ UNCHANGED <<table, last_cmd, last_seq, mine, pc, call, item, tx, asked,
                   hinst, ans, mixed>>

(* ... and then releases the item. *)
Unlock ==
    /\ hpc = "unlock"
    /\ unLockPtr(hinst)
    /\ hpc' = "idle" /\ hinst' = NULL /\ ans' = NoRequest
    /\ UNCHANGED <<id, obj, counter, instance, pc, call, item, tx, asked, mixed>>

Handler == Store \/ Signal \/ Unlock

CallStep(t) ==
    \/ Register(t) \/ StartPayload(t) \/ LockAndWrite(t) \/ EndPayload(t)
    \/ WriteAndUnlock(t) \/ WaitSignal(t) \/ RemoveItem(t) \/ RemoveFind(t)
    \/ RemoveUnlocked(t) \/ Return(t)

ApiNext ==
    \/ \E t \in Tasks :
         \/ CallStep(t)
         \/ \E o \in Objects : \E c \in Cmds[o] \cup RawCmds[o] : Call(t, o, c)
    \/ \E r \in asked : Receive(r) \/ Lose(r)
    \/ \E n \in StrayIds : Receive(Stray(n))
    \/ Handler

(* The tasks are scheduled and the module answers every command.           *)
ApiFairness ==
    /\ \A t \in Tasks :
         /\ WF_apiVars(CallStep(t))
         /\ SF_apiVars(\E r \in asked : r.task = t /\ Receive(r))
    /\ WF_apiVars(Handler)

ApiSpec == ApiInit /\ [][ApiNext]_apiVars
ApiFairSpec == ApiSpec /\ ApiFairness

-----------------------------------------------------------------------------
(* Properties *)

(* Type invariant of the table, the instances and the calls.               *)
ApiTypeOK ==
    /\ id \in [Items -> Ids] /\ obj \in [Items -> Objects \cup {NULL}]
    /\ locked \in [Items -> BOOLEAN] /\ counter \in 0 .. IdMod - 1
    /\ signal \in [Objects -> BOOLEAN] /\ mine \in [Objects -> BOOLEAN]
    /\ last_cmd \in [Objects -> AllCmds \cup {NULL}] /\ last_seq \in [Objects -> Ids]
    /\ pc \in [Tasks -> {"idle", "register", "start", "lock", "end", "write", "wait",
                         "remove", "unlocked", "done"}]
    /\ inst \in [Tasks -> Objects \cup {NULL}]
    /\ cmd \in [Tasks -> AllCmds \cup {NULL}] /\ seq \in [Tasks -> Ids]
    /\ item \in [Tasks -> Items \cup {0}]
    /\ mutex \in Tasks \cup {NoTask} /\ txbuf \in Tasks \cup {NoTask, Tail}
    /\ hdr \in [Tasks -> Tasks \cup {NoTask, Tail}]
    /\ asked \subseteq Request /\ fault \in {"none", "frame", "answer"}
    /\ hpc \in {"idle", "check", "signal", "unlock"}
    /\ hinst \in Objects \cup {NULL} /\ mixed \in BOOLEAN
    /\ ans \in Request \cup {NoRequest} \cup {Stray(n) : n \in StrayIds}

(* A command that waits for _signal returns with the status and result of  *)
(* its own answer: late answers to earlier commands of any task, answers   *)
(* no one waits for and items used again do not wake it up.  The code      *)
(* keeps neither two tasks from one instance nor a number in use from      *)
(* being given out again: then this is lost (mixed).                       *)
OwnAnswer ==
    ~mixed => \A t \in Tasks :
        pc[t] = "done" /\ cmd[t] \in Cmds[inst[t]] => mine[inst[t]]

(* While the message task works on an instance the instance is registered  *)
(* and locked, so that the caller, whose stack the result is written to,   *)
(* has not returned, unless an instance or a number was used twice.        *)
HandlerHolds ==
    ~mixed /\ hpc # "idle" =>
        \E i \in Items : obj[i] = hinst /\ id[i] = ans.id /\ locked[i]

(* A command that is registered comes back, if no answer is lost, no frame *)
(* is spoilt and nothing is used twice: the signal is neither missed nor   *)
(* cleared too late, and no lock is left on its item.                      *)
CallReturns ==
    \A t \in Tasks : []<>(pc[t] \in {"idle", "register"} \/ fault # "none" \/ mixed)

=============================================================================
