----------------------------- MODULE MCSnicApi -----------------------------
(* Two tasks, which share the instances.                                   *)
EXTENDS SnicApi

CONSTANTS api, wifi, t1, t2, open, join, send

MCTasks      == {t1, t2}
MCObjects    == {api, wifi}
MCCmds       == [o \in MCObjects |-> IF o = api THEN {open} ELSE {join}]
MCRawCmds    == [o \in MCObjects |-> IF o = api THEN {send} ELSE {}]
MCStray      == {0, 1}

(* Values that are written before they are read again: the lock of a free  *)
(* item and, of an instance that no task uses, all but _signal.            *)
Used(o)   == o \in {inst[t] : t \in Tasks}
LiveTable == <<id, obj, [i \in Items |-> obj[i] # NULL /\ locked[i]], counter>>
LiveInst  == <<signal, [o \in Objects |->
                 IF Used(o) THEN <<last_cmd[o], last_seq[o], mine[o]>> ELSE <<>>]>>

(* No property says anything after an instance or a number was used twice. *)
ApiView ==
    IF mixed THEN <<>> ELSE <<LiveTable, LiveInst, pc, call, item, tx, asked, handler>>
=============================================================================
