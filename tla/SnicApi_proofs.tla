---------------------------- MODULE SnicApi_proofs ----------------------------
(***************************************************************************)
(* A command gets its own answer, for every size of the table, every       *)
(* number of tasks, instances and sequence numbers, as long as no instance *)
(* and no number has been used twice at a time.                            *)
(***************************************************************************)
EXTENDS SnicApi, WellFoundedInduction, TLAPS

USE ApiAssumption

-----------------------------------------------------------------------------
(* Searching the table *)

(* A non-empty set of naturals has a least element. *)
LEMMA LeastItem ==
    ASSUME NEW T \in SUBSET Nat, T # {}
    PROVE  \E x \in T : \A y \in T : x <= y
  <1> DEFINE R == OpToRel(<, Nat)
  <1>1. PICK x \in T : \A y \in T : ~(<<y, x>> \in R)
    <2> HIDE DEF R
    <2>1. IsWellFoundedOn(R, Nat)
      BY NatLessThanWellFounded DEF R
    <2> QED
      BY <2>1, WFMin
  <1>2. \A y \in T : y < x => <<y, x>> \in R
    BY DEF OpToRel
  <1> HIDE DEF R
  <1>3. \A y \in T : ~(y < x)
    BY <1>1, <1>2
  <1>4. \A y \in T : x <= y
    BY <1>3
  <1> QED
    BY <1>4

(* A search returns an item with the value, or 0 if there is none. *)
LEMMA FirstIn ==
    ASSUME NEW S \in SUBSET Items
    PROVE  IF S = {} THEN First(S) = 0 ELSE First(S) \in S /\ First(S) # 0
  <1>1. CASE S = {}
    BY <1>1 DEF First
  <1>2. CASE S # {}
    <2>1. S \in SUBSET Nat
      BY DEF Items
    <2>2. \E x \in S : \A y \in S : x =< y
      BY <1>2, <2>1, LeastItem
    <2>3. Min(S) \in S
      BY <2>2 DEF Min
    <2> QED
      BY <1>2, <2>3 DEF First, Items
  <1> QED
    BY <1>1, <1>2

(* The search for an object. *)
LEMMA ObjItem ==
    ASSUME NEW o
    PROVE  /\ obj2Item(o) \in Items \cup {0}
           /\ obj2Item(o) # 0 => obj[obj2Item(o)] = o
           /\ (\E i \in Items : obj[i] = o) => obj2Item(o) # 0
  <1> DEFINE S == {i \in Items : obj[i] = o}
  <1>1. S \in SUBSET Items /\ obj2Item(o) = First(S)
    BY DEF obj2Item
  <1>2. \A i : i \in S <=> i \in Items /\ obj[i] = o
    OBVIOUS
  <1> HIDE DEF S
  <1> QED
    BY <1>1, <1>2, FirstIn

(* The search for a number. *)
LEMMA IdItem ==
    ASSUME NEW n
    PROVE  /\ id2Item(n) \in Items \cup {0}
           /\ id2Item(n) # 0 => id[id2Item(n)] = n
           /\ 0 \notin Items
  <1> DEFINE S == {i \in Items : id[i] = n}
  <1>1. S \in SUBSET Items /\ id2Item(n) = First(S)
    BY DEF id2Item
  <1>2. \A i : i \in S <=> i \in Items /\ id[i] = n
    OBVIOUS
  <1>3. 0 \notin Items
    BY DEF Items
  <1> HIDE DEF S
  <1> QED
    BY <1>1, <1>2, <1>3, FirstIn

-----------------------------------------------------------------------------
(* Types *)

(* A call in progress has an instance and a command. *)
HasCommand ==
    \A t \in Tasks :
        /\ pc[t] # "idle" => inst[t] \in Objects /\ cmd[t] \in AllCmds
        /\ pc[t] = "idle" => inst[t] = NULL

(* Late answers are of the same type. *)
LEMMA StaleType ==
    ASSUME NEW t \in Tasks
    PROVE  /\ \A r \in Request : Stale(r, t) \in Request
           /\ \A n : Stale(Stray(n), t) = Stray(n)
           /\ Stale(NoRequest, t) = NoRequest
  <1>1. ASSUME NEW r \in Request PROVE Stale(r, t) \in Request
    BY <1>1 DEF Stale, Request
  <1>2. \A n : Stray(n).task = NoTask
    BY DEF Stray, NoRequest
  <1>3. NoRequest.task = NoTask
    BY DEF NoRequest
  <1> QED
    BY <1>1, <1>2, <1>3 DEF Stale

TypeInv == ApiTypeOK /\ HasCommand

(* The steps of a call keep the types. *)
LEMMA CallTypes ==
    ASSUME TypeInv, NEW t \in Tasks,
           \/ CallStep(t)
           \/ \E o \in Objects : \E c \in Cmds[o] \cup RawCmds[o] : Call(t, o, c)
    PROVE  TypeInv'
  <1> USE DEF TypeInv, ApiTypeOK, HasCommand, Goto
  <1>0. pc[t] # "idle" => inst[t] \in Objects
    OBVIOUS
  <1>1. ASSUME NEW p \in Objects, NEW c \in Cmds[p] \cup RawCmds[p], Call(t, p, c)
        PROVE  TypeInv'
    <2>1. c \in AllCmds
      BY DEF AllCmds
    <2>2. mixed' \in BOOLEAN
      BY <1>1 DEF Call
    <2>3. HasCommand'
      <3>1. \A u \in Tasks :
              /\ pc'[u] = IF u = t THEN "register" ELSE pc[u]
              /\ inst'[u] = IF u = t THEN p ELSE inst[u]
              /\ cmd'[u] = IF u = t THEN c ELSE cmd[u]
        BY <1>1 DEF Call
      <3> QED
        BY <2>1, <3>1
    <2>4. /\ inst' \in [Tasks -> Objects \cup {NULL}] /\ cmd' \in [Tasks -> AllCmds \cup {NULL}]
          /\ last_cmd' \in [Objects -> AllCmds \cup {NULL}]
      BY <1>1, <2>1 DEF Call
    <2>5. mine' \in [Objects -> BOOLEAN]
      BY <1>1 DEF Call
    <2>6. pc' \in [Tasks -> {"idle", "register", "start", "lock", "end", "write", "wait",
                              "remove", "unlocked", "done"}]
      BY <1>1 DEF Call
    <2>7. UNCHANGED <<id, obj, locked, counter, signal, last_seq, seq, item, mutex, txbuf,
                      hdr, fault, asked, hpc, hinst, ans>>
      BY <1>1 DEF Call, table, tx, handler
    <2> HIDE DEF HasCommand
    <2> QED
      BY <2>2, <2>3, <2>4, <2>5, <2>6, <2>7
  <1>2. CASE Register(t)
    <2>1. obj2Item(NULL) \in Items
      BY <1>2, ObjItem DEF Register
    <2>2. counter + 1 \in Ids /\ (counter + 1) % IdMod \in 0 .. IdMod - 1
      BY DEF Ids
    <2>3. mixed' \in BOOLEAN
      BY <1>2 DEF Register
    <2>o. inst[t] \in Objects
      BY <1>0, <1>2 DEF Register
    <2>4. /\ id' \in [Items -> Ids] /\ obj' \in [Items -> Objects \cup {NULL}]
          /\ counter' \in 0 .. IdMod - 1
      BY <1>2, <2>1, <2>2, <2>o DEF Register, addItem
    <2>5. locked' \in [Items -> BOOLEAN]
      BY <1>2, <2>1, Zenon DEF Register, addItem
    <2>6. last_seq' \in [Objects -> Ids] /\ seq' \in [Tasks -> Ids]
      BY <1>2, <2>2, <2>o DEF Register
    <2>7. pc' \in [Tasks -> {"idle", "register", "start", "lock", "end", "write", "wait",
                              "remove", "unlocked", "done"}]
      BY <1>2 DEF Register
    <2>8. UNCHANGED <<signal, last_cmd, mine, inst, cmd, item, mutex, txbuf, hdr, fault, asked,
                      hpc, hinst, ans>>
      BY <1>2 DEF Register, tx, handler
    <2>9. HasCommand'
      <3>1. \A u \in Tasks : pc'[u] = "idle" <=> pc[u] = "idle"
        BY <1>2 DEF Register
      <3> QED
        BY <2>8, <3>1
    <2> HIDE DEF HasCommand
    <2> QED
      BY <2>3, <2>4, <2>5, <2>6, <2>7, <2>8, <2>9
  <1>3. CASE StartPayload(t)
    <2>1. signal' \in [Objects -> BOOLEAN]
      BY <1>3 DEF StartPayload, clearSignal
    <2> QED
      BY <1>3, <2>1 DEF StartPayload, call, table, handler
  <1>4. CASE LockAndWrite(t)
    BY <1>4 DEF LockAndWrite, call, table, instance, handler
  <1>5. CASE EndPayload(t)
    BY <1>5 DEF EndPayload, call, table, instance, handler
  <1>6. CASE WriteAndUnlock(t)
    <2>1. cmd[t] \in AllCmds /\ seq[t] \in Ids
      BY <1>6 DEF WriteAndUnlock
    <2>2. [task |-> t, cmd |-> cmd[t], id |-> seq[t], fresh |-> TRUE] \in Request
      BY <2>1 DEF Request
    <2>3. asked' \subseteq Request
      BY <1>6, <2>2 DEF WriteAndUnlock
    <2> QED
      BY <1>6, <2>3 DEF WriteAndUnlock, call, table, instance, handler
  <1>7. CASE WaitSignal(t)
    BY <1>7 DEF WaitSignal, call, table, instance, tx, handler
  <1>8. CASE RemoveFind(t)
    <2>1. obj2Item(inst[t]) \in Items \cup {0}
      BY ObjItem
    <2> QED
      BY <1>8, <2>1 DEF RemoveFind, table, instance, call, tx, handler
  <1>9. CASE RemoveItem(t) \/ RemoveUnlocked(t)
    <2>1. PICK i : pc[t] # "idle" /\ Remove(t, i)
      BY <1>9 DEF RemoveItem, RemoveUnlocked
    <2> QED
      BY <2>1, ZenonT(60) DEF Remove, instance, call, tx, handler
  <1>10. CASE Return(t)
    <2>1. asked' \subseteq Request
      <3> SUFFICES ASSUME NEW q \in asked' PROVE q \in Request
        OBVIOUS
      <3>1. PICK r \in asked : q = Stale(r, t)
        BY <1>10 DEF Return
      <3> QED
        BY <3>1, StaleType
    <2>2. ans' \in Request \cup {NoRequest} \cup {Stray(n) : n \in StrayIds}
      <3>1. ans' = Stale(ans, t)
        BY <1>10 DEF Return
      <3>2. CASE ans \in Request
        BY <3>1, <3>2, StaleType
      <3>3. CASE ans = NoRequest
        BY <3>1, <3>3, StaleType
      <3>4. CASE \E n \in StrayIds : ans = Stray(n)
        BY <3>1, <3>4, StaleType
      <3> QED
        BY <3>2, <3>3, <3>4
    <2>3. 0 \in Ids
      BY DEF Ids
    <2> QED
      BY <1>10, <2>1, <2>2, <2>3 DEF Return, table, instance, tx
  <1> QED
    BY <1>1, <1>2, <1>3, <1>4, <1>5, <1>6, <1>7, <1>8, <1>9, <1>10 DEF CallStep

(* So do those of the message task. *)
LEMMA HandlerTypes ==
    ASSUME TypeInv,
           \/ \E r \in asked : Receive(r) \/ Lose(r)
           \/ \E n \in StrayIds : Receive(Stray(n))
           \/ Handler
    PROVE  TypeInv'
  <1> USE DEF TypeInv, ApiTypeOK, HasCommand
  <1>1. ASSUME NEW r, Receive(r), r \in asked \/ \E n \in StrayIds : r = Stray(n)
        PROVE  TypeInv'
    <2>1. id2Item(r.id) \in Items \cup {0}
      BY IdItem
    <2>2. locked' \in [Items -> BOOLEAN] /\ hinst' \in Objects \cup {NULL}
      <3> DEFINE i == id2Item(r.id)
      <3>1. /\ i = 0 => locked' = locked /\ hinst' = NULL
            /\ i # 0 => locked' = [locked EXCEPT ![i] = TRUE] /\ hinst' = obj[i]
        BY <1>1 DEF Receive, getPtrByIdWithLock
      <3> HIDE DEF i
      <3>2. i \in Items \cup {0}
        BY <2>1 DEF i
      <3>3. obj \in [Items -> Objects \cup {NULL}] /\ locked \in [Items -> BOOLEAN]
        OBVIOUS
      <3>4. CASE i = 0
        BY <3>1, <3>3, <3>4
      <3>5. CASE i # 0
        <4>1. i \in Items
          BY <3>2, <3>5
        <4>2. hinst' \in Objects \cup {NULL}
          BY <3>1, <3>3, <3>5, <4>1
        <4>3. locked' \in [Items -> BOOLEAN]
          BY <3>1, <3>3, <3>5, <4>1
        <4> QED
          BY <4>2, <4>3
      <3> QED
        BY <3>4, <3>5
    <2>3. ans' \in Request \cup {NoRequest} \cup {Stray(n) : n \in StrayIds}
      BY <1>1 DEF Receive
    <2>4. mixed' \in BOOLEAN
      BY <1>1 DEF Receive
    <2> QED
      BY <1>1, <2>2, <2>3, <2>4 DEF Receive, instance, call, tx
  <1>2. ASSUME NEW r \in asked, Lose(r)
        PROVE  TypeInv'
    BY <1>2 DEF Lose, call, table, instance, handler
  <1>3. CASE Store
    <2>1. ans.fresh \in BOOLEAN
      <3>1. CASE ans \in Request
        BY <3>1 DEF Request
      <3>2. CASE ans = NoRequest
        BY <3>2, Zenon DEF NoRequest
      <3>3. ASSUME NEW n \in StrayIds, ans = Stray(n) PROVE ans.fresh \in BOOLEAN
        <4>1. Stray(n).fresh = NoRequest.fresh
          BY DEF Stray, NoRequest
        <4>2. NoRequest.fresh \in BOOLEAN
          BY Zenon DEF NoRequest
        <4> QED
          BY <3>3, <4>1, <4>2
      <3> QED
        BY <3>1, <3>2, <3>3
    <2>2. mine' \in [Objects -> BOOLEAN]
      <3>1. mine' = mine \/ mine' = [mine EXCEPT ![hinst] = ans.fresh]
        BY <1>3 DEF Store
      <3> QED
        BY <2>1, <3>1
    <2> QED
      BY <1>3, <2>2 DEF Store, call, table, tx
  <1>4. CASE Signal
    BY <1>4 DEF Signal, call, table, tx
  <1>5. CASE Unlock
    <2>1. locked' \in [Items -> BOOLEAN]
      BY <1>5 DEF Unlock, unLockPtr
    <2> QED
      BY <1>5, <2>1 DEF Unlock, call, instance, tx
  <1> QED
    BY <1>1, <1>2, <1>3, <1>4, <1>5 DEF Handler

(* The initial state. *)
LEMMA InitTypes == ApiInit => TypeInv
  <1>1. ApiInit => mixed \in BOOLEAN
    BY Zenon DEF ApiInit
  <1>2. ApiInit => HasCommand
    BY DEF ApiInit, HasCommand
  <1> QED
    BY <1>1, <1>2 DEF ApiInit, TypeInv, ApiTypeOK, Ids

(* All steps together. *)
LEMMA StepTypes ==
    ASSUME TypeInv, [ApiNext]_apiVars
    PROVE  TypeInv'
  <1>1. CASE UNCHANGED apiVars
    BY <1>1 DEF apiVars, call, table, instance, tx, handler, TypeInv, ApiTypeOK, HasCommand
  <1>2. CASE ApiNext
    BY <1>2, CallTypes, HandlerTypes DEF ApiNext
  <1> QED
    BY <1>1, <1>2

(* The table, the instances and the calls keep their types.                *)
THEOREM ApiTypeCorrect == ApiSpec => []ApiTypeOK
  <1>1. TypeInv => ApiTypeOK
    BY DEF TypeInv
  <1> QED
    BY <1>1, InitTypes, StepTypes, PTL DEF ApiSpec

-----------------------------------------------------------------------------
(* What makes an answer the right one *)

Registered == {"start", "lock", "end", "write", "wait", "remove", "unlocked"}
Sent       == {"wait", "remove", "unlocked"}

(* The items in use are those of the calls in progress, each with a number *)
(* of its own.                                                             *)
ItemInv ==
    /\ \A i \in Items : obj[i] # NULL =>
         id[i] # 0 /\ \E t \in Tasks : inst[t] = obj[i] /\ pc[t] \in Registered
    /\ \A i, j \in Items : obj[i] # NULL /\ obj[j] # NULL
                           /\ (obj[i] = obj[j] \/ id[i] = id[j]) => i = j
    /\ \A t \in Tasks : pc[t] \in Registered =>
         \E i \in Items : obj[i] = inst[t] /\ id[i] = seq[t]
    /\ \A t \in Tasks : pc[t] = "unlocked" =>
         item[t] \in Items /\ obj[item[t]] = inst[t]

(* The instance of a call carries its command and number.                  *)
LastInv ==
    \A t \in Tasks :
        /\ pc[t] # "idle" => last_cmd[inst[t]] = cmd[t]
        /\ pc[t] \in Registered => last_seq[inst[t]] = seq[t]

(* A command on its way with the number of a call in progress is that      *)
(* call's.                                                                 *)
Matches(r, t) == r.task = t /\ r.cmd = cmd[t] /\ r.fresh = TRUE /\ pc[t] \in Sent

AskedInv ==
    \A r \in asked, t \in Tasks : pc[t] \in Registered /\ r.id = seq[t] => Matches(r, t)

(* The message task works on the answer of a call in progress, whose item  *)
(* it has locked.                                                          *)
HandInv ==
    /\ hpc # "idle" =>
         /\ \E t \in Tasks : hinst = inst[t] /\ ans.id = seq[t] /\ Matches(ans, t)
         /\ \E i \in Items : obj[i] = hinst /\ id[i] = ans.id /\ locked[i] = TRUE
    /\ hpc \in {"signal", "unlock"} => mine[hinst] = TRUE

(* A signal that a waiting command sees comes with its result.             *)
SignalInv ==
    \A t \in Tasks : cmd[t] \in Cmds[inst[t]] =>
        /\ pc[t] \in {"lock", "end", "write", "wait"} /\ signal[inst[t]] =>
             mine[inst[t]] = TRUE
        /\ pc[t] \in {"remove", "unlocked", "done"} => mine[inst[t]] = TRUE

(* No two tasks use one instance.                                          *)
OneEach == \A t, u \in Tasks : inst[t] = inst[u] /\ inst[t] # NULL => t = u

AnswerInv == OneEach /\ ItemInv /\ LastInv /\ AskedInv /\ HandInv /\ SignalInv

(* The steps of a call.                                                    *)
LEMMA CallAnswers ==
    ASSUME ~mixed', TypeInv, AnswerInv, NEW t \in Tasks,
           \/ CallStep(t)
           \/ \E o \in Objects : \E c \in Cmds[o] \cup RawCmds[o] : Call(t, o, c)
    PROVE  AnswerInv'
  <1> DEFINE o == inst[t]
  <1>0. ASSUME pc[t] # "idle"
        PROVE  /\ o \in Objects /\ o # NULL /\ inst \in [Tasks -> Objects \cup {NULL}]
               /\ \A u \in Tasks : u # t => inst[u] # o
    BY <1>0 DEF AnswerInv, OneEach, TypeInv, ApiTypeOK, HasCommand
  <1>00. \A u \in Tasks :
           pc[u] \in Registered => inst[u] \in Objects /\ inst[u] # NULL /\ pc[u] # "idle"
    BY DEF TypeInv, HasCommand, Registered
  <1>1. ASSUME NEW p \in Objects, NEW c \in Cmds[p] \cup RawCmds[p], Call(t, p, c)
        PROVE  AnswerInv'
    <2>1. /\ pc[t] = "idle" /\ p # NULL /\ inst[t] = NULL
          /\ \A u \in Tasks : inst[u] # p
          /\ UNCHANGED <<id, obj, locked, signal, last_seq, seq, item, asked, hpc, hinst, ans>>
      BY <1>1 DEF Call, table, handler, TypeInv, HasCommand
    <2>2. \A u \in Tasks :
            /\ pc'[u] = IF u = t THEN "register" ELSE pc[u]
            /\ inst'[u] = IF u = t THEN p ELSE inst[u]
            /\ cmd'[u] = IF u = t THEN c ELSE cmd[u]
      BY <1>1 DEF Call, Goto, TypeInv, ApiTypeOK
    <2>3. \A q \in Objects :
            /\ last_cmd'[q] = IF q = p THEN c ELSE last_cmd[q]
            /\ mine'[q] = IF q = p THEN FALSE ELSE mine[q]
      BY <1>1 DEF Call, TypeInv, ApiTypeOK
    <2>4. \A u \in Tasks : pc[u] # "idle" => inst[u] \in Objects /\ inst[u] # p /\ u # t
      BY <2>1 DEF TypeInv, HasCommand
    <2>5. OneEach'
      BY <2>1, <2>2 DEF AnswerInv, OneEach
    <2>6. ItemInv'
      BY <2>1, <2>2, <2>4, <1>00 DEF AnswerInv, ItemInv, Registered
    <2>7. LastInv'
      <3>1. \A u \in Tasks : u # t /\ pc[u] # "idle" =>
              last_cmd'[inst[u]] = last_cmd[inst[u]]
        BY <2>3, <2>4
      <3>2. last_cmd'[p] = c
        BY <2>3
      <3> QED
        BY <2>1, <2>2, <3>1, <3>2 DEF AnswerInv, LastInv, Registered
    <2>8. AskedInv'
      BY <2>1, <2>2, <2>4 DEF AnswerInv, AskedInv, Matches, Registered, Sent
    <2>9. HandInv'
      <3> SUFFICES ASSUME hpc # "idle" PROVE HandInv'
        BY <2>1 DEF HandInv
      <3>1. PICK u \in Tasks : hinst = inst[u] /\ ans.id = seq[u] /\ Matches(ans, u)
        BY DEF AnswerInv, HandInv
      <3>2. pc[u] # "idle"
        BY <3>1 DEF Matches, Sent
      <3>3. hinst' = inst'[u] /\ ans'.id = seq'[u] /\ Matches(ans, u)' /\ mine'[hinst] = mine[hinst]
        BY <2>1, <2>2, <2>3, <2>4, <3>1, <3>2 DEF Matches
      <3> QED
        BY <2>1, <3>3 DEF AnswerInv, HandInv
    <2>10. SignalInv'
      <3>1. \A u \in Tasks : u # t /\ pc[u] # "idle" => mine'[inst[u]] = mine[inst[u]]
        BY <2>3, <2>4
      <3> QED
        BY <2>1, <2>2, <3>1 DEF AnswerInv, SignalInv
    <2> QED
      BY <2>5, <2>6, <2>7, <2>8, <2>9, <2>10 DEF AnswerInv
  <1>2. CASE Register(t)
    <2> DEFINE n == counter + 1
               k == obj2Item(NULL)
    <2>1. k \in Items /\ obj[k] = NULL
      BY <1>2, ObjItem DEF Register
    <2>2. n \in Ids /\ n # 0 /\ NumberFree(n) /\ pc[t] # "idle"
      BY <1>2 DEF Register, Ids, TypeInv, ApiTypeOK
    <2>3. /\ pc[t] = "register" /\ pc' = [pc EXCEPT ![t] = "start"]
          /\ id' = [id EXCEPT ![k] = n] /\ obj' = [obj EXCEPT ![k] = o]
          /\ locked' = [locked EXCEPT ![k] = FALSE]
          /\ last_seq' = [last_seq EXCEPT ![o] = n] /\ seq' = [seq EXCEPT ![t] = n]
          /\ UNCHANGED <<signal, last_cmd, mine, inst, cmd, item, asked, hpc, hinst, ans>>
      BY <1>2 DEF Register, addItem, Goto, handler
    <2> HIDE DEF n, k
    <2>4. \A i \in Items : obj[i] # o
      BY <1>0, <2>3 DEF AnswerInv, ItemInv, Registered
    <2> USE <1>0, <2>1, <2>2, <2>3, <2>4
    <2>5. ItemInv'
      <3>1. \A i \in Items :
              /\ obj'[i] = IF i = k THEN o ELSE obj[i]
              /\ id'[i] = IF i = k THEN n ELSE id[i]
        BY DEF TypeInv, ApiTypeOK
      <3>2. \A u \in Tasks :
              /\ pc'[u] = IF u = t THEN "start" ELSE pc[u]
              /\ seq'[u] = IF u = t THEN n ELSE seq[u]
        BY DEF TypeInv, ApiTypeOK
      <3>3. \A i \in Items : obj[i] # NULL => id[i] # n
        BY DEF NumberFree
      <3>4. \A i \in Items : obj'[i] # NULL =>
              id'[i] # 0 /\ \E u \in Tasks : inst'[u] = obj'[i] /\ pc'[u] \in Registered
        BY <3>1, <3>2 DEF AnswerInv, ItemInv, Registered
      <3>5. \A i, j \in Items : obj'[i] # NULL /\ obj'[j] # NULL
                                /\ (obj'[i] = obj'[j] \/ id'[i] = id'[j]) => i = j
        BY <3>1, <3>3 DEF AnswerInv, ItemInv
      <3>6. \A u \in Tasks : pc'[u] \in Registered =>
              \E i \in Items : obj'[i] = inst'[u] /\ id'[i] = seq'[u]
        BY <1>00, <3>1, <3>2 DEF AnswerInv, ItemInv
      <3>7. \A u \in Tasks : pc'[u] = "unlocked" =>
              item'[u] \in Items /\ obj'[item'[u]] = inst'[u]
        BY <1>00, <3>1, <3>2 DEF AnswerInv, ItemInv, Registered
      <3> QED
        BY <3>4, <3>5, <3>6, <3>7 DEF ItemInv
    <2>6. LastInv'
      BY DEF AnswerInv, LastInv, TypeInv, ApiTypeOK, Registered
    <2>7. AskedInv'
      BY DEF AnswerInv, AskedInv, Matches, TypeInv, ApiTypeOK, NumberFree, Sent
    <2>8. HandInv'
      <3> SUFFICES ASSUME hpc # "idle" PROVE HandInv'
        BY DEF HandInv
      <3>1. PICK u \in Tasks : hinst = inst[u] /\ ans.id = seq[u] /\ Matches(ans, u)
        BY DEF AnswerInv, HandInv
      <3>2. u # t /\ hinst # NULL
        BY <1>00, <3>1 DEF Matches, Sent, Registered
      <3>3. hinst' = inst'[u] /\ ans'.id = seq'[u] /\ Matches(ans, u)'
        BY <3>1, <3>2 DEF Matches, TypeInv, ApiTypeOK
      <3>4. PICK i \in Items : obj[i] = hinst /\ id[i] = ans.id /\ locked[i] = TRUE
        BY DEF AnswerInv, HandInv
      <3>5. i # k /\ obj'[i] = hinst /\ id'[i] = ans.id /\ locked'[i] = TRUE
        BY <3>2, <3>4 DEF TypeInv, ApiTypeOK
      <3> QED
        BY <3>3, <3>5 DEF AnswerInv, HandInv
    <2>9. SignalInv'
      BY DEF AnswerInv, SignalInv, TypeInv, ApiTypeOK
    <2>10. OneEach'
      BY <2>3 DEF AnswerInv, OneEach
    <2> QED
      BY <2>5, <2>6, <2>7, <2>8, <2>9, <2>10 DEF AnswerInv
  <1>3. CASE StartPayload(t)
    <2>1. /\ pc[t] = "start" /\ pc' = [pc EXCEPT ![t] = "lock"]
          /\ signal' = IF cmd[t] \in Cmds[o] THEN [signal EXCEPT ![o] = FALSE] ELSE signal
          /\ UNCHANGED <<id, obj, locked, last_cmd, last_seq, mine, inst, cmd, seq, item, asked,
                         hpc, hinst, ans>>
      BY <1>3 DEF StartPayload, clearSignal, Goto, call, table, handler
    <2> USE <1>0, <2>1
    <2>2. ItemInv'
      BY DEF AnswerInv, ItemInv, TypeInv, ApiTypeOK, Registered
    <2>3. LastInv'
      BY DEF AnswerInv, LastInv, TypeInv, ApiTypeOK, Registered
    <2>4. AskedInv'
      BY DEF AnswerInv, AskedInv, Matches, TypeInv, ApiTypeOK, Registered, Sent
    <2>5. HandInv'
      BY DEF AnswerInv, HandInv, Matches, TypeInv, ApiTypeOK, Sent
    <2>6. SignalInv'
      <3>1. \A u \in Tasks : u # t /\ pc[u] # "idle" => signal'[inst[u]] = signal[inst[u]]
        BY DEF TypeInv, ApiTypeOK, HasCommand
      <3>2. cmd[t] \in Cmds[o] => ~signal'[o]
        BY DEF TypeInv, ApiTypeOK
      <3>3. \A u \in Tasks : pc'[u] = IF u = t THEN "lock" ELSE pc[u]
        BY DEF TypeInv, ApiTypeOK
      <3> QED
        BY <3>1, <3>2, <3>3 DEF AnswerInv, SignalInv
    <2>7. OneEach'
      BY <2>1 DEF AnswerInv, OneEach
    <2> QED
      BY <2>2, <2>3, <2>4, <2>5, <2>6, <2>7 DEF AnswerInv
  <1>4. CASE LockAndWrite(t) \/ EndPayload(t)
    <2>1. /\ \/ pc[t] = "lock" /\ pc' = [pc EXCEPT ![t] = "end"]
             \/ pc[t] = "end" /\ pc' = [pc EXCEPT ![t] = "write"]
          /\ UNCHANGED <<id, obj, locked, signal, last_cmd, last_seq, mine, inst, cmd, seq, item,
                         asked, hpc, hinst, ans>>
      BY <1>4 DEF LockAndWrite, EndPayload, Goto, call, table, instance, handler
    <2> USE <1>0, <2>1
    <2>2. ItemInv'
      BY SMTT(30) DEF AnswerInv, ItemInv, TypeInv, ApiTypeOK, Registered
    <2>3. LastInv'
      BY DEF AnswerInv, LastInv, TypeInv, ApiTypeOK, Registered
    <2>4. AskedInv'
      BY DEF AnswerInv, AskedInv, Matches, TypeInv, ApiTypeOK, Registered, Sent
    <2>5. HandInv'
      BY DEF AnswerInv, HandInv, Matches, TypeInv, ApiTypeOK, Sent
    <2>6. SignalInv'
      BY DEF AnswerInv, SignalInv, TypeInv, ApiTypeOK
    <2>7. OneEach'
      BY <2>1 DEF AnswerInv, OneEach
    <2> QED
      BY <2>2, <2>3, <2>4, <2>5, <2>6, <2>7 DEF AnswerInv
  <1>5. CASE WriteAndUnlock(t)
    <2> DEFINE q == [task |-> t, cmd |-> cmd[t], id |-> seq[t], fresh |-> TRUE]
    <2>1. /\ pc[t] = "write" /\ pc' = [pc EXCEPT ![t] = "wait"]
          /\ asked' \subseteq asked \cup {q}
          /\ UNCHANGED <<id, obj, locked, signal, last_cmd, last_seq, mine, inst, cmd, seq, item,
                         hpc, hinst, ans>>
      BY <1>5 DEF WriteAndUnlock, Goto, call, table, instance, handler
    <2> USE <1>0, <2>1
    <2>2. ItemInv'
      BY DEF AnswerInv, ItemInv, TypeInv, ApiTypeOK, Registered
    <2>3. LastInv'
      BY DEF AnswerInv, LastInv, TypeInv, ApiTypeOK, Registered
    <2>4. AskedInv'
      <3> SUFFICES ASSUME NEW r \in asked', NEW u \in Tasks, pc'[u] \in Registered,
                          r.id = seq'[u]
                   PROVE  Matches(r, u)'
        BY DEF AskedInv
      <3>1. \A v \in Tasks : pc'[v] = IF v = t THEN "wait" ELSE pc[v]
        BY DEF TypeInv, ApiTypeOK
      <3>2. pc[u] \in Registered
        BY <3>1 DEF Registered
      <3>3. CASE r \in asked
        BY <3>1, <3>2, <3>3 DEF AnswerInv, AskedInv, Matches, Sent
      <3>4. CASE r = q
        <4>1. seq[t] = seq[u]
          BY <3>4
        <4>2. pc[t] \in Registered
          BY DEF Registered
        <4>3. PICK i \in Items : obj[i] = o /\ id[i] = seq[t]
          BY <4>2 DEF AnswerInv, ItemInv
        <4>4. PICK j \in Items : obj[j] = inst[u] /\ id[j] = seq[u]
          BY <3>2 DEF AnswerInv, ItemInv
        <4>5. i = j
          BY <1>00, <3>2, <4>1, <4>3, <4>4 DEF AnswerInv, ItemInv
        <4>6. u = t
          BY <4>3, <4>4, <4>5
        <4> QED
          BY <3>1, <3>4, <4>6 DEF Matches, Sent
      <3> QED
        BY <3>3, <3>4
    <2>5. HandInv'
      BY DEF AnswerInv, HandInv, Matches, TypeInv, ApiTypeOK, Sent
    <2>6. SignalInv'
      BY DEF AnswerInv, SignalInv, TypeInv, ApiTypeOK
    <2>7. OneEach'
      BY <2>1 DEF AnswerInv, OneEach
    <2> QED
      BY <2>2, <2>3, <2>4, <2>5, <2>6, <2>7 DEF AnswerInv
  <1>6. CASE WaitSignal(t)
    <2>1. /\ pc[t] = "wait" /\ signal[o] /\ pc' = [pc EXCEPT ![t] = "remove"]
          /\ UNCHANGED <<id, obj, locked, signal, last_cmd, last_seq, mine, inst, cmd, seq, item,
                         asked, hpc, hinst, ans>>
      BY <1>6 DEF WaitSignal, Goto, call, table, instance, handler
    <2> USE <1>0, <2>1
    <2>2. ItemInv'
      BY DEF AnswerInv, ItemInv, TypeInv, ApiTypeOK, Registered
    <2>3. LastInv'
      BY DEF AnswerInv, LastInv, TypeInv, ApiTypeOK, Registered
    <2>4. AskedInv'
      BY DEF AnswerInv, AskedInv, Matches, TypeInv, ApiTypeOK, Registered, Sent
    <2>5. HandInv'
      BY DEF AnswerInv, HandInv, Matches, TypeInv, ApiTypeOK, Sent
    <2>6. SignalInv'
      BY DEF AnswerInv, SignalInv, TypeInv, ApiTypeOK
    <2>7. OneEach'
      BY <2>1 DEF AnswerInv, OneEach
    <2> QED
      BY <2>2, <2>3, <2>4, <2>5, <2>6, <2>7 DEF AnswerInv
  <1>7. CASE RemoveFind(t)
    <2>1. /\ pc[t] = "remove" /\ pc' = [pc EXCEPT ![t] = "unlocked"]
          /\ item' = [item EXCEPT ![t] = obj2Item(o)]
          /\ UNCHANGED <<id, obj, locked, signal, last_cmd, last_seq, mine, inst, cmd, seq,
                         asked, hpc, hinst, ans>>
      BY <1>7 DEF RemoveFind, Goto, call, table, instance, handler
    <2>2. obj2Item(o) \in Items /\ obj[obj2Item(o)] = o
      <3>1. pc[t] \in Registered
        BY <2>1 DEF Registered
      <3>2. \E i \in Items : obj[i] = o
        BY <3>1 DEF AnswerInv, ItemInv
      <3> QED
        BY <3>2, ObjItem
    <2> USE <1>0, <2>1, <2>2
    <2>3. ItemInv'
      BY DEF AnswerInv, ItemInv, TypeInv, ApiTypeOK, Registered
    <2>4. LastInv'
      BY DEF AnswerInv, LastInv, TypeInv, ApiTypeOK, Registered
    <2>5. AskedInv'
      BY DEF AnswerInv, AskedInv, Matches, TypeInv, ApiTypeOK, Registered, Sent
    <2>6. HandInv'
      BY DEF AnswerInv, HandInv, Matches, TypeInv, ApiTypeOK, Sent
    <2>7. SignalInv'
      BY DEF AnswerInv, SignalInv, TypeInv, ApiTypeOK
    <2>8. OneEach'
      BY <2>1 DEF AnswerInv, OneEach
    <2> QED
      BY <2>3, <2>4, <2>5, <2>6, <2>7, <2>8 DEF AnswerInv
  <1>8. CASE RemoveItem(t) \/ RemoveUnlocked(t)
    <2> DEFINE k == IF pc[t] = "remove" THEN obj2Item(o) ELSE item[t]
    <2>1. /\ pc[t] \in {"remove", "unlocked"} /\ ~locked[k] /\ pc' = [pc EXCEPT ![t] = "done"]
          /\ obj' = [obj EXCEPT ![k] = NULL] /\ item' = [item EXCEPT ![t] = 0]
          /\ UNCHANGED <<id, locked, signal, last_cmd, last_seq, mine, inst, cmd, seq,
                         asked, hpc, hinst, ans>>
      BY <1>8 DEF RemoveItem, RemoveUnlocked, Remove, Goto, call, instance, handler
    <2>2. k \in Items /\ obj[k] = o
      <3>1. CASE pc[t] = "unlocked"
        BY <3>1 DEF AnswerInv, ItemInv
      <3>2. CASE pc[t] = "remove"
        <4>1. \E i \in Items : obj[i] = o
          BY <3>2 DEF AnswerInv, ItemInv, Registered
        <4> QED
          BY <3>2, <4>1, ObjItem
      <3> QED
        BY <2>1, <3>1, <3>2
    <2>3. \A i \in Items : obj'[i] = IF i = k THEN NULL ELSE obj[i]
      BY <2>1, <2>2 DEF TypeInv, ApiTypeOK
    <2>4. \A u \in Tasks :
            /\ pc'[u] = IF u = t THEN "done" ELSE pc[u]
            /\ item'[u] = IF u = t THEN 0 ELSE item[u]
      BY <2>1 DEF TypeInv, ApiTypeOK
    <2>5. hpc # "idle" => hinst # o
      <3> SUFFICES ASSUME hpc # "idle", hinst = o PROVE FALSE
        OBVIOUS
      <3>1. PICK i \in Items : obj[i] = hinst /\ locked[i] = TRUE
        BY DEF AnswerInv, HandInv
      <3>2. i = k
        BY <1>0, <2>1, <2>2, <3>1 DEF AnswerInv, ItemInv
      <3> QED
        BY <2>1, <3>1, <3>2
    <2> HIDE DEF k
    <2> USE <1>0, <2>2, <2>3, <2>4, <2>5
    <2>6. ItemInv'
      <3>1. \A i \in Items : obj'[i] # NULL =>
              id'[i] # 0 /\ \E u \in Tasks : inst'[u] = obj'[i] /\ pc'[u] \in Registered
        <4> SUFFICES ASSUME NEW i \in Items, obj'[i] # NULL
                     PROVE  /\ id'[i] # 0
                            /\ \E u \in Tasks : inst'[u] = obj'[i] /\ pc'[u] \in Registered
          OBVIOUS
        <4>1. i # k /\ obj'[i] = obj[i] /\ obj[i] # NULL /\ id'[i] = id[i]
          BY <2>1
        <4>2. PICK u \in Tasks : inst[u] = obj[i] /\ pc[u] \in Registered
          BY <4>1 DEF AnswerInv, ItemInv
        <4>3. u # t
          BY <4>1, <4>2 DEF AnswerInv, ItemInv
        <4> QED
          BY <2>1, <4>1, <4>2, <4>3 DEF AnswerInv, ItemInv
      <3>2. \A i, j \in Items : obj'[i] # NULL /\ obj'[j] # NULL
                                /\ (obj'[i] = obj'[j] \/ id'[i] = id'[j]) => i = j
        BY <2>1 DEF AnswerInv, ItemInv
      <3>3. \A u \in Tasks : pc'[u] \in Registered =>
              \E i \in Items : obj'[i] = inst'[u] /\ id'[i] = seq'[u]
        BY <1>00, <2>1 DEF AnswerInv, ItemInv, Registered
      <3>4. \A u \in Tasks : pc'[u] = "unlocked" =>
              item'[u] \in Items /\ obj'[item'[u]] = inst'[u]
        BY <1>00, <2>1 DEF AnswerInv, ItemInv, Registered
      <3> QED
        BY <3>1, <3>2, <3>3, <3>4 DEF ItemInv
    <2>7. LastInv'
      BY <2>1 DEF AnswerInv, LastInv, Registered
    <2>8. AskedInv'
      BY <2>1 DEF AnswerInv, AskedInv, Matches, Registered, Sent
    <2>9. HandInv'
      <3> SUFFICES ASSUME hpc # "idle" PROVE HandInv'
        BY <2>1 DEF HandInv
      <3>1. PICK u \in Tasks : hinst = inst[u] /\ ans.id = seq[u] /\ Matches(ans, u)
        BY DEF AnswerInv, HandInv
      <3>2. u # t
        BY <3>1
      <3>3. Matches(ans, u)'
        BY <2>1, <3>1, <3>2 DEF Matches
      <3>4. PICK i \in Items : obj[i] = hinst /\ id[i] = ans.id /\ locked[i] = TRUE
        BY DEF AnswerInv, HandInv
      <3>5. obj'[i] = hinst /\ id'[i] = ans'.id /\ locked'[i] = TRUE
        BY <2>1, <3>4
      <3> QED
        BY <2>1, <3>1, <3>3, <3>5 DEF AnswerInv, HandInv
    <2>10. SignalInv'
      BY <2>1 DEF AnswerInv, SignalInv
    <2>11. OneEach'
      BY <2>1 DEF AnswerInv, OneEach
    <2> QED
      BY <2>6, <2>7, <2>8, <2>9, <2>10, <2>11 DEF AnswerInv
  <1>9. CASE Return(t)
    <2>1. /\ pc[t] = "done" /\ pc' = [pc EXCEPT ![t] = "idle"]
          /\ asked' = {Stale(r, t) : r \in asked} /\ ans' = Stale(ans, t)
          /\ inst' = [inst EXCEPT ![t] = NULL]
          /\ cmd' = [cmd EXCEPT ![t] = NULL] /\ seq' = [seq EXCEPT ![t] = 0]
          /\ UNCHANGED <<id, obj, locked, signal, last_cmd, last_seq, mine, item, hpc, hinst>>
      BY <1>9 DEF Return, Goto, table, instance
    <2>2. \A u \in Tasks :
            /\ pc'[u] = IF u = t THEN "idle" ELSE pc[u]
            /\ inst'[u] = IF u = t THEN NULL ELSE inst[u]
            /\ cmd'[u] = IF u = t THEN NULL ELSE cmd[u]
            /\ seq'[u] = IF u = t THEN 0 ELSE seq[u]
      BY <2>1 DEF TypeInv, ApiTypeOK
    <2>3. ItemInv'
      BY <2>1, <2>2 DEF AnswerInv, ItemInv, Registered
    <2>4. LastInv'
      BY <2>1, <2>2 DEF AnswerInv, LastInv, Registered
    <2>5. AskedInv'
      <3> SUFFICES ASSUME NEW q \in asked', NEW u \in Tasks, pc'[u] \in Registered,
                          q.id = seq'[u]
                   PROVE  Matches(q, u)'
        BY DEF AskedInv
      <3>1. PICK r \in asked : q = Stale(r, t)
        BY <2>1
      <3>2. u # t /\ pc[u] \in Registered /\ seq'[u] = seq[u] /\ cmd'[u] = cmd[u] /\ pc'[u] = pc[u]
        BY <2>2 DEF Registered
      <3>3. r \in Request
        BY DEF TypeInv, ApiTypeOK
      <3>4. r.id = q.id
        BY <3>1, <3>3 DEF Stale, Request
      <3>5. Matches(r, u)
        BY <3>2, <3>4 DEF AnswerInv, AskedInv
      <3>6. q = r
        BY <3>1, <3>2, <3>5 DEF Stale, Matches
      <3> QED
        BY <3>2, <3>5, <3>6 DEF Matches
    <2>6. HandInv'
      <3> SUFFICES ASSUME hpc # "idle" PROVE HandInv'
        BY <2>1 DEF HandInv
      <3>1. PICK u \in Tasks : hinst = inst[u] /\ ans.id = seq[u] /\ Matches(ans, u)
        BY DEF AnswerInv, HandInv
      <3>2. u # t
        BY <2>1, <3>1 DEF Matches, Sent
      <3>3. ans' = ans
        BY <2>1, <3>1, <3>2 DEF Stale, Matches
      <3>4. seq'[u] = seq[u] /\ inst'[u] = inst[u] /\ Matches(ans, u)'
        BY <2>2, <3>1, <3>2, <3>3 DEF Matches
      <3> QED
        BY <2>1, <3>1, <3>3, <3>4 DEF AnswerInv, HandInv
    <2>7. SignalInv'
      BY <2>1, <2>2 DEF AnswerInv, SignalInv
    <2>8. OneEach'
      BY <2>1, <2>2 DEF AnswerInv, OneEach
    <2> QED
      BY <2>3, <2>4, <2>5, <2>6, <2>7, <2>8 DEF AnswerInv
  <1> QED
    BY <1>1, <1>2, <1>3, <1>4, <1>5, <1>6, <1>7, <1>8, <1>9 DEF CallStep

(* The arrival of an answer: it is the answer of the call whose instance   *)
(* is found.                                                               *)
LEMMA ReceiveAnswers ==
    ASSUME ~mixed', TypeInv, AnswerInv, NEW r, Receive(r),
           r \in asked \/ \E n \in StrayIds : r = Stray(n)
    PROVE  AnswerInv'
  <1> DEFINE k == id2Item(r.id)
  <1>1. k \in Items \cup {0} /\ 0 \notin Items /\ (k # 0 => id[k] = r.id)
    BY IdItem
  <1>2. /\ hpc = "idle"
        /\ k = 0 => locked' = locked /\ hinst' = NULL
        /\ k # 0 => locked' = [locked EXCEPT ![k] = TRUE] /\ hinst' = obj[k]
        /\ hinst' = NULL => hpc' = "idle" /\ ans' = NoRequest
        /\ hinst' # NULL => hpc' = "check" /\ ans' = r
        /\ asked' \subseteq asked
        /\ UNCHANGED <<id, obj, signal, last_cmd, last_seq, mine, pc, inst, cmd, seq, item>>
    BY DEF Receive, getPtrByIdWithLock, call, instance
  <1> HIDE DEF k
  <1>3. OneEach' /\ ItemInv'
    BY <1>2 DEF AnswerInv, OneEach, ItemInv
  <1>4. LastInv'
    BY <1>2 DEF AnswerInv, LastInv
  <1>5. AskedInv'
    BY <1>2 DEF AnswerInv, AskedInv, Matches
  <1>6. SignalInv'
    BY <1>2 DEF AnswerInv, SignalInv
  <1>7. HandInv'
    <2>1. CASE hinst' = NULL
      BY <1>2, <2>1 DEF HandInv
    <2>2. CASE hinst' # NULL
      <3>1. k \in Items /\ hinst' = obj[k] /\ obj[k] # NULL /\ id[k] = r.id
        BY <1>1, <1>2, <2>2
      <3>2. locked'[k] = TRUE
        BY <1>1, <1>2, <3>1 DEF TypeInv, ApiTypeOK
      <3>3. PICK t \in Tasks : inst[t] = obj[k] /\ pc[t] \in Registered
        BY <3>1 DEF AnswerInv, ItemInv
      <3>4. PICK i \in Items : obj[i] = inst[t] /\ id[i] = seq[t]
        BY <3>3 DEF AnswerInv, ItemInv
      <3>5. i = k
        BY <3>1, <3>3, <3>4 DEF AnswerInv, ItemInv
      <3>6. r.id = seq[t] /\ r.id # 0
        BY <3>1, <3>4, <3>5 DEF AnswerInv, ItemInv
      <3>7. r \in asked
        <4>1. \A n \in StrayIds : Stray(n).task = NoTask
          BY DEF Stray, NoRequest
        <4>2. r.task # NoTask
          BY <2>2 DEF Receive
        <4> QED
          BY <4>1, <4>2
      <3>8. Matches(r, t)
        BY <3>3, <3>6, <3>7 DEF AnswerInv, AskedInv
      <3>9. hpc' = "check" /\ ans' = r
        BY <1>2, <2>2
      <3>10. ans'.id = seq'[t] /\ hinst' = inst'[t] /\ Matches(ans, t)'
        BY <1>2, <3>1, <3>3, <3>6, <3>8, <3>9 DEF Matches
      <3>11. obj'[k] = hinst' /\ id'[k] = ans'.id
        BY <1>2, <3>1, <3>9
      <3> QED
        BY <3>1, <3>2, <3>9, <3>10, <3>11 DEF HandInv
    <2> QED
      BY <2>1, <2>2
  <1> QED
    BY <1>3, <1>4, <1>5, <1>6, <1>7 DEF AnswerInv

(* The rest of the message task, and the loss of an answer.                *)
LEMMA HandlerAnswers ==
    ASSUME TypeInv, AnswerInv, Handler \/ \E r \in asked : Lose(r)
    PROVE  AnswerInv'
  <1>1. ASSUME NEW r \in asked, Lose(r)
        PROVE  AnswerInv'
    <2>1. /\ asked' \subseteq asked
          /\ UNCHANGED <<id, obj, locked, signal, last_cmd, last_seq, mine, pc, inst, cmd, seq, item,
                         hpc, hinst, ans>>
      BY <1>1 DEF Lose, call, table, instance, handler
    <2> QED
      BY <2>1 DEF AnswerInv, OneEach, ItemInv, LastInv, AskedInv, HandInv, SignalInv, Matches
  <1>2. CASE Store
    <2>1. PICK t \in Tasks : hinst = inst[t] /\ ans.id = seq[t] /\ Matches(ans, t)
      BY <1>2 DEF Store, AnswerInv, HandInv
    <2>2. pc[t] # "idle" /\ pc[t] \in Registered
      BY <2>1 DEF Matches, Sent, Registered
    <2>3. IsAnswer(hinst, ans)
      BY <2>1, <2>2 DEF IsAnswer, AnswerInv, LastInv, Matches
    <2>4. ans.fresh = TRUE
      BY <2>1 DEF Matches
    <2>5. /\ mine' = [mine EXCEPT ![hinst] = TRUE] /\ hpc' = "signal"
          /\ UNCHANGED <<id, obj, locked, signal, last_cmd, last_seq, pc, inst, cmd, seq, item,
                         asked, hinst, ans>>
      BY <1>2, <2>3, <2>4 DEF Store, call, table
    <2>6. hinst \in Objects
      BY <2>1, <2>2 DEF TypeInv, HasCommand
    <2>7. /\ mine'[hinst] = TRUE
          /\ \A u \in Tasks : mine[inst[u]] = TRUE => mine'[inst[u]] = TRUE
      BY <2>5, <2>6 DEF TypeInv, ApiTypeOK
    <2>8. HandInv'
      <3>1. hpc # "idle"
        BY <1>2 DEF Store
      <3> QED
        BY <2>5, <2>7, <3>1 DEF AnswerInv, HandInv, Matches
    <2>9. SignalInv'
      BY <2>5, <2>7 DEF AnswerInv, SignalInv
    <2>10. OneEach' /\ ItemInv' /\ LastInv' /\ AskedInv'
      BY <2>5 DEF AnswerInv, OneEach, ItemInv, LastInv, AskedInv, Matches
    <2> QED
      BY <2>8, <2>9, <2>10 DEF AnswerInv
  <1>3. CASE Signal
    <2>1. /\ hpc = "signal" /\ signal' = [signal EXCEPT ![hinst] = TRUE] /\ hpc' = "unlock"
          /\ UNCHANGED <<id, obj, locked, mine, last_cmd, last_seq, pc, inst, cmd, seq, item,
                         asked, hinst, ans>>
      BY <1>3 DEF Signal, call, table
    <2>2. mine[hinst] = TRUE
      BY <2>1 DEF AnswerInv, HandInv
    <2>3. \A u \in Tasks : inst[u] # hinst =>
                             signal'[inst[u]] = signal[inst[u]]
      BY <2>1 DEF TypeInv, ApiTypeOK
    <2>4. SignalInv'
      BY <2>1, <2>2, <2>3 DEF AnswerInv, SignalInv
    <2>5. HandInv'
      BY <2>1, <2>2 DEF AnswerInv, HandInv, Matches
    <2>6. OneEach' /\ ItemInv' /\ LastInv' /\ AskedInv'
      BY <2>1 DEF AnswerInv, OneEach, ItemInv, LastInv, AskedInv, Matches
    <2> QED
      BY <2>4, <2>5, <2>6 DEF AnswerInv
  <1>4. CASE Unlock
    <2>1. /\ hpc' = "idle"
          /\ UNCHANGED <<id, obj, signal, mine, last_cmd, last_seq, pc, inst, cmd, seq, item, asked>>
      BY <1>4 DEF Unlock, call, instance
    <2> QED
      BY <2>1 DEF AnswerInv, OneEach, ItemInv, LastInv, AskedInv, HandInv, SignalInv, Matches
  <1> QED
    BY <1>1, <1>2, <1>3, <1>4 DEF Handler

(* Once something has been used twice, that stays recorded.                *)
LEMMA MixedStays ==
    ASSUME TypeInv, [ApiNext]_apiVars, mixed
    PROVE  mixed'
  <1>1. ASSUME NEW t \in Tasks, CallStep(t) PROVE mixed'
    BY <1>1 DEF CallStep, Register, StartPayload, LockAndWrite, EndPayload, WriteAndUnlock,
           WaitSignal, RemoveItem, RemoveFind, RemoveUnlocked, Remove, Return
  <1>2. ASSUME NEW t \in Tasks, NEW o, NEW c, Call(t, o, c) PROVE mixed'
    BY <1>2 DEF Call
  <1>3. ASSUME NEW r, Receive(r) \/ Lose(r) \/ Handler PROVE mixed'
    BY <1>3 DEF Receive, Lose, Handler, Store, Signal, Unlock
  <1>4. CASE UNCHANGED apiVars
    BY <1>4 DEF apiVars
  <1> QED
    BY <1>1, <1>2, <1>3, <1>4 DEF ApiNext

OwnInv == TypeInv /\ (~mixed => AnswerInv)

(* All steps together, and the initial state.                              *)
LEMMA OwnInvariant ==
    /\ ApiInit => OwnInv
    /\ OwnInv /\ [ApiNext]_apiVars => OwnInv'
  <1>1. ApiInit => AnswerInv
    BY DEF ApiInit, AnswerInv, ItemInv, LastInv, AskedInv, HandInv, SignalInv, OneEach,
           Registered
  <1>2. ASSUME OwnInv, [ApiNext]_apiVars, ~mixed'
        PROVE  AnswerInv'
    <2>0. TypeInv /\ AnswerInv
      BY <1>2, MixedStays DEF OwnInv
    <2>1. CASE UNCHANGED apiVars
      BY <2>0, <2>1 DEF apiVars, call, table, instance, handler, AnswerInv, OneEach, ItemInv,
          LastInv, AskedInv, HandInv, SignalInv, Matches
    <2>2. CASE ApiNext
      BY <1>2, <2>0, <2>2, CallAnswers, ReceiveAnswers, HandlerAnswers DEF ApiNext
    <2> QED
      BY <1>2, <2>1, <2>2
  <1> QED
    BY <1>1, <1>2, InitTypes, StepTypes DEF OwnInv

(* A command returns with the status and the result of its own answer,     *)
(* unless an instance or a number has been used twice at a time.           *)
THEOREM AnswersAreOwn == ApiSpec => []OwnAnswer
  <1>1. OwnInv => OwnAnswer
    BY DEF OwnInv, AnswerInv, SignalInv, OwnAnswer
  <1> QED
    BY <1>1, OwnInvariant, PTL DEF ApiSpec

(* The message task writes only to an instance that is registered and      *)
(* locked, unless an instance or a number has been used twice at a time.   *)
THEOREM HandlerKeepsLock == ApiSpec => []HandlerHolds
  <1>1. OwnInv => HandlerHolds
    BY DEF OwnInv, AnswerInv, HandInv, HandlerHolds
  <1> QED
    BY <1>1, OwnInvariant, PTL DEF ApiSpec

=============================================================================
