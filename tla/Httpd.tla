-------------------------------- MODULE Httpd --------------------------------
(***************************************************************************)
(* The HTTP server: the loop task and the connection threads               *)
(* (NyLPC_cHttpd.c, NyLPC_cHttpdThread.c, os/mbedrtos/NyLPC_cThread.cpp),   *)
(* the connection (NyLPC_cHttpdConnection.c) with its output stream        *)
(* (NyLPC_cHttpStream.c, the header and body writers), and the handlers    *)
(* main.cpp tries in turn: ROM files, local files and uploads, which share *)
(* one buffer under the server's only mutex, and the JSON-RPC session, of  *)
(* which there is at most one.                                             *)
(*                                                                         *)
(* All threads have the same priority, so any of them may run next.        *)
(***************************************************************************)
EXTENDS Integers, FiniteSets

CONSTANTS
    NUMBER_OF_CONNECTION_THREAD,
    MAX_PERSISTENT_CONNECTION,
    NULL

Threads == 1 .. NUMBER_OF_CONNECTION_THREAD

ASSUME HttpdAssumption ==
    /\ NUMBER_OF_CONNECTION_THREAD \in Nat \ {0}
    /\ MAX_PERSISTENT_CONNECTION \in Nat
    /\ NULL \notin Threads

VARIABLES
    lpc, i,         \* the loop task: step, loop variable
    terminated,     \* BIT_IS_TERMINATED of each thread
    pc, conn,       \* each thread's step, its connection
    count, loaded,  \* _num_of_active_connection; its value in a register
    raced,          \* history: a ++ or -- was lost between another's load and store
    mutex, shared,  \* the server's mutex; whose data is in _shared_buf
    mod, heap,      \* ModJsonRpc::_mod (a block is named by its thread), live blocks
    usurped         \* history: a thread whose malloc failed took another's block

loop  == <<lpc, i>>
num   == <<count, loaded, raced>>
files == <<mutex, shared>>
rpc   == <<mod, heap, usurped>>
httpVars == <<lpc, i, terminated, pc, conn, count, loaded, raced, mutex, shared, mod, heap, usurped>>

(* txb is the encoding the send buffer was allocated for, enc is we_type,  *)
(* ans the number of answers begun to the request in progress, part        *)
(* (history) whether one of them is a 101 after which the connection went  *)
(* on to be answered as one of HTTP.                                       *)
Connection ==
    [req  : {"LISTEN", "ACCEPT", "PREFETCH", "REQPARSE", "END"},
     res  : {"HEAD", "BODY", "CLOSED", "ERROR"},
     mode : {"CONTINUE", "CLOSE"},
     txb  : {"none", "plain", "chunked"},
     enc  : {"plain", "chunked"},
     ans  : Nat,
     part : {0, 1},
     sock : {"closed", "open"}]

HttpInit ==
    /\ lpc = "check" /\ i = 1
    /\ terminated = [t \in Threads |-> TRUE]
    /\ pc = [t \in Threads |-> "idle"]
    /\ conn = [t \in Threads |->
                 [req |-> "LISTEN", res |-> "CLOSED", mode |-> "CLOSE", txb |-> "none",
                  enc |-> "plain", ans |-> 0, part |-> 0, sock |-> "closed"]]
    /\ count = 0 /\ loaded = [t \in Threads |-> 0] /\ raced = FALSE
    /\ mutex = NULL /\ shared = NULL
    /\ mod = NULL /\ heap = {} /\ usurped = FALSE

-----------------------------------------------------------------------------
(* The output stream, as functions from a connection to the set of its     *)
(* possible successors.                                                    *)

(* Sent or released: the buffer is gone either way. *)
flush(c) == [c EXCEPT !.txb = "none"]

(* What fits stays in the buffer; what fills it exactly has been sent. *)
write(c) == {[c EXCEPT !.txb = IF @ = "none" THEN c.enc ELSE @], flush(c)}

(* No memory in time, or a failed flush: no buffer is left. *)
writeFails(c) == flush(c)

(* A failed flush leaves the encoding as it was. *)
setWriteEncoding(c, e) ==
    IF c.enc = e THEN {c}
    ELSE {[flush(c) EXCEPT !.enc = e]} \cup (IF c.txb # "none" THEN {flush(c)} ELSE {})

(* A header, the writer's close included, which flushes. *)
HeaderOut(c) ==
    {[flush(w) EXCEPT !.ans = @ + 1] : w \in UNION {write(d) : d \in setWriteEncoding(c, "plain")}}

(* The header-only answers 400, 403 and 500; a failed write is ignored. *)
sendErrorResponse(c) == HeaderOut(c)

sendResponseHeader(c) ==
    IF c.res # "HEAD" THEN {[c EXCEPT !.res = "ERROR"]}
    ELSE {[h EXCEPT !.res = "ERROR"] : h \in HeaderOut(c)}
         \cup UNION {{[b EXCEPT !.res = "BODY"] : b \in setWriteEncoding(h, e)} :
                       h \in HeaderOut(c), e \in {"plain", "chunked"}}

sendResponseBody(c) ==
    IF c.res # "BODY" THEN {[c EXCEPT !.res = "ERROR"]}
    ELSE {[writeFails(c) EXCEPT !.res = "ERROR"]} \cup write(c)

(* Mutant: the end of the body is left in the buffer. *)
BodyWriter_closeNoFlush(c) == {c}

(* The last chunk goes out unchunked. *)
BodyWriter_close(c) ==
    IF c.enc = "chunked"
    THEN UNION {{flush(w) : w \in write(d)} \cup {writeFails(d)} : d \in setWriteEncoding(c, "plain")}
    ELSE {flush(c)}

send100Continue(c) ==
    IF c.res # "HEAD" THEN {[c EXCEPT !.res = "ERROR"]}
    ELSE {[writeFails(c) EXCEPT !.res = "ERROR"]} \cup write(c)

(* NyLPC_cHttpdUtils_sendErrorResponse; HEAD gets no body. *)
ErrorPage(c) ==
    LET h == sendResponseHeader([c EXCEPT !.mode = "CLOSE"])
    IN  h \cup UNION {sendResponseBody(d) : d \in h}

AnswerPage(c) ==
    LET h == sendResponseHeader(c)
    IN  h \cup UNION {sendResponseBody(d) : d \in h}

(* NyLPC_cModUrl_execute2: what a parsed request may leave, and a refusal. *)
Parsed(c) == LET d == [c EXCEPT !.req = "END"]
             IN  {[x EXCEPT !.mode = m] : x \in {d} \cup send100Continue(d), m \in {c.mode, "CLOSE"}}
Refused(c) == ErrorPage([c EXCEPT !.req = "END"])

-----------------------------------------------------------------------------
(* Mutant: a connection that was not accepted keeps its socket. *)
closeSocketNoAccept(c) ==
    [c EXCEPT !.txb = IF c.req \in {"END", "REQPARSE", "PREFETCH"} THEN "none" ELSE @,
              !.sock = IF c.req \in {"LISTEN", "ACCEPT"} THEN @ ELSE "closed",
              !.req = "LISTEN", !.res = "CLOSED", !.ans = 0, !.part = 0]

(* NyLPC_cHttpdConnection_closeSocket. finalize releases a buffer that is  *)
(* still there.                                                            *)
closeSocket(c) ==
    [c EXCEPT !.txb = IF c.req \in {"END", "REQPARSE", "PREFETCH"} THEN "none" ELSE @,
              !.sock = IF c.req = "LISTEN" THEN @ ELSE "closed",
              !.req = "LISTEN", !.res = "CLOSED", !.ans = 0, !.part = 0]

At(t, p)    == pc[t] = p
Goto(t, p)  == pc' = [pc EXCEPT ![t] = p]
Conn(t, S)  == \E c \in S : conn' = [conn EXCEPT ![t] = c]

-----------------------------------------------------------------------------
(* The loop task *)

Following == IF i = NUMBER_OF_CONNECTION_THREAD THEN 1 ELSE i + 1

(* Mutant: the search begins with the first thread each time. *)
NextThreadFirst == i' = 1 /\ lpc' = "check"

NextThread == i' = Following /\ lpc' = "check"

LoopCheck ==
    /\ lpc = "check"
    /\ IF terminated[i] THEN lpc' = "listen" /\ UNCHANGED i ELSE NextThread
    /\ UNCHANGED <<terminated, pc, conn, num, files, rpc>>

(* NyLPC_iTcpListener_listen timed out. *)
ListenNothing ==
    /\ lpc = "listen"
    /\ NextThread
    /\ UNCHANGED <<terminated, pc, conn, num, files, rpc>>

listenSocket ==
    /\ lpc = "listen"
    /\ conn' = [conn EXCEPT ![i].sock = "open", ![i].req = "ACCEPT"]
    /\ lpc' = "start" /\ UNCHANGED i
    /\ UNCHANGED <<terminated, pc, num, files, rpc>>

ThreadStart ==
    /\ lpc = "start"
    /\ terminated' = [terminated EXCEPT ![i] = FALSE]
    /\ NextThread
    /\ UNCHANGED <<pc, conn, num, files, rpc>>

-----------------------------------------------------------------------------
(* A connection thread: proc and server *)

ThreadBegin(t) ==
    /\ At(t, "idle") /\ ~terminated[t]
    /\ Goto(t, "accept")
    /\ UNCHANGED <<loop, terminated, conn, num, files, rpc>>

acceptSocket(t) ==
    /\ At(t, "accept")
    /\ conn' = [conn EXCEPT ![t].res = "HEAD", ![t].req = "PREFETCH", ![t].mode = "CLOSE",
                            ![t].txb = "none", ![t].enc = "plain"]
    /\ Goto(t, "inc")
    /\ UNCHANGED <<loop, terminated, num, files, rpc>>

(* Mutant: the connection is taken off the count before it was added. *)
AcceptFailsCounted(t) ==
    /\ At(t, "accept")
    /\ Goto(t, "dec")
    /\ UNCHANGED <<loop, terminated, conn, num, files, rpc>>

AcceptFails(t) ==
    /\ At(t, "accept")
    /\ Goto(t, "closeSocket")
    /\ UNCHANGED <<loop, terminated, conn, num, files, rpc>>

(* ++ and --: a load and a store, between which another thread may do the  *)
(* same. The register is free afterwards.                                  *)
CountBy(t, p, store, n, q) ==
    /\ \/ /\ At(t, p)
          /\ loaded' = [loaded EXCEPT ![t] = count] /\ UNCHANGED <<count, raced>>
          /\ Goto(t, store)
       \/ /\ At(t, store)
          /\ count' = loaded[t] + n /\ loaded' = [loaded EXCEPT ![t] = 0]
          /\ raced' = (raced \/ loaded[t] # count)
          /\ Goto(t, q)
    /\ UNCHANGED <<loop, terminated, conn, files, rpc>>

incNumOfConnection(t) == CountBy(t, "inc", "incStore", 1, "prefetch")
decNumOfConnection(t) == CountBy(t, "dec", "decStore", -1, "closeSocket")

prefetch(t) ==
    /\ At(t, "prefetch")
    /\ conn' = [conn EXCEPT ![t].req = "REQPARSE", ![t].ans = 0, ![t].part = 0]
    /\ Goto(t, "mode")
    /\ UNCHANGED <<loop, terminated, num, files, rpc>>

PrefetchFails(t) ==
    /\ At(t, "prefetch")
    /\ Conn(t, {[c EXCEPT !.sock = "closed", !.req = "LISTEN"] :
                  c \in sendErrorResponse([conn[t] EXCEPT !.ans = 0, !.part = 0])})
    /\ Goto(t, "dec")
    /\ UNCHANGED <<loop, terminated, num, files, rpc>>

(* Mutant: one persistent connection too many. *)
InitialModeLoose(t) ==
    IF raced THEN {"CLOSE", "CONTINUE"}
    ELSE {IF count > MAX_PERSISTENT_CONNECTION + 1 THEN "CLOSE" ELSE "CONTINUE"}

(* The mode the count gives. A count with a lost ++ or -- is off by any    *)
(* number in the long run, and gives either.                               *)
InitialMode(t) ==
    IF raced THEN {"CLOSE", "CONTINUE"}
    ELSE {IF count > MAX_PERSISTENT_CONNECTION THEN "CLOSE" ELSE "CONTINUE"}

setConnectionMode(t) ==
    /\ At(t, "mode")
    /\ \E m \in InitialMode(t) : conn' = [conn EXCEPT ![t].mode = m]
    /\ Goto(t, "handler")
    /\ UNCHANGED <<loop, terminated, num, files, rpc>>

(* onRequest: the modules in turn; the last, JSON-RPC, sees every request  *)
(* no other module takes.                                                  *)
onRequest(t) ==
    /\ At(t, "handler")
    /\ conn' = [conn EXCEPT ![t].mode = IF mod # NULL THEN "CLOSE" ELSE @]
    /\ \E p \in {"rom", "file", "fio", "rpc"} : Goto(t, p)
    /\ UNCHANGED <<loop, terminated, num, files, rpc>>

(* Mutant: a failed answer is followed by 500. *)
closeResponseError(c) ==
    CASE c.res = "CLOSED" -> {<<c, FALSE>>}
      [] c.res \in {"HEAD", "ERROR"} -> {<<[d EXCEPT !.res = "CLOSED"], FALSE>> : d \in sendErrorResponse(c)}
      [] c.res = "BODY" -> {IF c.mode = "CONTINUE" THEN <<[d EXCEPT !.res = "HEAD"], TRUE>>
                            ELSE <<[d EXCEPT !.res = "CLOSED"], FALSE>> : d \in BodyWriter_close(c)}

(* The connection's successors, with whether it stays open. *)
closeResponse(c) ==
    CASE c.res \in {"CLOSED", "ERROR"} -> {<<c, FALSE>>}
      [] c.res = "HEAD" -> {<<[d EXCEPT !.res = "CLOSED"], FALSE>> : d \in sendErrorResponse(c)}
      [] c.res = "BODY" -> {IF c.mode = "CONTINUE" THEN <<[d EXCEPT !.res = "HEAD"], TRUE>>
                            ELSE <<[d EXCEPT !.res = "CLOSED"], FALSE>> : d \in BodyWriter_close(c)}

CloseResponse(t) ==
    /\ At(t, "closeResponse")
    /\ \E r \in closeResponse(conn[t]) :
          /\ conn' = [conn EXCEPT ![t] = r[1]]
          /\ Goto(t, IF r[2] THEN "prevNext" ELSE "dec")
    /\ UNCHANGED <<loop, terminated, num, files, rpc>>

(* A request answered without being parsed is read to its end, and         *)
(* answered again: 403, or 400 when the rest cannot be read.               *)
prevNextPrefetch(t) ==
    /\ At(t, "prevNext")
    /\ \/ /\ conn[t].req = "REQPARSE"
          /\ Conn(t, sendErrorResponse(conn[t]))
          /\ \E p \in {"prefetch", "dec"} : Goto(t, p)
       \/ /\ conn[t].req # "REQPARSE"
          /\ conn' = [conn EXCEPT ![t].req = IF @ = "END" THEN "PREFETCH" ELSE @]
          /\ Goto(t, "prefetch")
    /\ UNCHANGED <<loop, terminated, num, files, rpc>>

CloseSocket(t) ==
    /\ At(t, "closeSocket")
    /\ conn' = [conn EXCEPT ![t] = closeSocket(@)]
    /\ Goto(t, "end")
    /\ UNCHANGED <<loop, terminated, num, files, rpc>>

ThreadEnd(t) ==
    /\ At(t, "end")
    /\ terminated' = [terminated EXCEPT ![t] = TRUE]
    /\ Goto(t, "idle")
    /\ UNCHANGED <<loop, conn, num, files, rpc>>

-----------------------------------------------------------------------------
(* ROM files *)

RomExecute(t) ==
    /\ At(t, "rom")
    /\ Conn(t, Refused(conn[t]) \cup UNION {AnswerPage(c) \cup ErrorPage(c) : c \in Parsed(conn[t])})
    /\ Goto(t, "closeResponse")
    /\ UNCHANGED <<loop, terminated, num, files, rpc>>

-----------------------------------------------------------------------------
(* Files: ModLocalFileSystem. The URL, then the file's parts, are read     *)
(* into the shared buffer.                                                 *)

(* Neither GET nor HEAD: 405, before the request is parsed. *)
FileMethod(t) ==
    /\ At(t, "file")
    /\ Conn(t, sendResponseHeader(conn[t]))
    /\ Goto(t, "closeResponse")
    /\ UNCHANGED <<loop, terminated, num, files, rpc>>

FileLock(t) ==
    /\ At(t, "file") /\ mutex = NULL
    /\ mutex' = t
    /\ Goto(t, "url")
    /\ UNCHANGED <<loop, terminated, conn, num, shared, rpc>>

FileUrl(t) ==
    /\ At(t, "url")
    /\ shared' = t
    /\ \/ Conn(t, Refused(conn[t])) /\ Goto(t, "unlock")
       \/ Conn(t, Parsed(conn[t])) /\ Goto(t, "open")
    /\ UNCHANGED <<loop, terminated, num, mutex, rpc>>

(* The name in the buffer is opened: a directory, or a file that is not    *)
(* there, is answered at once.                                             *)
FileOpen(t) ==
    /\ At(t, "open")
    /\ \/ Conn(t, AnswerPage(conn[t])) /\ Goto(t, "unlock")
       \/ \E c \in sendResponseHeader(conn[t]) :
             /\ conn' = [conn EXCEPT ![t] = c]
             /\ Goto(t, IF c.res = "BODY" THEN "read" ELSE "unlock")
    /\ UNCHANGED <<loop, terminated, num, files, rpc>>

FileRead(t) ==
    /\ At(t, "read")
    /\ shared' = t
    /\ Goto(t, "send")
    /\ UNCHANGED <<loop, terminated, conn, num, mutex, rpc>>

FileEnd(t) ==
    /\ At(t, "read")
    /\ Goto(t, "unlock")
    /\ UNCHANGED <<loop, terminated, conn, num, files, rpc>>

(* After half a second another thread gets its turn. *)
FileSend(t) ==
    /\ At(t, "send")
    /\ \E c \in sendResponseBody(conn[t]) :
          /\ conn' = [conn EXCEPT ![t] = c]
          /\ IF c.res = "BODY" THEN \E p \in {"read", "turn"} : Goto(t, p) ELSE Goto(t, "unlock")
    /\ UNCHANGED <<loop, terminated, num, files, rpc>>

FileTurn(t) ==
    /\ At(t, "turn")
    /\ mutex' = NULL
    /\ Goto(t, "relock")
    /\ UNCHANGED <<loop, terminated, conn, num, shared, rpc>>

(* Mutant: the next part is sent without being read again. *)
FileRelockToSend(t) ==
    /\ At(t, "relock") /\ mutex = NULL
    /\ mutex' = t
    /\ Goto(t, "send")
    /\ UNCHANGED <<loop, terminated, conn, num, shared, rpc>>

FileRelock(t) ==
    /\ At(t, "relock") /\ mutex = NULL
    /\ mutex' = t
    /\ Goto(t, "read")
    /\ UNCHANGED <<loop, terminated, conn, num, shared, rpc>>

(* Mutant: the way out after a failed answer keeps the mutex. *)
UnlockIfAnswered(t) ==
    /\ At(t, "unlock")
    /\ mutex' = IF conn[t].res = "ERROR" THEN mutex ELSE NULL
    /\ Goto(t, "closeResponse")
    /\ UNCHANGED <<loop, terminated, conn, num, shared, rpc>>

Unlock(t) ==
    /\ At(t, "unlock")
    /\ mutex' = NULL
    /\ Goto(t, "closeResponse")
    /\ UNCHANGED <<loop, terminated, conn, num, shared, rpc>>

-----------------------------------------------------------------------------
(* Uploads: NyLPC_cModFileIoBaseClass_execute and ModFileIo's handlers. The *)
(* parsed request is in a static structure, the body in the shared buffer. *)

FioLock(t) ==
    /\ At(t, "fio") /\ mutex = NULL
    /\ conn' = [conn EXCEPT ![t].req = "END"]
    /\ mutex' = t
    /\ Goto(t, "fioParse")
    /\ UNCHANGED <<loop, terminated, num, shared, rpc>>

(* A request that asks for it, or is not HTTP/1.1, ends persistence.       *)
(* create, remove and the refusals answer at once; an upload that is not a *)
(* POST is not answered here.                                              *)
FioExecute(t) ==
    /\ At(t, "fioParse")
    /\ \E m \in {conn[t].mode, "CLOSE"} :
          LET c == [conn[t] EXCEPT !.mode = m]
          IN  \/ Conn(t, {c} \cup ErrorPage(c) \cup sendResponseHeader(c)) /\ Goto(t, "unlock")
              \/ Conn(t, send100Continue(c)) /\ Goto(t, "body")
    /\ UNCHANGED <<loop, terminated, num, files, rpc>>

FioBody(t) ==
    /\ At(t, "body")
    /\ shared' = t
    /\ Goto(t, "store")
    /\ UNCHANGED <<loop, terminated, conn, num, mutex, rpc>>

FioEnd(t) ==
    /\ At(t, "body")
    /\ Conn(t, ErrorPage(conn[t]) \cup sendResponseHeader(conn[t]))
    /\ Goto(t, "unlock")
    /\ UNCHANGED <<loop, terminated, num, files, rpc>>

FioStore(t) ==
    /\ At(t, "store")
    /\ Goto(t, "body")
    /\ UNCHANGED <<loop, terminated, conn, num, files, rpc>>

-----------------------------------------------------------------------------
(* JSON-RPC: ModJsonRpc::execute and dispatchRpc *)

(* Mutant: the session is claimed without looking at _mod. *)
RpcClaimAlways(t) ==
    /\ At(t, "rpc") /\ mutex = NULL
    /\ mod' = t /\ heap' = heap \cup {t}
    /\ Goto(t, "claimed")
    /\ UNCHANGED <<loop, terminated, conn, num, files, usurped>>

(* Under the mutex, which is given back before the end of the step. *)
RpcClaim(t) ==
    /\ At(t, "rpc") /\ mutex = NULL
    /\ \/ mod # NULL /\ UNCHANGED <<mod, heap>> /\ Goto(t, "redirect")
       \/ mod = NULL /\ mod' = t /\ heap' = heap \cup {t} /\ Goto(t, "claimed")
       \/ mod = NULL /\ UNCHANGED <<mod, heap>> /\ Goto(t, "starved")
    /\ UNCHANGED <<loop, terminated, conn, num, files, usurped>>

(* _mod is read again, without the mutex, and the request's URL compared.  *)
(* A thread whose malloc failed finds the block of another that claimed    *)
(* the session since.                                                      *)
RpcCanHandle(t) ==
    /\ pc[t] \in {"claimed", "starved"}
    /\ IF mod = NULL THEN Goto(t, "redirect") ELSE \E p \in {"upgrade", "release"} : Goto(t, p)
    /\ usurped' = (usurped \/ (At(t, "starved") /\ mod # NULL))
    /\ UNCHANGED <<loop, terminated, conn, num, files, mod, heap>>

RpcLock(t) ==
    /\ At(t, "upgrade") /\ mutex = NULL
    /\ conn' = [conn EXCEPT ![t].req = "END"]
    /\ mutex' = t
    /\ Goto(t, "handshake")
    /\ UNCHANGED <<loop, terminated, num, shared, rpc>>

(* Refused with an error page, or the socket failed under the 101: before  *)
(* or after a part of it was sent.                                         *)
RpcRefuse(t) ==
    /\ At(t, "handshake")
    /\ LET c == writeFails(conn[t])
       IN  Conn(t, ErrorPage(conn[t]) \cup {c, [c EXCEPT !.ans = @ + 1, !.part = 1]})
    /\ mutex' = NULL
    /\ Goto(t, "release")
    /\ UNCHANGED <<loop, terminated, num, shared, rpc>>

RpcUpgrade(t) ==
    /\ At(t, "handshake")
    /\ conn' = [conn EXCEPT ![t] = [flush(conn[t]) EXCEPT !.ans = @ + 1]]
    /\ mutex' = NULL
    /\ Goto(t, "dispatch")
    /\ UNCHANGED <<loop, terminated, num, shared, rpc>>

(* dispatchRpc, which returns at once when there is no session: the one    *)
(* that took this thread's block has given it back.                        *)
RpcDispatch(t) ==
    /\ At(t, "dispatch")
    /\ IF mod = NULL THEN Goto(t, "closeResponse") /\ conn' = [conn EXCEPT ![t].part = 1]
                     ELSE Goto(t, "session") /\ UNCHANGED conn
    /\ UNCHANGED <<loop, terminated, num, files, rpc>>

(* dispatchRpc's loop: a message is read and answered, or the connection   *)
(* fails and is closed.                                                    *)
RpcMessage(t) ==
    /\ At(t, "session")
    /\ \/ UNCHANGED <<conn, pc>>
       \/ conn' = [conn EXCEPT ![t] = closeSocket(@)] /\ Goto(t, "sessionEnd")
    /\ UNCHANGED <<loop, terminated, num, files, rpc>>

(* A message that has no handler, or whose handler fails, ends the loop. *)
RpcBreak(t) ==
    /\ At(t, "session")
    /\ Goto(t, "sessionEnd")
    /\ UNCHANGED <<loop, terminated, conn, num, files, rpc>>

RpcClose(t) ==
    /\ At(t, "sessionEnd")
    /\ conn' = [conn EXCEPT ![t] = closeSocket(@)]
    /\ Goto(t, "sessionFree")
    /\ UNCHANGED <<loop, terminated, num, files, rpc>>

(* free(_mod), then _mod=NULL without the mutex. *)
RpcFree(t) ==
    /\ At(t, "sessionFree")
    /\ heap' = heap \ {mod} /\ UNCHANGED <<mod, usurped>>
    /\ Goto(t, "sessionNull")
    /\ UNCHANGED <<loop, terminated, conn, num, files>>

RpcNull(t) ==
    /\ At(t, "sessionNull")
    /\ mod' = NULL /\ UNCHANGED <<heap, usurped>>
    /\ Goto(t, "closeResponse")
    /\ UNCHANGED <<loop, terminated, conn, num, files>>

(* execute's failure: free(_mod), then _mod=NULL under the mutex. *)
RpcRelease(t) ==
    /\ At(t, "release")
    /\ heap' = heap \ {mod} /\ UNCHANGED <<mod, usurped>>
    /\ Goto(t, "reset")
    /\ UNCHANGED <<loop, terminated, conn, num, files>>

RpcReset(t) ==
    /\ At(t, "reset") /\ mutex = NULL
    /\ mod' = NULL /\ UNCHANGED <<heap, usurped>>
    /\ Goto(t, "redirect")
    /\ UNCHANGED <<loop, terminated, conn, num, files>>

(* 302 to /rom/index.html, the request unparsed. *)
Redirect(t) ==
    /\ At(t, "redirect")
    /\ Conn(t, sendResponseHeader(conn[t]))
    /\ Goto(t, "closeResponse")
    /\ UNCHANGED <<loop, terminated, num, files, rpc>>

-----------------------------------------------------------------------------
Loop == LoopCheck \/ ListenNothing \/ listenSocket \/ ThreadStart

Server(t) ==
    \/ ThreadBegin(t) \/ acceptSocket(t) \/ AcceptFails(t)
    \/ incNumOfConnection(t) \/ prefetch(t) \/ PrefetchFails(t) \/ setConnectionMode(t)
    \/ onRequest(t) \/ CloseResponse(t) \/ prevNextPrefetch(t)
    \/ decNumOfConnection(t) \/ CloseSocket(t) \/ ThreadEnd(t)

FileModules(t) ==
    \/ RomExecute(t)
    \/ FileMethod(t) \/ FileLock(t) \/ FileUrl(t) \/ FileOpen(t) \/ FileRead(t) \/ FileEnd(t)
    \/ FileSend(t) \/ FileTurn(t) \/ FileRelock(t) \/ Unlock(t)
    \/ FioLock(t) \/ FioExecute(t) \/ FioBody(t) \/ FioEnd(t) \/ FioStore(t)

RpcModule(t) ==
    \/ RpcClaim(t) \/ RpcCanHandle(t) \/ RpcLock(t) \/ RpcRefuse(t) \/ RpcUpgrade(t)
    \/ RpcDispatch(t) \/ RpcMessage(t) \/ RpcBreak(t) \/ RpcClose(t) \/ RpcFree(t) \/ RpcNull(t)
    \/ RpcRelease(t) \/ RpcReset(t) \/ Redirect(t)

HttpNext == Loop \/ \E t \in Threads : Server(t) \/ FileModules(t) \/ RpcModule(t)

HttpSpec == HttpInit /\ [][HttpNext]_httpVars

(* The loop task keeps running: the scheduler is round-robin, listen has a *)
(* time-out.                                                               *)
HttpFairSpec == HttpSpec /\ WF_httpVars(Loop)

-----------------------------------------------------------------------------
Steps == {"idle", "accept", "inc", "incStore", "prefetch", "mode", "handler", "rom", "file",
          "url", "open", "read", "send", "turn", "relock", "unlock", "fio", "fioParse", "body",
          "store", "rpc", "claimed", "starved", "upgrade", "handshake", "dispatch", "session",
          "sessionEnd", "sessionFree", "sessionNull", "release", "reset", "redirect", "closeResponse",
          "prevNext", "dec", "decStore", "closeSocket", "end"}

(* The loop task's variables, the threads' and the connections' are in     *)
(* their ranges.                                                           *)
HttpTypeOK ==
    /\ lpc \in {"check", "listen", "start"} /\ i \in Threads
    /\ terminated \in [Threads -> BOOLEAN]
    /\ pc \in [Threads -> Steps]
    /\ conn \in [Threads -> Connection]
    /\ count \in Int /\ loaded \in [Threads -> Int] /\ raced \in BOOLEAN
    /\ mutex \in Threads \cup {NULL} /\ shared \in Threads \cup {NULL}
    /\ mod \in Threads \cup {NULL} /\ heap \subseteq Threads /\ usurped \in BOOLEAN

(* The loop task listens only on a connection whose thread has ended, whose *)
(* socket is closed and whose buffer is back (the Assert of listenSocket), *)
(* whatever way the previous connection ended. (Threads that share one     *)
(* session block share its connection too, and nothing is claimed then.)   *)
ListenClosed ==
    lpc = "listen" /\ ~usurped => /\ At(i, "idle")
                                 /\ conn[i].req = "LISTEN" /\ conn[i].sock = "closed"
                                 /\ conn[i].txb = "none"

Counted == {t \in Threads : pc[t] \notin {"idle", "accept", "inc", "incStore", "closeSocket", "end"}}

(* The number of active connections is the number of connections: every    *)
(* way through server that adds one takes it off again, once. This holds   *)
(* until the ++ or -- of one thread falls between the load and the store   *)
(* of another's.                                                           *)
CountExact == ~raced => count = Cardinality(Counted)

(* The connections that are to stay open after the answer in progress. *)
Lasting == {t \in Counted : conn[t].mode = "CONTINUE"
                            /\ pc[t] \notin {"prefetch", "mode", "dec", "decStore"}}

(* No more connections than MAX_PERSISTENT_CONNECTION may stay open after  *)
(* their answer, so a thread is left for the others, as long as no ++ or   *)
(* -- of the count was lost.                                               *)
KeepAliveBound == ~raced => Cardinality(Lasting) <= MAX_PERSISTENT_CONNECTION

(* Nothing of an answer is still in the send buffer when the thread waits  *)
(* for the next request, which the client sends only after it has the      *)
(* answer, nor when the connection ends without an error, where the buffer *)
(* would be released unsent.                                               *)
AnswerLeaves ==
    ~usurped =>
        \A t \in Threads :
            At(t, "prefetch") \/ (At(t, "dec") /\ conn[t].res = "CLOSED") => conn[t].txb = "none"

(* A request that a module parsed is answered once: an answer that failed  *)
(* is not followed by the 500 of closeResponse or the 302 of onRequest.    *)
(* The one exception is a 101 that breaks off, which 302 follows.          *)
AnswerOnce ==
    ~usurped => \A t \in Threads : conn[t].req = "END" => conn[t].ans <= 1 + conn[t].part

(* The shared buffer holds what the thread put there when the thread opens, *)
(* sends or stores what is in it.                                          *)
SharedBufOwn == \A t \in Threads : pc[t] \in {"open", "send", "store"} => shared = t

Holding == {"url", "open", "read", "send", "turn", "unlock", "fioParse", "body", "store", "handshake"}

(* A thread has the server's mutex exactly while it is in a module's       *)
(* protected part: no way out of a module keeps it, none gives back the    *)
(* mutex of another thread.                                                *)
MutexExact == \A t \in Threads : mutex = t <=> pc[t] \in Holding

InSession == {"upgrade", "handshake", "dispatch", "session", "sessionEnd", "sessionFree", "release"}

(* A thread that works on the JSON-RPC session finds its own, live block,  *)
(* frees it once, and leaves none behind, until a thread whose malloc      *)
(* failed takes the block of another for its own.                          *)
SessionOwn ==
    ~usurped =>
        \A t \in Threads : /\ pc[t] \in InSession => mod = t /\ t \in heap
                           /\ t \in heap => pc[t] \in InSession \cup {"claimed"}

(* Every thread that has ended is offered to the listener again. *)
Offered == \A t \in Threads : terminated[t] ~> (lpc \in {"listen", "start"} /\ i = t)

=============================================================================
