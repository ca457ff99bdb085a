---------------------------- MODULE Httpd_proofs ----------------------------
(***************************************************************************)
(* Proofs about Httpd, for every number of connection threads.             *)
(*                                                                         *)
(* A connection is changed by its own thread only, except when the loop    *)
(* task opens it.  Busy are the connections that a handler may see, and    *)
(* each operation of the output stream leads from one of them to another.  *)
(***************************************************************************)
EXTENDS Httpd, FiniteSetTheorems, TLAPS

(* A request is being handled, and it has not been answered twice, unless  *)
(* by a 101 that the upgrade did not keep.                                 *)
Busy == {c \in Connection :
            /\ c.req \in {"REQPARSE", "END"}
            /\ c.ans <= 1 + c.part
            /\ c.res = "HEAD" => c.ans = c.part
            /\ c.res = "CLOSED" => c.txb = "none"}

(* d is a busy connection that persists only if c did. *)
Stays(c, d) == d \in Busy /\ d.mode \in {c.mode, "CLOSE"}

BusyAt == {"mode", "handler", "rom", "file", "url", "open", "read", "send", "turn", "relock",
           "unlock", "fio", "fioParse", "body", "store", "rpc", "claimed", "starved", "upgrade",
           "handshake", "release", "reset", "redirect"}

(* Where nothing has been answered yet. *)
Fresh == {"mode", "handler", "rpc", "claimed", "starved", "upgrade", "handshake"}

(* What holds of a connection whose thread is at p. *)
ConnOK(p, c) ==
    /\ c.req = "LISTEN" => c.sock = "closed"
    /\ c.req \in {"LISTEN", "ACCEPT"} \/ c.res = "CLOSED" => c.txb = "none"
    /\ c.req = "END" => c.ans <= 1 + c.part
    /\ p \in BusyAt => c \in Busy
    /\ p \in Fresh => c.ans = 0
    /\ p \in {"inc", "incStore", "prefetch", "prevNext"} => c.txb = "none"
    /\ p = "closeResponse" => c \in Busy \/ c.res = "CLOSED"
    /\ p = "dispatch" => c.req \in {"REQPARSE", "END"} /\ c.ans = 1 /\ c.txb = "none"
    /\ p \in {"sessionFree", "sessionNull"} => c.res = "CLOSED"
    /\ p = "end" => c.req = "LISTEN"

-----------------------------------------------------------------------------
(* The output stream *)

(* A flush releases the buffer and changes nothing else. *)
LEMMA FlushStays == ASSUME NEW c \in Busy PROVE Stays(c, flush(c)) /\ flush(c).txb = "none"
                                                /\ flush(c).res = c.res
  BY DEF Busy, Connection, Stays, flush

(* A write to a connection whose answer is not closed. *)
LEMMA WriteStays ==
    ASSUME NEW c \in Busy, c.res # "CLOSED", NEW d \in write(c) PROVE Stays(c, d)
  BY DEF Busy, Connection, Stays, flush, write

(* A change of the encoding. *)
LEMMA EncodingStays ==
    ASSUME NEW c \in Connection, NEW e \in {"plain", "chunked"}, NEW d \in setWriteEncoding(c, e)
    PROVE  /\ d \in Connection
           /\ d.mode = c.mode /\ d.req = c.req /\ d.res = c.res /\ d.ans = c.ans /\ d.sock = c.sock
           /\ d.part = c.part
           /\ d.txb \in {c.txb, "none"}
  <1>1. CASE d = c
    BY <1>1
  <1>2. CASE d = flush(c)
    BY <1>2 DEF Connection, flush
  <1>3. CASE d = [flush(c) EXCEPT !.enc = e]
    <2> DEFINE f == flush(c)
    <2>1. /\ f \in Connection /\ f.txb = "none" /\ f.part = c.part
          /\ f.mode = c.mode /\ f.req = c.req /\ f.res = c.res /\ f.ans = c.ans /\ f.sock = c.sock
      BY DEF Connection, flush
    <2>2. d = [f EXCEPT !.enc = e]
      BY <1>3
    <2> HIDE DEF f
    <2> QED
      BY <2>1, <2>2 DEF Connection
  <1> QED
    BY <1>1, <1>2, <1>3 DEF setWriteEncoding

(* A write, whatever it is written to, leaves only the buffer changed. *)
LEMMA WriteKeeps ==
    ASSUME NEW c \in Connection, NEW w \in write(c)
    PROVE  /\ flush(w) \in Connection /\ flush(w).txb = "none"
           /\ flush(w).mode = c.mode /\ flush(w).req = c.req /\ flush(w).res = c.res
           /\ flush(w).ans = c.ans /\ flush(w).sock = c.sock /\ flush(w).part = c.part
  <1>1. /\ w \in Connection /\ w.part = c.part
        /\ w.mode = c.mode /\ w.req = c.req /\ w.res = c.res /\ w.ans = c.ans /\ w.sock = c.sock
    <2>1. CASE w = flush(c)
      BY <2>1 DEF flush, Connection
    <2>2. CASE w = [c EXCEPT !.txb = IF @ = "none" THEN c.enc ELSE @]
      BY <2>2 DEF Connection
    <2> QED
      BY <2>1, <2>2 DEF write
  <1> QED
    BY <1>1 DEF flush, Connection

(* A header is counted as one answer and leaves nothing in the buffer. *)
LEMMA HeaderSent ==
    ASSUME NEW c \in Connection, NEW d \in HeaderOut(c)
    PROVE  /\ d \in Connection
           /\ d.mode = c.mode /\ d.req = c.req /\ d.res = c.res /\ d.sock = c.sock
           /\ d.ans = c.ans + 1 /\ d.part = c.part /\ d.txb = "none"
  <1>1. PICK e \in setWriteEncoding(c, "plain") :
            \E w \in write(e) : d = [flush(w) EXCEPT !.ans = @ + 1]
    BY DEF HeaderOut
  <1>w. PICK w \in write(e) : d = [flush(w) EXCEPT !.ans = @ + 1]
    BY <1>1
  <1>2. /\ e \in Connection /\ e.part = c.part
        /\ e.mode = c.mode /\ e.req = c.req /\ e.res = c.res /\ e.ans = c.ans /\ e.sock = c.sock
    BY EncodingStays
  <1> DEFINE f == flush(w)
  <1>3. /\ f \in Connection /\ f.txb = "none" /\ f.part = c.part
        /\ f.mode = c.mode /\ f.req = c.req /\ f.res = c.res /\ f.ans = c.ans /\ f.sock = c.sock
    BY <1>2, WriteKeeps
  <1>4. d = [f EXCEPT !.ans = @ + 1]
    BY <1>w
  <1> HIDE DEF f
  <1> QED
    BY <1>3, <1>4 DEF Connection

(* sendResponseHeader: the first one answers, a later one is an error. *)
LEMMA ResponseHeaderStays ==
    ASSUME NEW c \in Busy, NEW d \in sendResponseHeader(c) PROVE Stays(c, d)
  <1>0. c \in Connection
    BY DEF Busy
  <1>1. CASE c.res # "HEAD"
    BY <1>1 DEF sendResponseHeader, Stays, Busy, Connection
  <1>2. CASE c.res = "HEAD"
    <2>1. CASE \E h \in HeaderOut(c) : d = [h EXCEPT !.res = "ERROR"]
      <3>1. PICK h \in HeaderOut(c) : d = [h EXCEPT !.res = "ERROR"]
        BY <2>1
      <3>2. /\ h \in Connection
            /\ h.mode = c.mode /\ h.req = c.req /\ h.ans = c.ans + 1 /\ h.part = c.part
        BY <1>0, HeaderSent
      <3> QED
        BY <1>2, <3>1, <3>2 DEF Stays, Busy, Connection
    <2>2. CASE \E h \in HeaderOut(c), e \in {"plain", "chunked"} :
                 \E b \in setWriteEncoding(h, e) : d = [b EXCEPT !.res = "BODY"]
      <3>1. PICK h \in HeaderOut(c), e \in {"plain", "chunked"} :
                 \E b \in setWriteEncoding(h, e) : d = [b EXCEPT !.res = "BODY"]
        BY <2>2
      <3>2. PICK b \in setWriteEncoding(h, e) : d = [b EXCEPT !.res = "BODY"]
        BY <3>1
      <3>3. /\ h \in Connection
            /\ h.mode = c.mode /\ h.req = c.req /\ h.ans = c.ans + 1 /\ h.part = c.part
        BY <1>0, HeaderSent
      <3>4. /\ b \in Connection
            /\ b.mode = c.mode /\ b.req = c.req /\ b.ans = c.ans + 1 /\ b.part = c.part
        BY <3>3, EncodingStays
      <3> QED
        BY <1>2, <3>2, <3>4 DEF Stays, Busy, Connection
    <2> QED
      BY <1>2, <2>1, <2>2 DEF sendResponseHeader
  <1> QED
    BY <1>1, <1>2

(* sendResponseBody *)
LEMMA ResponseBodyStays ==
    ASSUME NEW c \in Busy, NEW d \in sendResponseBody(c) PROVE Stays(c, d)
  <1>1. CASE c.res # "BODY"
    BY <1>1 DEF sendResponseBody, Stays, Busy, Connection
  <1>2. CASE c.res = "BODY"
    BY <1>2, WriteStays, ZenonT(60) DEF sendResponseBody, writeFails, flush, Stays, Busy, Connection
  <1> QED
    BY <1>1, <1>2

(* send100Continue *)
LEMMA ContinueStays ==
    ASSUME NEW c \in Busy, NEW d \in send100Continue(c) PROVE Stays(c, d)
  <1>1. CASE c.res # "HEAD"
    BY <1>1 DEF send100Continue, Stays, Busy, Connection
  <1>2. CASE c.res = "HEAD"
    BY <1>2, WriteStays, ZenonT(60) DEF send100Continue, writeFails, flush, Stays, Busy, Connection
  <1> QED
    BY <1>1, <1>2

(* Stays is transitive, and giving persistence up stays. *)
LEMMA StaysTransitive ==
    ASSUME NEW c \in Busy, NEW d, NEW e, Stays(c, d), Stays(d, e) PROVE Stays(c, e)
  BY DEF Stays

(* A connection gives persistence up. *)
LEMMA ModeStays ==
    ASSUME NEW c \in Busy, NEW m \in {c.mode, "CLOSE"} PROVE Stays(c, [c EXCEPT !.mode = m])
  BY DEF Stays, Busy, Connection

(* A parsed request *)
LEMMA ParsedStays == ASSUME NEW c \in Busy PROVE Stays(c, [c EXCEPT !.req = "END"])
  BY DEF Stays, Busy, Connection

(* A header and what may be written after it. *)
LEMMA AnswerPageStays ==
    ASSUME NEW c \in Busy, NEW d \in AnswerPage(c) PROVE Stays(c, d)
  <1>1. CASE d \in sendResponseHeader(c)
    BY <1>1, ResponseHeaderStays
  <1>2. CASE \E h \in sendResponseHeader(c) : d \in sendResponseBody(h)
    <2>1. PICK h \in sendResponseHeader(c) : d \in sendResponseBody(h)
      BY <1>2
    <2>2. Stays(c, h) /\ h \in Busy
      BY ResponseHeaderStays DEF Stays
    <2>3. Stays(h, d)
      BY <2>1, <2>2, ResponseBodyStays
    <2> QED
      BY <2>2, <2>3, StaysTransitive
  <1> QED
    BY <1>1, <1>2 DEF AnswerPage

(* The error page is an answer page of a connection that gives up. *)
LEMMA ErrorPageStays ==
    ASSUME NEW c \in Busy, NEW d \in ErrorPage(c) PROVE Stays(c, d)
  <1> DEFINE g == [c EXCEPT !.mode = "CLOSE"]
  <1>1. Stays(c, g) /\ g \in Busy
    BY ModeStays DEF Stays
  <1>2. d \in AnswerPage(g)
    BY DEF ErrorPage, AnswerPage
  <1>3. Stays(g, d)
    BY <1>1, <1>2, AnswerPageStays
  <1> HIDE DEF g
  <1> QED
    BY <1>1, <1>3, StaysTransitive

(* NyLPC_cModUrl_execute2: what a request may leave that it takes, *)
LEMMA ParsedResultStays ==
    ASSUME NEW c \in Busy, NEW d \in Parsed(c) PROVE Stays(c, d)
  <1> DEFINE g == [c EXCEPT !.req = "END"]
  <1>1. Stays(c, g) /\ g \in Busy
    BY ParsedStays DEF Stays
  <1>2. PICK x \in {g} \cup send100Continue(g), m \in {c.mode, "CLOSE"} : d = [x EXCEPT !.mode = m]
    BY DEF Parsed
  <1>3. Stays(g, x)
    <2>1. CASE x = g
      BY <1>1, <2>1 DEF Stays
    <2>2. CASE x \in send100Continue(g)
      BY <1>1, <2>2, ContinueStays
    <2> QED
      BY <2>1, <2>2
  <1> HIDE DEF g
  <1>4. x \in Busy
    BY <1>3 DEF Stays
  <1> QED
    BY <1>2, <1>4 DEF Stays, Busy, Connection

(* and one that it refuses. *)
LEMMA RefusedStays ==
    ASSUME NEW c \in Busy, NEW d \in Refused(c) PROVE Stays(c, d)
  <1> DEFINE g == [c EXCEPT !.req = "END"]
  <1>1. Stays(c, g) /\ g \in Busy
    BY ParsedStays DEF Stays
  <1>2. Stays(g, d)
    BY <1>1, ErrorPageStays DEF Refused
  <1> HIDE DEF g
  <1> QED
    BY <1>1, <1>2, StaysTransitive

(* The end of a body leaves nothing in the buffer. *)
LEMMA BodyClosed ==
    ASSUME NEW c \in Connection, NEW d \in BodyWriter_close(c)
    PROVE  /\ d \in Connection /\ d.txb = "none"
           /\ d.mode = c.mode /\ d.req = c.req /\ d.ans = c.ans /\ d.sock = c.sock
           /\ d.part = c.part
  <1>1. CASE c.enc = "chunked"
    <2>1. PICK e \in setWriteEncoding(c, "plain") :
             (\E w \in write(e) : d = flush(w)) \/ d = writeFails(e)
      BY <1>1 DEF BodyWriter_close
    <2>2. /\ e \in Connection /\ e.part = c.part
          /\ e.mode = c.mode /\ e.req = c.req /\ e.ans = c.ans /\ e.sock = c.sock
      BY EncodingStays
    <2>3. CASE \E w \in write(e) : d = flush(w)
      BY <2>2, <2>3, WriteKeeps
    <2>4. CASE d = flush(e)
      BY <2>2, <2>4 DEF flush, Connection
    <2> QED
      BY <2>1, <2>3, <2>4 DEF writeFails
  <1>2. CASE c.enc # "chunked"
    BY <1>2 DEF BodyWriter_close, flush, Connection
  <1> QED
    BY <1>1, <1>2

(* closeSocket ends any connection with its socket closed and its buffer back. *)
LEMMA SocketClosed ==
    ASSUME NEW p, NEW c \in Connection, ConnOK(p, c)
    PROVE  /\ closeSocket(c) \in Connection
           /\ closeSocket(c).req = "LISTEN" /\ closeSocket(c).sock = "closed"
           /\ closeSocket(c).res = "CLOSED" /\ closeSocket(c).txb = "none"
           /\ closeSocket(c).mode = c.mode
  <1>1. /\ c.req = "LISTEN" => c.sock = "closed"
        /\ c.req \in {"LISTEN", "ACCEPT"} => c.txb = "none"
    BY DEF ConnOK
  <1> QED
    BY <1>1, ZenonT(60) DEF closeSocket, Connection

(* A busy connection is in order where requests are handled. *)
LEMMA BusyOK ==
    ASSUME NEW p \in BusyAt \cup {"closeResponse"}, NEW c \in Busy,
           p \in Fresh => c.ans = 0
    PROVE  ConnOK(p, c)
  BY DEF ConnOK, BusyAt, Fresh, Busy

(* closeResponse keeps the connection only with its answer sent. *)
LEMMA ResponseClosed ==
    ASSUME NEW c \in Connection, ConnOK("closeResponse", c), NEW r \in closeResponse(c)
    PROVE  /\ r[1] \in Connection /\ r[1].mode = c.mode
           /\ ConnOK(IF r[2] THEN "prevNext" ELSE "dec", r[1])
  <1>0. c.res \in {"HEAD", "BODY", "CLOSED", "ERROR"}
    BY DEF Connection
  <1>1. CASE c.res \in {"CLOSED", "ERROR"}
    <2>1. r = <<c, FALSE>>
      BY <1>1 DEF closeResponse
    <2> QED
      BY <2>1 DEF ConnOK, BusyAt, Fresh
  <1>2. CASE c.res = "HEAD"
    <2>1. PICK d \in HeaderOut(c) : r = <<[d EXCEPT !.res = "CLOSED"], FALSE>>
      BY <1>2 DEF closeResponse, sendErrorResponse
    <2>2. c \in Busy /\ c.ans = c.part
      BY <1>2 DEF ConnOK, Busy
    <2>3. /\ d \in Connection /\ d.part = c.part
          /\ d.mode = c.mode /\ d.req = c.req /\ d.ans = c.ans + 1 /\ d.txb = "none"
      BY HeaderSent
    <2> QED
      BY <2>1, <2>2, <2>3 DEF ConnOK, BusyAt, Fresh, Busy, Connection
  <1>3. CASE c.res = "BODY"
    <2>1. PICK d \in BodyWriter_close(c) :
             r = IF c.mode = "CONTINUE" THEN <<[d EXCEPT !.res = "HEAD"], TRUE>>
                                        ELSE <<[d EXCEPT !.res = "CLOSED"], FALSE>>
      BY <1>3 DEF closeResponse
    <2>2. c \in Busy
      BY <1>3 DEF ConnOK
    <2>3. /\ d \in Connection /\ d.txb = "none" /\ d.part = c.part
          /\ d.mode = c.mode /\ d.req = c.req /\ d.ans = c.ans
      BY BodyClosed
    <2>4. CASE c.mode = "CONTINUE"
      BY <2>1, <2>2, <2>3, <2>4 DEF ConnOK, BusyAt, Fresh, Busy, Connection
    <2>5. CASE c.mode # "CONTINUE"
      BY <2>1, <2>2, <2>3, <2>5 DEF ConnOK, BusyAt, Fresh, Busy, Connection
    <2> QED
      BY <2>4, <2>5
  <1> QED
    BY <1>0, <1>1, <1>2, <1>3

-----------------------------------------------------------------------------
(* The steps of a thread *)

(* A thread changes its own step and its own connection, which stays in    *)
(* order; it makes the connection persistent only in setConnectionMode.    *)
Own(t) ==
    /\ pc' \in [Threads -> Steps] /\ conn' \in [Threads -> Connection]
    /\ \A u \in Threads \ {t} : pc'[u] = pc[u] /\ conn'[u] = conn[u]
    /\ ConnOK(pc'[t], conn'[t])
    /\ conn'[t].mode \in {conn[t].mode, "CLOSE"} \/ At(t, "mode")

(* All connections are in order. *)
ConnsOK == \A t \in Threads : ConnOK(pc[t], conn[t])

(* The shape all steps of a thread have. *)
LEMMA OwnStep ==
    ASSUME HttpTypeOK, NEW t \in Threads, NEW q \in Steps, NEW d \in Connection,
           pc' = [pc EXCEPT ![t] = q], conn' = [conn EXCEPT ![t] = d],
           ConnOK(q, d), d.mode \in {conn[t].mode, "CLOSE"} \/ At(t, "mode")
    PROVE  Own(t)
  BY DEF HttpTypeOK, Own

(* A step between two places where a request is handled. *)
LEMMA BusyStep ==
    ASSUME HttpTypeOK, NEW t \in Threads, NEW q \in BusyAt \cup {"closeResponse"}, NEW d,
           pc' = [pc EXCEPT ![t] = q], conn' = [conn EXCEPT ![t] = d], Stays(conn[t], d),
           q \in Fresh => d.ans = 0
    PROVE  Own(t)
  <1>1. q \in Steps /\ d \in Connection /\ d \in Busy /\ d.mode \in {conn[t].mode, "CLOSE"}
    BY DEF BusyAt, Steps, Stays, Busy
  <1>2. ConnOK(q, d)
    BY <1>1, BusyOK
  <1> QED
    BY <1>1, <1>2, OwnStep

(* A step that leaves the connection alone. *)
LEMMA SameConn ==
    ASSUME HttpTypeOK, NEW t \in Threads, NEW q \in Steps, Goto(t, q), UNCHANGED conn,
           ConnOK(q, conn[t])
    PROVE  Own(t)
  <1>1. conn[t] \in Connection /\ conn' = [conn EXCEPT ![t] = conn[t]]
    BY DEF HttpTypeOK
  <1> QED
    BY <1>1, OwnStep DEF Goto

(* proc and server: each step leaves the connection in order. *)
LEMMA ServerOwn ==
    ASSUME HttpTypeOK, ConnsOK, NEW t \in Threads, Server(t) PROVE Own(t)
  <1> DEFINE c == conn[t]
  <1>0. c \in Connection /\ ConnOK(pc[t], c) /\ pc[t] \in Steps
    BY DEF HttpTypeOK, ConnsOK
  <1>1. CASE ThreadBegin(t)
    <2>1. ConnOK("accept", c)
      BY <1>0 DEF ConnOK, BusyAt, Fresh
    <2> QED
      BY <1>1, <2>1, SameConn DEF ThreadBegin, Steps
  <1>2. CASE acceptSocket(t)
    <2> DEFINE d == [c EXCEPT !.res = "HEAD", !.req = "PREFETCH", !.mode = "CLOSE",
                              !.txb = "none", !.enc = "plain"]
    <2>1. d \in Connection /\ d.mode = "CLOSE" /\ ConnOK("inc", d)
      BY <1>0, ZenonT(60) DEF Connection, ConnOK, BusyAt, Fresh
    <2>2. conn' = [conn EXCEPT ![t] = d] /\ Goto(t, "inc")
      BY <1>2 DEF acceptSocket
    <2> HIDE DEF d
    <2> QED
      BY <2>1, <2>2, OwnStep DEF Goto, Steps
  <1>3. CASE AcceptFails(t)
    <2>1. ConnOK("closeSocket", c)
      BY <1>0 DEF ConnOK, BusyAt, Fresh
    <2> QED
      BY <1>3, <2>1, SameConn DEF AcceptFails, Steps
  <1>4. CASE incNumOfConnection(t)
    <2>1. pc[t] \in {"inc", "incStore"} /\ UNCHANGED conn
          /\ (Goto(t, "incStore") \/ Goto(t, "prefetch"))
      BY <1>4 DEF incNumOfConnection, CountBy, At
    <2>2. ConnOK("incStore", c) /\ ConnOK("prefetch", c)
      BY <1>0, <2>1 DEF ConnOK, BusyAt, Fresh
    <2> QED
      BY <2>1, <2>2, SameConn DEF Steps
  <1>5. CASE prefetch(t)
    <2> DEFINE d == [c EXCEPT !.req = "REQPARSE", !.ans = 0, !.part = 0]
    <2>1. c.txb = "none"
      BY <1>0, <1>5 DEF prefetch, At, ConnOK
    <2>2. d \in Connection /\ d.req = "REQPARSE" /\ d.ans = 0 /\ d.part = 0 /\ d.txb = "none" /\ d.mode = c.mode
      BY <1>0, <2>1 DEF Connection
    <2>3. conn' = [conn EXCEPT ![t] = d] /\ Goto(t, "mode")
      BY <1>5 DEF prefetch
    <2> HIDE DEF d
    <2>4. Stays(c, d)
      BY <2>2 DEF Stays, Busy
    <2> QED
      BY <2>2, <2>3, <2>4, BusyStep DEF Goto, BusyAt
  <1>6. CASE PrefetchFails(t)
    <2> DEFINE e == [c EXCEPT !.ans = 0, !.part = 0]
    <2>1. PICK h \in HeaderOut(e) :
              conn' = [conn EXCEPT ![t] = [h EXCEPT !.sock = "closed", !.req = "LISTEN"]]
      BY <1>6 DEF PrefetchFails, Conn, sendErrorResponse
    <2>2. e \in Connection /\ e.mode = c.mode
      BY <1>0 DEF Connection
    <2>3. h \in Connection /\ h.mode = c.mode /\ h.txb = "none"
      BY <2>2, HeaderSent
    <2> DEFINE d == [h EXCEPT !.sock = "closed", !.req = "LISTEN"]
    <2>4. d \in Connection /\ d.mode = c.mode /\ ConnOK("dec", d)
      BY <2>3 DEF Connection, ConnOK, BusyAt, Fresh
    <2>5. conn' = [conn EXCEPT ![t] = d]
      BY <2>1
    <2> HIDE DEF d
    <2> QED
      BY <1>6, <2>4, <2>5, OwnStep DEF PrefetchFails, Goto, Steps
  <1>7. CASE setConnectionMode(t)
    <2>m. PICK m \in InitialMode(t) : conn' = [conn EXCEPT ![t].mode = m]
      BY <1>7 DEF setConnectionMode
    <2> DEFINE d == [c EXCEPT !.mode = m]
    <2>1. m \in {"CLOSE", "CONTINUE"} /\ c \in Busy /\ c.ans = 0
      BY <1>0, <1>7, <2>m DEF InitialMode, setConnectionMode, At, ConnOK, BusyAt, Fresh
    <2>2. d \in Busy /\ d.ans = 0
      BY <2>1 DEF Busy, Connection
    <2>3. conn' = [conn EXCEPT ![t] = d] /\ Goto(t, "handler") /\ At(t, "mode")
      BY <1>7, <2>m DEF setConnectionMode
    <2>4. ConnOK("handler", d) /\ d \in Connection
      BY <2>2, BusyOK DEF BusyAt, Busy
    <2> HIDE DEF d
    <2> QED
      BY <2>3, <2>4, OwnStep DEF Goto, Steps
  <1>8. CASE onRequest(t)
    <2> DEFINE m == IF mod # NULL THEN "CLOSE" ELSE c.mode
               d == [c EXCEPT !.mode = m]
    <2>1. c \in Busy /\ c.ans = 0
      BY <1>0, <1>8 DEF onRequest, At, ConnOK, BusyAt, Fresh
    <2>2. Stays(c, d) /\ d.ans = 0
      BY <2>1, ModeStays DEF Busy, Connection
    <2>3. conn' = [conn EXCEPT ![t] = d]
      BY <1>8 DEF onRequest
    <2>4. PICK p \in {"rom", "file", "fio", "rpc"} : Goto(t, p)
      BY <1>8 DEF onRequest
    <2> HIDE DEF d
    <2> QED
      BY <2>2, <2>3, <2>4, BusyStep DEF Goto, BusyAt
  <1>9. CASE CloseResponse(t)
    <2>1. PICK r \in closeResponse(c) :
              /\ conn' = [conn EXCEPT ![t] = r[1]]
              /\ Goto(t, IF r[2] THEN "prevNext" ELSE "dec")
      BY <1>9 DEF CloseResponse
    <2>2. ConnOK("closeResponse", c)
      BY <1>0, <1>9 DEF CloseResponse, At
    <2>3. /\ r[1] \in Connection /\ r[1].mode = c.mode
          /\ ConnOK(IF r[2] THEN "prevNext" ELSE "dec", r[1])
      BY <1>0, <2>2, ResponseClosed
    <2>4. (IF r[2] THEN "prevNext" ELSE "dec") \in Steps
      BY DEF Steps
    <2> QED
      BY <2>1, <2>3, <2>4, OwnStep DEF Goto
  <1>10. CASE prevNextPrefetch(t)
    <2>0. c.txb = "none"
      BY <1>0, <1>10 DEF prevNextPrefetch, At, ConnOK
    <2>1. CASE c.req = "REQPARSE"
      <3>1. PICK h \in HeaderOut(c) : conn' = [conn EXCEPT ![t] = h]
        BY <1>10, <2>1 DEF prevNextPrefetch, Conn, sendErrorResponse
      <3>2. PICK p \in {"prefetch", "dec"} : Goto(t, p)
        BY <1>10, <2>1 DEF prevNextPrefetch
      <3>3. h \in Connection /\ h.mode = c.mode /\ h.txb = "none" /\ h.req = c.req
        BY <1>0, HeaderSent
      <3>4. ConnOK(p, h)
        BY <2>1, <3>3 DEF ConnOK, BusyAt, Fresh
      <3> QED
        BY <3>1, <3>2, <3>3, <3>4, OwnStep DEF Goto, Steps
    <2>2. CASE c.req # "REQPARSE"
      <3> DEFINE d == [c EXCEPT !.req = IF @ = "END" THEN "PREFETCH" ELSE @]
      <3>1. d \in Connection /\ d.mode = c.mode /\ ConnOK("prefetch", d)
        BY <1>0, <2>0 DEF Connection, ConnOK, BusyAt, Fresh
      <3>2. conn' = [conn EXCEPT ![t] = d] /\ Goto(t, "prefetch")
        BY <1>10, <2>2 DEF prevNextPrefetch
      <3> HIDE DEF d
      <3> QED
        BY <3>1, <3>2, OwnStep DEF Goto, Steps
    <2> QED
      BY <2>1, <2>2
  <1>11. CASE decNumOfConnection(t)
    <2>1. UNCHANGED conn /\ (Goto(t, "decStore") \/ Goto(t, "closeSocket"))
      BY <1>11 DEF decNumOfConnection, CountBy
    <2>2. ConnOK("decStore", c) /\ ConnOK("closeSocket", c)
      BY <1>0 DEF ConnOK, BusyAt, Fresh
    <2> QED
      BY <2>1, <2>2, SameConn DEF Steps
  <1>12. CASE CloseSocket(t)
    <2> DEFINE d == closeSocket(c)
    <2>1. /\ d \in Connection /\ d.mode = c.mode
          /\ d.req = "LISTEN" /\ d.sock = "closed" /\ d.txb = "none"
      BY <1>0, SocketClosed
    <2>2. conn' = [conn EXCEPT ![t] = d] /\ Goto(t, "end")
      BY <1>12 DEF CloseSocket
    <2> HIDE DEF d
    <2>3. ConnOK("end", d)
      BY <2>1 DEF ConnOK, BusyAt, Fresh
    <2> QED
      BY <2>1, <2>2, <2>3, OwnStep DEF Goto, Steps
  <1>13. CASE ThreadEnd(t)
    <2>1. ConnOK("idle", c)
      BY <1>0 DEF ConnOK, BusyAt, Fresh
    <2> QED
      BY <1>13, <2>1, SameConn DEF ThreadEnd, Steps
  <1> QED
    BY <1>1, <1>2, <1>3, <1>4, <1>5, <1>6, <1>7, <1>8, <1>9, <1>10, <1>11, <1>12, <1>13
       DEF Server

(* ROM files, files and uploads: each step leaves the connection in order. *)
LEMMA FileOwn ==
    ASSUME HttpTypeOK, ConnsOK, NEW t \in Threads, FileModules(t) PROVE Own(t)
  <1> DEFINE c == conn[t]
  <1>0. ConnOK(pc[t], c)
    BY DEF ConnsOK
  <1>b. c \in Busy
    <2>1. pc[t] \in BusyAt
      BY DEF FileModules, RomExecute, FileMethod, FileLock, FileUrl, FileOpen, FileRead, FileEnd,
             FileSend, FileTurn, FileRelock, Unlock, FioLock, FioExecute, FioBody, FioEnd,
             FioStore, At, BusyAt
    <2> QED
      BY <1>0, <2>1 DEF ConnOK
  <1>s. ASSUME NEW q \in (BusyAt \ Fresh) \cup {"closeResponse"}, Goto(t, q), UNCHANGED conn PROVE Own(t)
    <2>1. q \in Steps
      BY DEF BusyAt, Steps
    <2>2. ConnOK(q, c)
      BY <1>b, BusyOK DEF Fresh
    <2> QED
      BY <1>s, <2>1, <2>2, SameConn
  <1>g. ASSUME NEW q \in (BusyAt \ Fresh) \cup {"closeResponse"}, Goto(t, q), NEW d, Stays(c, d),
               conn' = [conn EXCEPT ![t] = d]
        PROVE  Own(t)
    BY <1>g, BusyStep DEF Goto, Fresh
  <1>1. CASE RomExecute(t)
    <2>1. PICK d \in Refused(c) \cup UNION {AnswerPage(x) \cup ErrorPage(x) : x \in Parsed(c)} :
              conn' = [conn EXCEPT ![t] = d]
      BY <1>1 DEF RomExecute, Conn
    <2>2. Stays(c, d)
      <3>1. CASE d \in Refused(c)
        BY <1>b, <3>1, RefusedStays
      <3>2. CASE \E x \in Parsed(c) : d \in AnswerPage(x) \cup ErrorPage(x)
        <4>1. PICK x \in Parsed(c) : d \in AnswerPage(x) \cup ErrorPage(x)
          BY <3>2
        <4>2. Stays(c, x) /\ x \in Busy
          BY <1>b, ParsedResultStays DEF Stays
        <4>3. Stays(x, d)
          BY <4>1, <4>2, AnswerPageStays, ErrorPageStays
        <4> QED
          BY <1>b, <4>2, <4>3, StaysTransitive
      <3> QED
        BY <3>1, <3>2
    <2> QED
      BY <1>1, <1>g, <2>1, <2>2 DEF RomExecute
  <1>2. CASE FileMethod(t)
    <2>1. PICK d \in sendResponseHeader(c) : conn' = [conn EXCEPT ![t] = d]
      BY <1>2 DEF FileMethod, Conn
    <2> QED
      BY <1>2, <1>b, <1>g, <2>1, ResponseHeaderStays DEF FileMethod
  <1>3. CASE FileLock(t) \/ FileRead(t) \/ FileEnd(t) \/ FileTurn(t) \/ FileRelock(t) \/ Unlock(t)
             \/ FioBody(t) \/ FioStore(t)
    <2>1. UNCHANGED conn
      BY <1>3 DEF FileLock, FileRead, FileEnd, FileTurn, FileRelock, Unlock, FioBody, FioStore
    <2>2. \E q \in (BusyAt \ Fresh) \cup {"closeResponse"} : Goto(t, q)
      BY <1>3 DEF FileLock, FileRead, FileEnd, FileTurn, FileRelock, Unlock, FioBody, FioStore,
                  BusyAt, Fresh
    <2> QED
      BY <1>s, <2>1, <2>2
  <1>4. CASE FileUrl(t)
    <2>1. CASE Conn(t, Refused(c)) /\ Goto(t, "unlock")
      <3>1. PICK d \in Refused(c) : conn' = [conn EXCEPT ![t] = d]
        BY <2>1 DEF Conn
      <3> QED
        BY <1>b, <1>g, <2>1, <3>1, RefusedStays DEF BusyAt, Fresh
    <2>2. CASE Conn(t, Parsed(c)) /\ Goto(t, "open")
      <3>1. PICK d \in Parsed(c) : conn' = [conn EXCEPT ![t] = d]
        BY <2>2 DEF Conn
      <3> QED
        BY <1>b, <1>g, <2>2, <3>1, ParsedResultStays DEF BusyAt, Fresh
    <2> QED
      BY <1>4, <2>1, <2>2 DEF FileUrl
  <1>5. CASE FileOpen(t)
    <2>1. CASE Conn(t, AnswerPage(c)) /\ Goto(t, "unlock")
      <3>1. PICK d \in AnswerPage(c) : conn' = [conn EXCEPT ![t] = d]
        BY <2>1 DEF Conn
      <3> QED
        BY <1>b, <1>g, <2>1, <3>1, AnswerPageStays DEF BusyAt, Fresh
    <2>2. CASE \E d \in sendResponseHeader(c) :
                 /\ conn' = [conn EXCEPT ![t] = d]
                 /\ Goto(t, IF d.res = "BODY" THEN "read" ELSE "unlock")
      BY <1>b, <1>g, <2>2, ResponseHeaderStays DEF BusyAt, Fresh
    <2> QED
      BY <1>5, <2>1, <2>2 DEF FileOpen
  <1>6. CASE FileSend(t)
    <2>1. PICK d \in sendResponseBody(c) :
             /\ conn' = [conn EXCEPT ![t] = d]
             /\ IF d.res = "BODY" THEN \E p \in {"read", "turn"} : Goto(t, p)
                                  ELSE Goto(t, "unlock")
      BY <1>6 DEF FileSend
    <2>2. \E q \in (BusyAt \ Fresh) \cup {"closeResponse"} : Goto(t, q)
      BY <2>1 DEF BusyAt, Fresh
    <2> QED
      BY <1>b, <1>g, <2>1, <2>2, ResponseBodyStays
  <1>7. CASE FioLock(t)
    <2> DEFINE d == [c EXCEPT !.req = "END"]
    <2>1. conn' = [conn EXCEPT ![t] = d]
      BY <1>7 DEF FioLock
    <2>2. Stays(c, d)
      BY <1>b, ParsedStays
    <2> HIDE DEF d
    <2> QED
      BY <1>7, <1>g, <2>1, <2>2 DEF FioLock, BusyAt, Fresh
  <1>8. CASE FioExecute(t)
    <2>m. PICK m \in {c.mode, "CLOSE"} :
             LET g == [c EXCEPT !.mode = m]
             IN  \/ Conn(t, {g} \cup ErrorPage(g) \cup sendResponseHeader(g)) /\ Goto(t, "unlock")
                 \/ Conn(t, send100Continue(g)) /\ Goto(t, "body")
      BY <1>8 DEF FioExecute
    <2> DEFINE g == [c EXCEPT !.mode = m]
    <2>g. Stays(c, g) /\ g \in Busy
      BY <1>b, ModeStays DEF Stays
    <2>c. \/ Conn(t, {g} \cup ErrorPage(g) \cup sendResponseHeader(g)) /\ Goto(t, "unlock")
          \/ Conn(t, send100Continue(g)) /\ Goto(t, "body")
      BY <2>m
    <2> HIDE DEF g
    <2>1. CASE Conn(t, {g} \cup ErrorPage(g) \cup sendResponseHeader(g)) /\ Goto(t, "unlock")
      <3>1. PICK d \in {g} \cup ErrorPage(g) \cup sendResponseHeader(g) :
                conn' = [conn EXCEPT ![t] = d]
        BY <2>1 DEF Conn
      <3>2. Stays(g, d)
        <4>1. CASE d = g
          BY <2>g, <4>1 DEF Stays
        <4>2. CASE d \in ErrorPage(g)
          BY <2>g, <4>2, ErrorPageStays
        <4>3. CASE d \in sendResponseHeader(g)
          BY <2>g, <4>3, ResponseHeaderStays
        <4> QED
          BY <4>1, <4>2, <4>3
      <3>3. Stays(c, d)
        BY <1>b, <2>g, <3>2, StaysTransitive
      <3> QED
        BY <1>g, <2>1, <3>1, <3>3 DEF BusyAt, Fresh
    <2>2. CASE Conn(t, send100Continue(g)) /\ Goto(t, "body")
      <3>1. PICK d \in send100Continue(g) : conn' = [conn EXCEPT ![t] = d]
        BY <2>2 DEF Conn
      <3>2. Stays(g, d)
        BY <2>g, ContinueStays
      <3>3. Stays(c, d)
        BY <1>b, <2>g, <3>2, StaysTransitive
      <3> QED
        BY <1>g, <2>2, <3>1, <3>3 DEF BusyAt, Fresh
    <2> QED
      BY <2>c, <2>1, <2>2
  <1>9. CASE FioEnd(t)
    <2>1. PICK d \in ErrorPage(c) \cup sendResponseHeader(c) : conn' = [conn EXCEPT ![t] = d]
      BY <1>9 DEF FioEnd, Conn
    <2>2. Stays(c, d)
      BY <1>b, ErrorPageStays, ResponseHeaderStays
    <2> QED
      BY <1>9, <1>g, <2>1, <2>2 DEF FioEnd, BusyAt, Fresh
  <1> QED
    BY <1>1, <1>2, <1>3, <1>4, <1>5, <1>6, <1>7, <1>8, <1>9 DEF FileModules

(* JSON-RPC: each step leaves the connection in order. *)
LEMMA RpcOwn ==
    ASSUME HttpTypeOK, ConnsOK, NEW t \in Threads, RpcModule(t) PROVE Own(t)
  <1> DEFINE c == conn[t]
  <1>0. c \in Connection /\ ConnOK(pc[t], c)
    BY DEF HttpTypeOK, ConnsOK
  <1>b. ASSUME pc[t] \in BusyAt PROVE c \in Busy
    BY <1>0, <1>b DEF ConnOK
  <1>1. CASE RpcClaim(t) \/ RpcCanHandle(t) \/ RpcRelease(t) \/ RpcReset(t)
    <2>1. UNCHANGED conn /\ pc[t] \in BusyAt
      BY <1>1 DEF RpcClaim, RpcCanHandle, RpcRelease, RpcReset, At, BusyAt
    <2>2. PICK q \in BusyAt : Goto(t, q) /\ (q \in Fresh => pc[t] \in Fresh)
      BY <1>1 DEF RpcClaim, RpcCanHandle, RpcRelease, RpcReset, At, BusyAt, Fresh
    <2>3. q \in Fresh => c.ans = 0
      BY <1>0, <2>2 DEF ConnOK
    <2>4. ConnOK(q, c) /\ q \in Steps
      BY <1>b, <2>1, <2>3, BusyOK DEF BusyAt, Steps
    <2> QED
      BY <2>1, <2>2, <2>4, SameConn
  <1>2. CASE RpcLock(t)
    <2> DEFINE d == [c EXCEPT !.req = "END"]
    <2>1. conn' = [conn EXCEPT ![t] = d] /\ Goto(t, "handshake") /\ pc[t] \in BusyAt
      BY <1>2 DEF RpcLock, At, BusyAt
    <2>2. c \in Busy /\ c.ans = 0
      BY <1>0, <1>2 DEF RpcLock, At, ConnOK, BusyAt, Fresh
    <2>3. Stays(c, d) /\ d.ans = 0
      BY <2>2, ParsedStays DEF Busy, Connection
    <2> HIDE DEF d
    <2> QED
      BY <2>1, <2>3, BusyStep DEF Goto, BusyAt
  <1>3. CASE RpcRefuse(t)
    <2> DEFINE f == flush(c)
               h == [f EXCEPT !.ans = @ + 1, !.part = 1]
    <2>1. c \in Busy /\ c.ans = 0
      BY <1>0, <1>3 DEF RpcRefuse, At, ConnOK, BusyAt, Fresh
    <2>2. PICK d \in ErrorPage(c) \cup {f, h} : conn' = [conn EXCEPT ![t] = d]
      BY <1>3 DEF RpcRefuse, Conn, writeFails
    <2>f. Stays(c, f) /\ f.txb = "none" /\ f.ans = 0
      BY <2>1, FlushStays DEF flush, Busy, Connection
    <2>h. Stays(c, h)
      <3> HIDE DEF f
      <3>1. f \in Busy /\ f \in Connection /\ f.mode \in {c.mode, "CLOSE"}
        BY <2>f DEF Stays, Busy
      <3>2. /\ h \in Connection /\ h.ans = 1 /\ h.part = 1 /\ h.txb = "none"
            /\ h.req = f.req /\ h.res = f.res /\ h.mode = f.mode
        <4>1. f.ans + 1 = 1
          BY <2>f
        <4>2. h = [f EXCEPT !.ans = 1, !.part = 1]
          BY <4>1, Zenon
        <4> HIDE DEF h
        <4>3. h \in Connection
          BY <3>1, <4>2, Zenon DEF Connection
        <4> QED
          BY <2>f, <3>1, <4>2, <4>3 DEF Connection
      <3> HIDE DEF h
      <3> QED
        BY <3>1, <3>2 DEF Stays, Busy
    <2> HIDE DEF f, h
    <2>3. Stays(c, d)
      BY <2>1, <2>2, <2>f, <2>h, ErrorPageStays
    <2> QED
      BY <1>3, <2>2, <2>3, BusyStep DEF RpcRefuse, Goto, BusyAt, Fresh
  <1>4. CASE RpcUpgrade(t)
    <2> DEFINE f == flush(c)
               d == [f EXCEPT !.ans = @ + 1]
    <2>1. c \in Busy /\ c.ans = 0
      BY <1>0, <1>4 DEF RpcUpgrade, At, ConnOK, BusyAt, Fresh
    <2>2. /\ f \in Connection /\ f.txb = "none" /\ f.req = c.req /\ f.mode = c.mode
          /\ f.ans = 0 /\ f.req \in {"REQPARSE", "END"}
      BY <2>1 DEF flush, Busy, Connection
    <2>3. conn' = [conn EXCEPT ![t] = d] /\ Goto(t, "dispatch")
      BY <1>4 DEF RpcUpgrade
    <2> HIDE DEF f
    <2>4. /\ d \in Connection /\ d.mode = c.mode /\ d.ans = 1 /\ d.txb = "none"
          /\ d.req \in {"REQPARSE", "END"}
      BY <2>2 DEF Connection
    <2> HIDE DEF d
    <2>p. d.part \in {0, 1}
      BY <2>4 DEF Connection
    <2>5. ConnOK("dispatch", d)
      BY <2>4, <2>p DEF ConnOK, BusyAt, Fresh
    <2> QED
      BY <2>3, <2>4, <2>5, OwnStep DEF Goto, Steps
  <1>5. CASE RpcMessage(t)
    <2>1. CASE UNCHANGED <<conn, pc>>
      BY <1>0, <2>1 DEF Own, HttpTypeOK
    <2>2. CASE conn' = [conn EXCEPT ![t] = closeSocket(@)] /\ Goto(t, "sessionEnd")
      <3> DEFINE d == closeSocket(c)
      <3>1. /\ d \in Connection /\ d.mode = c.mode
            /\ d.req = "LISTEN" /\ d.sock = "closed" /\ d.txb = "none"
        BY <1>0, SocketClosed
      <3>2. conn' = [conn EXCEPT ![t] = d]
        BY <2>2
      <3> HIDE DEF d
      <3>3. ConnOK("sessionEnd", d)
        BY <3>1 DEF ConnOK, BusyAt, Fresh
      <3> QED
        BY <2>2, <3>1, <3>2, <3>3, OwnStep DEF Goto, Steps
    <2> QED
      BY <1>5, <2>1, <2>2 DEF RpcMessage
  <1>6. CASE RpcBreak(t)
    <2>1. ConnOK("sessionEnd", c)
      BY <1>0 DEF ConnOK, BusyAt, Fresh
    <2> QED
      BY <1>6, <2>1, SameConn DEF RpcBreak, Steps
  <1>7. CASE RpcClose(t)
    <2> DEFINE d == closeSocket(c)
    <2>1. /\ d \in Connection /\ d.mode = c.mode /\ d.res = "CLOSED"
          /\ d.req = "LISTEN" /\ d.sock = "closed" /\ d.txb = "none"
      BY <1>0, SocketClosed
    <2>2. conn' = [conn EXCEPT ![t] = d] /\ Goto(t, "sessionFree")
      BY <1>7 DEF RpcClose
    <2> HIDE DEF d
    <2>3. ConnOK("sessionFree", d)
      BY <2>1 DEF ConnOK, BusyAt, Fresh
    <2> QED
      BY <2>1, <2>2, <2>3, OwnStep DEF Goto, Steps
  <1>8. CASE RpcFree(t)
    <2>1. ConnOK("sessionNull", c)
      BY <1>0, <1>8 DEF RpcFree, At, ConnOK, BusyAt, Fresh
    <2> QED
      BY <1>8, <2>1, SameConn DEF RpcFree, Steps
  <1>9. CASE RpcNull(t)
    <2>1. ConnOK("closeResponse", c)
      BY <1>0, <1>9 DEF RpcNull, At, ConnOK, BusyAt, Fresh
    <2> QED
      BY <1>9, <2>1, SameConn DEF RpcNull, Steps
  <1>10. CASE Redirect(t)
    <2>1. c \in Busy
      BY <1>10, <1>b DEF Redirect, At, BusyAt
    <2>2. PICK d \in sendResponseHeader(c) : conn' = [conn EXCEPT ![t] = d]
      BY <1>10 DEF Redirect, Conn
    <2>3. Stays(c, d)
      BY <2>1, ResponseHeaderStays
    <2> QED
      BY <1>10, <2>2, <2>3, BusyStep DEF Redirect, Goto, Fresh
  <1>11. CASE RpcDispatch(t)
    <2>1. c.req \in {"REQPARSE", "END"} /\ c.ans = 1 /\ c.txb = "none"
      BY <1>0, <1>11 DEF RpcDispatch, At, ConnOK
    <2>2. CASE mod = NULL
      <3> DEFINE d == [c EXCEPT !.part = 1]
      <3>1. /\ d \in Connection /\ d.req = c.req /\ d.ans = 1 /\ d.part = 1 /\ d.txb = "none"
            /\ d.mode = c.mode
        BY <1>0, <2>1 DEF Connection
      <3>2. conn' = [conn EXCEPT ![t] = d] /\ Goto(t, "closeResponse")
        BY <1>11, <2>2 DEF RpcDispatch
      <3> HIDE DEF d
      <3>3. Stays(c, d)
        BY <2>1, <3>1 DEF Stays, Busy
      <3> QED
        BY <3>2, <3>3, BusyStep DEF Goto, Fresh
    <2>3. CASE mod # NULL
      <3>1. ConnOK("session", c)
        BY <1>0 DEF ConnOK, BusyAt, Fresh
      <3> QED
        BY <1>11, <2>3, <3>1, SameConn DEF RpcDispatch, Steps
    <2> QED
      BY <2>2, <2>3
  <1> QED
    BY <1>1, <1>2, <1>3, <1>4, <1>5, <1>6, <1>7, <1>8, <1>9, <1>10, <1>11 DEF RpcModule

-----------------------------------------------------------------------------
(* Types, connections and the loop task *)

(* A connection the loop task may listen on is closed, unless it has just  *)
(* been opened for the thread to be started.                               *)
LoopOK ==
    /\ lpc \in {"listen", "start"} => terminated[i]
    /\ \A t \in Threads : terminated[t] =>
          At(t, "idle") /\ (conn[t].req = "LISTEN" \/ (lpc = "start" /\ i = t))

(* The inductive invariant for the connections. *)
ConnInv == HttpTypeOK /\ ConnsOK /\ LoopOK

ThreadStep(t) == Server(t) \/ FileModules(t) \/ RpcModule(t)

(* What a thread's step does to the variables it shares. *)
LEMMA ThreadFrame ==
    ASSUME HttpTypeOK, NEW t \in Threads, ThreadStep(t)
    PROVE  /\ UNCHANGED loop
           /\ \/ UNCHANGED terminated /\ (At(t, "idle") => ~terminated[t])
                                      /\ pc'[t] # "idle"
              \/ At(t, "end") /\ terminated' = [terminated EXCEPT ![t] = TRUE] /\ pc'[t] = "idle"
                 /\ UNCHANGED conn
           /\ count' \in Int /\ loaded' \in [Threads -> Int] /\ raced' \in BOOLEAN
           /\ mutex' \in Threads \cup {NULL} /\ shared' \in Threads \cup {NULL}
           /\ mod' \in Threads \cup {NULL} /\ heap' \subseteq Threads /\ usurped' \in BOOLEAN
  <1>1. CASE Server(t)
    <2>1. UNCHANGED <<loop, files, rpc>> /\ count' \in Int /\ loaded' \in [Threads -> Int] /\ raced' \in BOOLEAN
      <3>1. CASE incNumOfConnection(t) \/ decNumOfConnection(t)
        <4>1. UNCHANGED <<loop, files, rpc>>
          BY <3>1 DEF incNumOfConnection, decNumOfConnection, CountBy
        <4>2. raced' \in BOOLEAN
          BY <3>1, Zenon DEF incNumOfConnection, decNumOfConnection, CountBy, HttpTypeOK
        <4>3. count' \in Int /\ loaded' \in [Threads -> Int]
          BY <3>1 DEF incNumOfConnection, decNumOfConnection, CountBy, HttpTypeOK
        <4> QED
          BY <4>1, <4>2, <4>3
      <3>2. CASE ~(incNumOfConnection(t) \/ decNumOfConnection(t))
        BY <1>1, <3>2
           DEF Server, ThreadBegin, acceptSocket, AcceptFails, prefetch, PrefetchFails,
               setConnectionMode, onRequest, CloseResponse, prevNextPrefetch, CloseSocket,
               ThreadEnd, loop, num, files, rpc, HttpTypeOK
      <3> QED
        BY <3>1, <3>2
    <2>2. CASE ThreadEnd(t)
      BY <1>1, <2>1, <2>2 DEF ThreadEnd, At, Goto, HttpTypeOK, loop, files, rpc
    <2>3. CASE ~ThreadEnd(t)
      <3>1. UNCHANGED terminated /\ (At(t, "idle") => ~terminated[t]) /\ pc'[t] # "idle"
        BY <1>1, <2>3
           DEF Server, ThreadBegin, acceptSocket, AcceptFails, prefetch, PrefetchFails,
               setConnectionMode, onRequest, CloseResponse, prevNextPrefetch, CloseSocket,
               incNumOfConnection, decNumOfConnection, CountBy, At, Goto, HttpTypeOK
      <3> QED
        BY <2>1, <3>1 DEF HttpTypeOK, files, rpc
    <2> QED
      BY <2>2, <2>3
  <1>2. CASE FileModules(t)
    <2>1. UNCHANGED <<loop, terminated, num, rpc>>
      BY <1>2 DEF FileModules, RomExecute, FileMethod, FileLock, FileUrl, FileOpen, FileRead,
                  FileEnd, FileSend, FileTurn, FileRelock, Unlock, FioLock, FioExecute, FioBody,
                  FioEnd, FioStore, loop, num, rpc
    <2>2. mutex' \in {t, NULL, mutex} /\ shared' \in {t, shared}
      BY <1>2 DEF FileModules, RomExecute, FileMethod, FileLock, FileUrl, FileOpen, FileRead,
                  FileEnd, FileSend, FileTurn, FileRelock, Unlock, FioLock, FioExecute, FioBody,
                  FioEnd, FioStore, files
    <2>3. ~At(t, "idle") /\ pc'[t] # "idle"
      BY <1>2 DEF FileModules, RomExecute, FileMethod, FileLock, FileUrl, FileOpen, FileRead,
                  FileEnd, FileSend, FileTurn, FileRelock, Unlock, FioLock, FioExecute, FioBody,
                  FioEnd, FioStore, At, Goto, HttpTypeOK
    <2> QED
      BY <2>1, <2>2, <2>3 DEF HttpTypeOK, num, rpc
  <1>3. CASE RpcModule(t)
    <2>1. UNCHANGED <<loop, terminated, num, shared>>
      BY <1>3 DEF RpcModule, RpcClaim, RpcCanHandle, RpcLock, RpcRefuse, RpcUpgrade, RpcDispatch,
                  RpcMessage,
                  RpcBreak, RpcClose, RpcFree, RpcNull, RpcRelease, RpcReset, Redirect,
                  loop, num, files
    <2>2. mutex' \in {t, NULL, mutex} /\ mod' \in {t, NULL, mod} /\ heap' \subseteq heap \cup {t}
          /\ usurped' \in BOOLEAN
      BY <1>3 DEF RpcModule, RpcClaim, RpcCanHandle, RpcLock, RpcRefuse, RpcUpgrade, RpcDispatch,
                  RpcMessage,
                  RpcBreak, RpcClose, RpcFree, RpcNull, RpcRelease, RpcReset, Redirect,
                  files, rpc, HttpTypeOK
    <2>3. ~At(t, "idle") /\ pc'[t] # "idle"
      BY <1>3 DEF RpcModule, RpcClaim, RpcCanHandle, RpcLock, RpcRefuse, RpcUpgrade, RpcDispatch,
                  RpcMessage,
                  RpcBreak, RpcClose, RpcFree, RpcNull, RpcRelease, RpcReset, Redirect,
                  At, Goto, HttpTypeOK
    <2> QED
      BY <2>1, <2>2, <2>3 DEF HttpTypeOK, num
  <1> QED
    BY <1>1, <1>2, <1>3 DEF ThreadStep

(* A thread's step preserves the invariant, *)
LEMMA ThreadConnInv ==
    ASSUME ConnInv, NEW t \in Threads, ThreadStep(t) PROVE ConnInv'
  <1>1. Own(t)
    BY ServerOwn, FileOwn, RpcOwn DEF ConnInv, ThreadStep
  <1>2. /\ UNCHANGED loop
        /\ \/ UNCHANGED terminated /\ (At(t, "idle") => ~terminated[t]) /\ pc'[t] # "idle"
           \/ At(t, "end") /\ terminated' = [terminated EXCEPT ![t] = TRUE] /\ pc'[t] = "idle"
              /\ UNCHANGED conn
        /\ count' \in Int /\ loaded' \in [Threads -> Int] /\ raced' \in BOOLEAN
        /\ mutex' \in Threads \cup {NULL} /\ shared' \in Threads \cup {NULL}
        /\ mod' \in Threads \cup {NULL} /\ heap' \subseteq Threads /\ usurped' \in BOOLEAN
    BY ThreadFrame DEF ConnInv
  <1>3. HttpTypeOK'
    BY <1>1, <1>2 DEF ConnInv, HttpTypeOK, Own, loop
  <1>4. ConnsOK'
    BY <1>1 DEF ConnInv, ConnsOK, Own
  <1>5. LoopOK'
    <2>1. CASE UNCHANGED terminated /\ (At(t, "idle") => ~terminated[t]) /\ pc'[t] # "idle"
      BY <1>1, <1>2, <2>1 DEF ConnInv, LoopOK, HttpTypeOK, Own, loop, At
    <2>2. CASE At(t, "end") /\ terminated' = [terminated EXCEPT ![t] = TRUE] /\ pc'[t] = "idle"
               /\ UNCHANGED conn
      <3>1. conn'[t].req = "LISTEN"
        BY <2>2 DEF ConnInv, ConnsOK, ConnOK, At
      <3> QED
        BY <1>1, <1>2, <2>2, <3>1 DEF ConnInv, LoopOK, HttpTypeOK, Own, loop, At
    <2> QED
      BY <1>2, <2>1, <2>2
  <1> QED
    BY <1>3, <1>4, <1>5 DEF ConnInv

(* and so does a step of the loop task. *)
LEMMA LoopConnInv == ASSUME ConnInv, Loop PROVE ConnInv'
  <1>0. /\ HttpTypeOK /\ ConnsOK /\ LoopOK /\ i \in Threads
        /\ NUMBER_OF_CONNECTION_THREAD \in Nat \ {0}
    BY HttpdAssumption DEF ConnInv, HttpTypeOK
  <1>n. Following \in Threads
    BY <1>0 DEF Following, Threads
  <1>1. CASE LoopCheck
    <2>1. UNCHANGED <<terminated, pc, conn, count, loaded, raced, mutex, shared, mod, heap, usurped>>
      BY <1>1 DEF LoopCheck, num, files, rpc
    <2>2. CASE terminated[i] /\ lpc' = "listen" /\ UNCHANGED i
      BY <1>0, <1>1, <2>1, <2>2 DEF LoopCheck, ConnInv, HttpTypeOK, ConnsOK, LoopOK, At
    <2>3. CASE NextThread
      BY <1>0, <1>1, <1>n, <2>1, <2>3
         DEF LoopCheck, NextThread, ConnInv, HttpTypeOK, ConnsOK, LoopOK, At
    <2> QED
      BY <1>1, <2>2, <2>3 DEF LoopCheck
  <1>2. CASE ListenNothing
    BY <1>0, <1>2, <1>n DEF ListenNothing, NextThread, num, files, rpc, ConnInv, HttpTypeOK,
                            ConnsOK, LoopOK, At
  <1>3. CASE listenSocket
    <2> DEFINE d == [conn[i] EXCEPT !.sock = "open", !.req = "ACCEPT"]
    <2>1. /\ terminated[i] /\ At(i, "idle") /\ conn[i] \in Connection
          /\ conn[i].req = "LISTEN" /\ ConnOK("idle", conn[i])
      BY <1>0, <1>3 DEF listenSocket, LoopOK, HttpTypeOK, ConnsOK, At
    <2>2. d \in Connection /\ d.req = "ACCEPT" /\ d.txb = "none"
      BY <2>1 DEF Connection, ConnOK
    <2>3. conn' = [conn EXCEPT ![i] = d] /\ lpc' = "start"
          /\ UNCHANGED <<i, terminated, pc, count, loaded, raced, mutex, shared, mod, heap, usurped>>
      BY <1>0, <1>3 DEF listenSocket, num, files, rpc, HttpTypeOK
    <2> HIDE DEF d
    <2>4. ConnOK("idle", d)
      BY <2>2 DEF ConnOK, BusyAt, Fresh
    <2>5. HttpTypeOK'
      BY <1>0, <2>2, <2>3 DEF HttpTypeOK
    <2>6. ConnsOK'
      BY <1>0, <2>1, <2>3, <2>4 DEF ConnsOK, HttpTypeOK, At
    <2>7. LoopOK'
      BY <1>0, <2>1, <2>3 DEF LoopOK, HttpTypeOK, At
    <2> QED
      BY <2>5, <2>6, <2>7 DEF ConnInv
  <1>4. CASE ThreadStart
    BY <1>0, <1>4, <1>n DEF ThreadStart, NextThread, num, files, rpc, ConnInv, HttpTypeOK,
                            ConnsOK, LoopOK, At
  <1> QED
    BY <1>1, <1>2, <1>3, <1>4 DEF Loop

(* The invariant holds at the start. *)
LEMMA ConnInvInit == HttpInit => ConnInv
  <1> SUFFICES ASSUME HttpInit PROVE ConnInv
    OBVIOUS
  <1>0. NUMBER_OF_CONNECTION_THREAD \in Nat \ {0}
    BY HttpdAssumption
  <1>1. HttpTypeOK
    <2>1. lpc \in {"check", "listen", "start"} /\ i \in Threads
          /\ count \in Int /\ loaded \in [Threads -> Int]
      BY <1>0 DEF HttpInit, Threads
    <2>2. pc \in [Threads -> Steps] /\ terminated \in [Threads -> BOOLEAN]
      BY DEF HttpInit, Steps
    <2>3. conn \in [Threads -> Connection]
      BY DEF HttpInit, Connection
    <2>4. /\ mutex \in Threads \cup {NULL} /\ shared \in Threads \cup {NULL}
          /\ mod \in Threads \cup {NULL} /\ heap \subseteq Threads
          /\ raced \in BOOLEAN /\ usurped \in BOOLEAN
      BY Zenon DEF HttpInit
    <2> QED
      BY <2>1, <2>2, <2>3, <2>4, Zenon DEF HttpTypeOK
  <1>2. ConnsOK
    BY DEF HttpInit, ConnsOK, ConnOK, BusyAt, Fresh
  <1>3. LoopOK
    BY DEF HttpInit, LoopOK, At
  <1> QED
    BY <1>1, <1>2, <1>3 DEF ConnInv

(* Every step preserves the invariant. *)
LEMMA ConnInvStep == ConnInv /\ [HttpNext]_httpVars => ConnInv'
  <1> SUFFICES ASSUME ConnInv, [HttpNext]_httpVars PROVE ConnInv'
    OBVIOUS
  <1>1. CASE UNCHANGED httpVars
    BY <1>1 DEF httpVars, ConnInv, HttpTypeOK, ConnsOK, LoopOK, At
  <1> QED
    BY <1>1, LoopConnInv, ThreadConnInv DEF HttpNext, ThreadStep

(* Connections and the loop task are in order throughout. *)
LEMMA ConnInvAlways == HttpSpec => []ConnInv
  BY ConnInvInit, ConnInvStep, PTL DEF HttpSpec

(* The variables of the loop task, the threads, the connections, the mutex *)
(* and the session keep their types, for every number of threads.          *)
THEOREM HttpTypeCorrect == HttpSpec => []HttpTypeOK
  <1>1. ConnInv => HttpTypeOK
    BY DEF ConnInv
  <1> QED
    BY <1>1, ConnInvAlways, PTL

(* listenSocket's assertion: the loop task listens only on a closed        *)
(* connection of a thread that has ended, whatever way server was left.    *)
THEOREM ListensOnClosed == HttpSpec => []ListenClosed
  <1>1. ConnInv => ListenClosed
    BY DEF ConnInv, HttpTypeOK, ConnsOK, ConnOK, LoopOK, ListenClosed, At
  <1> QED
    BY <1>1, ConnInvAlways, PTL

(* No answer is left in the send buffer when the thread waits for the next *)
(* request or ends without an error.                                       *)
THEOREM AnswersLeave == HttpSpec => []AnswerLeaves
  <1>1. ConnInv => AnswerLeaves
    BY DEF ConnInv, ConnsOK, ConnOK, AnswerLeaves, At
  <1> QED
    BY <1>1, ConnInvAlways, PTL

(* A request that a module parsed is answered at most once. *)
THEOREM AnsweredOnce == HttpSpec => []AnswerOnce
  <1>1. ConnInv => AnswerOnce
    BY DEF ConnInv, ConnsOK, ConnOK, AnswerOnce
  <1> QED
    BY <1>1, ConnInvAlways, PTL

-----------------------------------------------------------------------------
(* The mutex, the shared buffer and the session block *)

Session == InSession \cup {"claimed", "sessionNull", "reset"}

(* SessionOwn, with the steps before and after the part it speaks of: the  *)
(* pointer is the thread's own from the claim until it is set to NULL.     *)
SessionInv ==
    \A t \in Threads : /\ pc[t] \in InSession \cup {"claimed"} => mod = t /\ t \in heap
                       /\ pc[t] \in {"sessionNull", "reset"} => mod = t
                       /\ t \in heap => pc[t] \in InSession \cup {"claimed"}

(* A step of server touches neither the mutex nor the buffer nor the       *)
(* session, and stays outside of the modules.                              *)
LEMMA ServerOutside ==
    ASSUME HttpTypeOK, NEW t \in Threads, Server(t)
    PROVE  /\ UNCHANGED <<mutex, shared, mod, heap>>
           /\ pc[t] \notin Holding \cup Session /\ pc'[t] \notin Holding \cup Session
           /\ \A u \in Threads \ {t} : pc'[u] = pc[u]
  <1>1. UNCHANGED <<mutex, shared, mod, heap>>
    BY DEF Server, ThreadBegin, acceptSocket, AcceptFails, prefetch, PrefetchFails,
           setConnectionMode, onRequest, CloseResponse, prevNextPrefetch, CloseSocket,
           incNumOfConnection, decNumOfConnection, CountBy, ThreadEnd, files, rpc
  <1>2. /\ pc[t] \notin Holding \cup Session /\ pc'[t] \notin Holding \cup Session
        /\ \A u \in Threads \ {t} : pc'[u] = pc[u]
    BY ZenonT(60) DEF Server, ThreadBegin, acceptSocket, AcceptFails, prefetch, PrefetchFails,
           setConnectionMode, onRequest, CloseResponse, prevNextPrefetch, CloseSocket,
           incNumOfConnection, decNumOfConnection, CountBy, ThreadEnd, At, Goto, HttpTypeOK,
           Holding, Session, InSession
  <1> QED
    BY <1>1, <1>2

(* The file modules stay outside of the session. *)
LEMMA FileOutside ==
    ASSUME HttpTypeOK, NEW t \in Threads, FileModules(t)
    PROVE  /\ UNCHANGED <<mod, heap>>
           /\ pc[t] \notin Session /\ pc'[t] \notin Session
           /\ \A u \in Threads \ {t} : pc'[u] = pc[u]
  BY DEF FileModules, RomExecute, FileMethod, FileLock, FileUrl, FileOpen, FileRead,
         FileEnd, FileSend, FileTurn, FileRelock, Unlock, FioLock, FioExecute, FioBody,
         FioEnd, FioStore, rpc, At, Goto, HttpTypeOK, Session, InSession

(* How a thread's step moves it in and out of the protected parts. *)
Locking(t) ==
    /\ \A u \in Threads \ {t} : pc'[u] = pc[u]
    /\ \/ mutex' = mutex /\ (pc[t] \in Holding <=> pc'[t] \in Holding)
       \/ mutex = NULL /\ mutex' = t /\ pc'[t] \in Holding
       \/ pc[t] \in Holding /\ mutex' = NULL /\ pc'[t] \notin Holding
    /\ shared' = t \/ (shared' = shared /\ (pc'[t] \in {"open", "send", "store"} =>
                                              pc[t] \in {"open", "send", "store"}))
    /\ shared' # shared => pc[t] \in Holding

(* Every step of a thread is of that kind. *)
LEMMA ThreadLocks ==
    ASSUME HttpTypeOK, NEW t \in Threads, ThreadStep(t) PROVE Locking(t)
  <1>1. CASE Server(t)
    BY <1>1, ServerOutside DEF Locking, Holding
  <1>2. CASE FileModules(t)
    <2>1. CASE RomExecute(t) \/ FileMethod(t) \/ FileLock(t) \/ FileTurn(t) \/ FileRelock(t)
               \/ Unlock(t) \/ FioLock(t)
      BY <2>1 DEF RomExecute, FileMethod, FileLock, FileTurn, FileRelock, Unlock, FioLock,
                  files, At, Goto, HttpTypeOK, Locking, Holding
    <2>2. CASE FileUrl(t) \/ FileOpen(t) \/ FileRead(t) \/ FileEnd(t) \/ FileSend(t)
      BY <2>2 DEF FileUrl, FileOpen, FileRead, FileEnd, FileSend,
                  files, At, Goto, HttpTypeOK, Locking, Holding
    <2>3. CASE FioExecute(t) \/ FioBody(t) \/ FioEnd(t) \/ FioStore(t)
      BY <2>3 DEF FioExecute, FioBody, FioEnd, FioStore,
                  files, At, Goto, HttpTypeOK, Locking, Holding
    <2> QED
      BY <1>2, <2>1, <2>2, <2>3 DEF FileModules
  <1>3. CASE RpcModule(t)
    <2>1. CASE RpcClaim(t) \/ RpcCanHandle(t) \/ RpcLock(t) \/ RpcRefuse(t) \/ RpcUpgrade(t)
               \/ RpcDispatch(t)
      BY <2>1 DEF RpcClaim, RpcCanHandle, RpcLock, RpcRefuse, RpcUpgrade, RpcDispatch,
                  files, At, Goto, HttpTypeOK, Locking, Holding
    <2>2. CASE RpcMessage(t) \/ RpcBreak(t) \/ RpcClose(t) \/ RpcFree(t) \/ RpcNull(t)
               \/ RpcRelease(t) \/ RpcReset(t) \/ Redirect(t)
      BY <2>2 DEF RpcMessage, RpcBreak, RpcClose, RpcFree, RpcNull, RpcRelease, RpcReset, Redirect,
                  files, At, Goto, HttpTypeOK, Locking, Holding
    <2> QED
      BY <1>3, <2>1, <2>2 DEF RpcModule
  <1> QED
    BY <1>1, <1>2, <1>3 DEF ThreadStep

(* The inductive invariant for the mutex and the buffer. *)
LockInv == ConnInv /\ MutexExact /\ SharedBufOwn

(* Every step preserves it. *)
LEMMA LockInvStep == LockInv /\ [HttpNext]_httpVars => LockInv'
  <1> SUFFICES ASSUME LockInv, [HttpNext]_httpVars PROVE LockInv'
    OBVIOUS
  <1>0. ConnInv' /\ HttpTypeOK
    BY ConnInvStep DEF LockInv, ConnInv
  <1>1. CASE UNCHANGED <<pc, mutex, shared>>
    BY <1>0, <1>1 DEF LockInv, MutexExact, SharedBufOwn
  <1>2. CASE \E t \in Threads : ThreadStep(t)
    <2>1. PICK t \in Threads : ThreadStep(t)
      BY <1>2
    <2>2. Locking(t)
      BY <1>0, <2>1, ThreadLocks
    <2>3. MutexExact'
      BY <2>2, HttpdAssumption DEF Locking, LockInv, MutexExact
    <2>4. SharedBufOwn'
      <3>1. ASSUME NEW u \in Threads \ {t}, pc'[u] \in {"open", "send", "store"}
            PROVE  shared' = u
        <4>1. pc[u] \in {"open", "send", "store"} /\ pc[u] \in Holding
          BY <2>2, <3>1 DEF Locking, Holding
        <4>2. shared = u /\ mutex = u
          BY <4>1 DEF LockInv, MutexExact, SharedBufOwn
        <4>3. pc[t] \notin Holding
          BY <4>2 DEF LockInv, MutexExact
        <4> QED
          BY <2>2, <4>2, <4>3 DEF Locking
      <3>2. ASSUME pc'[t] \in {"open", "send", "store"} PROVE shared' = t
        BY <2>2, <3>2 DEF Locking, LockInv, SharedBufOwn
      <3> QED
        BY <3>1, <3>2 DEF SharedBufOwn
    <2> QED
      BY <1>0, <2>3, <2>4 DEF LockInv
  <1>3. CASE Loop
    BY <1>1, <1>3 DEF Loop, LoopCheck, ListenNothing, listenSocket, ThreadStart, files
  <1>4. CASE UNCHANGED httpVars
    BY <1>1, <1>4 DEF httpVars
  <1> QED
    BY <1>2, <1>3, <1>4 DEF HttpNext, ThreadStep

(* It holds throughout. *)
LEMMA LockInvAlways == HttpSpec => []LockInv
  <1>1. HttpInit => LockInv
    BY ConnInvInit, HttpdAssumption
       DEF HttpInit, LockInv, MutexExact, SharedBufOwn, Holding
  <1> QED
    BY <1>1, LockInvStep, PTL DEF HttpSpec

(* A thread has the server's mutex exactly in the protected parts of the   *)
(* modules, on every way through them.                                     *)
THEOREM MutexHeldExactly == HttpSpec => []MutexExact
  <1>1. LockInv => MutexExact
    BY DEF LockInv
  <1> QED
    BY <1>1, LockInvAlways, PTL

(* What a thread opens, sends or stores from the shared buffer is its own. *)
THEOREM BufferIsOwn == HttpSpec => []SharedBufOwn
  <1>1. LockInv => SharedBufOwn
    BY DEF LockInv
  <1> QED
    BY <1>1, LockInvAlways, PTL

(* JSON-RPC preserves SessionInv as long as no thread takes the block of   *)
(* another.                                                                *)
LEMMA RpcSession ==
    ASSUME HttpTypeOK, SessionInv, ~usurped', NEW t \in Threads, RpcModule(t)
    PROVE  SessionInv'
  <1>0. pc \in [Threads -> Steps] /\ heap \subseteq Threads /\ mod \in Threads \cup {NULL}
        /\ NULL \notin Threads
    BY HttpdAssumption DEF HttpTypeOK
  <1>1. CASE RpcClaim(t)
    <2>1. CASE mod # NULL
      BY <1>0, <1>1, <2>1 DEF RpcClaim, rpc, At, Goto, SessionInv, InSession
    <2>2. CASE mod = NULL /\ mod' = t /\ heap' = heap \cup {t} /\ Goto(t, "claimed")
      BY <1>0, <2>2 DEF Goto, SessionInv, InSession
    <2>3. CASE UNCHANGED <<mod, heap>> /\ Goto(t, "starved")
      BY <1>0, <1>1, <2>3 DEF RpcClaim, At, Goto, SessionInv, InSession
    <2> QED
      BY <1>1, <2>1, <2>2, <2>3 DEF RpcClaim
  <1>2. CASE RpcCanHandle(t)
    <2>1. CASE At(t, "claimed")
      <3>1. mod = t
        BY <2>1 DEF At, SessionInv
      <3> QED
        BY <1>0, <1>2, <2>1, <3>1 DEF RpcCanHandle, At, Goto, SessionInv, InSession
    <2>2. CASE At(t, "starved")
      <3>1. mod = NULL
        BY <1>2, <2>2 DEF RpcCanHandle
      <3> QED
        BY <1>0, <1>2, <2>2, <3>1 DEF RpcCanHandle, At, Goto, SessionInv, InSession
    <2> QED
      BY <1>2, <2>1, <2>2 DEF RpcCanHandle, At
  <1>d. CASE RpcDispatch(t)
    <2>1. mod = t
      BY <1>d DEF RpcDispatch, At, SessionInv, InSession
    <2> QED
      BY <1>0, <1>d, <2>1 DEF RpcDispatch, rpc, At, Goto, SessionInv, InSession
  <1>3. CASE RpcLock(t) \/ RpcRefuse(t) \/ RpcUpgrade(t) \/ RpcMessage(t) \/ RpcBreak(t)
             \/ RpcClose(t)
    <2>1. UNCHANGED <<mod, heap>>
      BY <1>3 DEF RpcLock, RpcRefuse, RpcUpgrade, RpcDispatch, RpcMessage, RpcBreak, RpcClose, rpc
    <2>2. /\ pc[t] \in InSession /\ pc'[t] \in InSession
          /\ \A u \in Threads \ {t} : pc'[u] = pc[u]
      BY <1>0, <1>3 DEF RpcLock, RpcRefuse, RpcUpgrade, RpcDispatch, RpcMessage, RpcBreak,
                        RpcClose, At, Goto,
                        InSession
    <2> QED
      BY <2>1, <2>2 DEF SessionInv, InSession
  <1>4. CASE RpcFree(t) \/ RpcRelease(t)
    <2>1. /\ pc[t] \in InSession /\ pc'[t] \in {"sessionNull", "reset"}
          /\ \A u \in Threads \ {t} : pc'[u] = pc[u]
          /\ heap' = heap \ {mod} /\ mod' = mod
      BY <1>0, <1>4 DEF RpcFree, RpcRelease, At, Goto, InSession
    <2>2. mod = t
      BY <2>1 DEF SessionInv
    <2> QED
      BY <1>0, <2>1, <2>2 DEF SessionInv, InSession
  <1>5. CASE RpcNull(t) \/ RpcReset(t)
    <2>1. /\ pc[t] \in {"sessionNull", "reset"} /\ pc'[t] \in {"closeResponse", "redirect"}
          /\ \A u \in Threads \ {t} : pc'[u] = pc[u]
          /\ heap' = heap /\ mod' = NULL
      BY <1>0, <1>5 DEF RpcNull, RpcReset, At, Goto
    <2>2. mod = t
      BY <2>1 DEF SessionInv
    <2> QED
      BY <1>0, <2>1, <2>2 DEF SessionInv, InSession
  <1>6. CASE Redirect(t)
    BY <1>0, <1>6 DEF Redirect, rpc, At, Goto, SessionInv, InSession
  <1> QED
    BY <1>1, <1>2, <1>d, <1>3, <1>4, <1>5, <1>6 DEF RpcModule

(* A usurped session stays usurped. *)
LEMMA UsurpedStays == HttpTypeOK /\ usurped /\ [HttpNext]_httpVars => usurped'
  <1> SUFFICES ASSUME HttpTypeOK, usurped, [HttpNext]_httpVars PROVE usurped'
    OBVIOUS
  <1>1. ASSUME NEW t \in Threads, Server(t) PROVE UNCHANGED usurped
    BY <1>1 DEF Server, ThreadBegin, acceptSocket, AcceptFails, prefetch, PrefetchFails,
           setConnectionMode, onRequest, CloseResponse, prevNextPrefetch, CloseSocket,
           incNumOfConnection, decNumOfConnection, CountBy, ThreadEnd, rpc
  <1>2. ASSUME NEW t \in Threads, FileModules(t) PROVE UNCHANGED usurped
    BY <1>2 DEF FileModules, RomExecute, FileMethod, FileLock, FileUrl, FileOpen, FileRead,
         FileEnd, FileSend, FileTurn, FileRelock, Unlock, FioLock, FioExecute, FioBody,
         FioEnd, FioStore, rpc
  <1>3. ASSUME NEW t \in Threads, RpcModule(t) PROVE usurped'
    BY <1>3 DEF RpcModule, RpcClaim, RpcCanHandle, RpcLock, RpcRefuse, RpcUpgrade, RpcDispatch,
                RpcMessage, RpcBreak, RpcClose, RpcFree, RpcNull, RpcRelease, RpcReset,
                Redirect, rpc
  <1>4. CASE Loop
    BY <1>4 DEF Loop, LoopCheck, ListenNothing, listenSocket, ThreadStart, rpc
  <1>5. CASE UNCHANGED httpVars
    BY <1>5 DEF httpVars
  <1> QED
    BY <1>1, <1>2, <1>3, <1>4, <1>5 DEF HttpNext

(* Every step preserves SessionInv, unless a session is usurped. *)
LEMMA SessionStep ==
    HttpTypeOK /\ (~usurped => SessionInv) /\ [HttpNext]_httpVars => (~usurped => SessionInv)'
  <1> SUFFICES ASSUME HttpTypeOK, ~usurped => SessionInv, [HttpNext]_httpVars, ~usurped'
               PROVE  SessionInv'
    OBVIOUS
  <1>0. SessionInv
    BY UsurpedStays
  <1>1. CASE UNCHANGED <<pc, mod, heap>>
    BY <1>0, <1>1 DEF SessionInv
  <1>2. ASSUME NEW t \in Threads, Server(t) \/ FileModules(t) PROVE SessionInv'
    <2>1. /\ UNCHANGED <<mod, heap>> /\ pc[t] \notin Session /\ pc'[t] \notin Session
          /\ \A u \in Threads \ {t} : pc'[u] = pc[u]
      BY <1>2, ServerOutside, FileOutside
    <2> QED
      BY <1>0, <2>1 DEF SessionInv, Session
  <1>3. ASSUME NEW t \in Threads, RpcModule(t) PROVE SessionInv'
    BY <1>0, <1>3, RpcSession
  <1>4. CASE Loop
    BY <1>1, <1>4 DEF Loop, LoopCheck, ListenNothing, listenSocket, ThreadStart, rpc
  <1>5. CASE UNCHANGED httpVars
    BY <1>1, <1>5 DEF httpVars
  <1> QED
    BY <1>2, <1>3, <1>4, <1>5 DEF HttpNext

(* Until a thread whose malloc failed takes the block of another, a thread *)
(* in the JSON-RPC session has its own live block, frees it once and       *)
(* leaves none behind.                                                     *)
THEOREM SessionOwned == HttpSpec => []SessionOwn
  <1>1. HttpInit => (~usurped => SessionInv)
    BY DEF HttpInit, SessionInv, InSession
  <1>2. (~usurped => SessionInv) => SessionOwn
    BY DEF SessionInv, SessionOwn
  <1> QED
    BY <1>1, <1>2, SessionStep, HttpTypeCorrect, PTL DEF HttpSpec

-----------------------------------------------------------------------------
(* The number of connections *)

Uncounted == {"idle", "accept", "inc", "incStore", "closeSocket", "end"}
Brief     == {"prefetch", "mode", "dec", "decStore"}

(* The count is exact and bounds the persistent connections, until a ++ or *)
(* -- is lost.                                                             *)
CountInv == CountExact /\ KeepAliveBound

(* The connections counted are finitely many. *)
LEMMA CountedFinite == IsFiniteSet(Counted) /\ Cardinality(Counted) \in Nat
  <1>1. IsFiniteSet(Threads)
    BY FS_Interval, HttpdAssumption DEF Threads
  <1>2. Counted \subseteq Threads
    BY DEF Counted
  <1> QED
    BY <1>1, <1>2, FS_Subset, FS_CardinalityType

(* What a step that is neither ++ nor -- does to the count. *)
Steady(t) ==
    /\ \A u \in Threads \ {t} : pc'[u] = pc[u]
    /\ UNCHANGED <<count, raced>>
    /\ pc[t] \in Uncounted <=> pc'[t] \in Uncounted
    /\ pc'[t] \notin Uncounted \cup Brief => pc[t] \notin Uncounted \cup Brief \/ At(t, "mode")

(* All other steps of a thread are of that kind. *)
LEMMA ThreadSteady ==
    ASSUME HttpTypeOK, NEW t \in Threads, ThreadStep(t),
           ~incNumOfConnection(t), ~decNumOfConnection(t)
    PROVE  Steady(t)
  <1>1. CASE Server(t)
    BY <1>1, ZenonT(60) DEF Server, ThreadBegin, acceptSocket, AcceptFails, prefetch, PrefetchFails,
           setConnectionMode, onRequest, CloseResponse, prevNextPrefetch, CloseSocket,
           ThreadEnd, num, At, Goto, HttpTypeOK, Steady, Uncounted, Brief
  <1>2. CASE FileModules(t)
    BY <1>2 DEF FileModules, RomExecute, FileMethod, FileLock, FileUrl, FileOpen, FileRead,
         FileEnd, FileSend, FileTurn, FileRelock, Unlock, FioLock, FioExecute, FioBody,
         FioEnd, FioStore, num, At, Goto, HttpTypeOK, Steady, Uncounted, Brief
  <1>3. CASE RpcModule(t)
    BY <1>3 DEF RpcModule, RpcClaim, RpcCanHandle, RpcLock, RpcRefuse, RpcUpgrade, RpcDispatch,
                  RpcMessage,
                RpcBreak, RpcClose, RpcFree, RpcNull, RpcRelease, RpcReset, Redirect,
                num, At, Goto, HttpTypeOK, Steady, Uncounted, Brief
  <1> QED
    BY <1>1, <1>2, <1>3 DEF ThreadStep

(* A step that changes neither the threads counted nor makes another       *)
(* connection persistent.                                                  *)
LEMMA SteadyCount ==
    ASSUME CountInv, UNCHANGED <<count, raced>>, Counted' = Counted, Lasting' \subseteq Lasting
    PROVE  CountExact' /\ KeepAliveBound'
  <1>1. IsFiniteSet(Counted) /\ Lasting \subseteq Counted
    BY CountedFinite DEF Lasting
  <1>2. IsFiniteSet(Lasting) /\ Cardinality(Lasting) \in Nat
    BY <1>1, FS_Subset, FS_CardinalityType
  <1>3. Cardinality(Lasting') \in Nat /\ Cardinality(Lasting') <= Cardinality(Lasting)
    BY <1>2, FS_Subset, FS_CardinalityType
  <1> QED
    BY <1>2, <1>3, HttpdAssumption DEF CountInv, CountExact, KeepAliveBound

(* ++ and -- count the thread that does them, if what they store is not    *)
(* stale.                                                                  *)
LEMMA CountStep ==
    ASSUME HttpTypeOK, CountInv, NEW t \in Threads,
           incNumOfConnection(t) \/ decNumOfConnection(t)
    PROVE  CountInv'
  <1>0. /\ pc \in [Threads -> Steps] /\ count \in Int
        /\ IsFiniteSet(Counted) /\ Cardinality(Counted) \in Nat
    BY CountedFinite DEF HttpTypeOK
  <1>1. UNCHANGED conn
    BY DEF incNumOfConnection, decNumOfConnection, CountBy
  <1>2. CASE At(t, "inc") \/ At(t, "dec")
    <2>1. UNCHANGED <<count, raced>>
          /\ pc' = [pc EXCEPT ![t] = IF At(t, "inc") THEN "incStore" ELSE "decStore"]
      BY <1>2 DEF incNumOfConnection, decNumOfConnection, CountBy, At, Goto
    <2>2. Counted' = Counted
      BY <1>0, <1>2, <2>1 DEF Counted, At
    <2>3. Lasting' \subseteq Lasting
      BY <1>0, <1>1, <1>2, <2>1 DEF Lasting, Counted, At
    <2> QED
      BY <2>1, <2>2, <2>3, SteadyCount DEF CountInv
  <1>3. CASE ~(At(t, "inc") \/ At(t, "dec")) /\ raced'
    BY <1>3 DEF CountInv, CountExact, KeepAliveBound
  <1>4. CASE ~(At(t, "inc") \/ At(t, "dec")) /\ ~raced'
    <2>0. ~raced /\ loaded[t] = count
      BY <1>4 DEF incNumOfConnection, decNumOfConnection, CountBy
    <2>c. count = Cardinality(Counted)
      BY <2>0 DEF CountInv, CountExact
    <2>1. CASE incNumOfConnection(t)
      <3>1. pc[t] = "incStore" /\ pc' = [pc EXCEPT ![t] = "prefetch"] /\ count' = count + 1
        BY <1>4, <2>0, <2>1 DEF incNumOfConnection, CountBy, At, Goto
      <3>2. Counted' = Counted \cup {t} /\ t \notin Counted
        BY <1>0, <3>1 DEF Counted
      <3>3. Cardinality(Counted') = Cardinality(Counted) + 1
        BY <1>0, <3>2, FS_AddElement
      <3>4. Lasting' = Lasting
        BY <1>0, <1>1, <3>1 DEF Lasting, Counted
      <3> QED
        BY <2>0, <2>c, <3>1, <3>3, <3>4 DEF CountInv, CountExact, KeepAliveBound
    <2>2. CASE decNumOfConnection(t)
      <3>1. pc[t] = "decStore" /\ pc' = [pc EXCEPT ![t] = "closeSocket"] /\ count' = count + -1
        BY <1>4, <2>0, <2>2 DEF decNumOfConnection, CountBy, At, Goto
      <3>2. Counted' = Counted \ {t} /\ t \in Counted
        BY <1>0, <3>1 DEF Counted
      <3>3. Cardinality(Counted') = Cardinality(Counted) - 1
        BY <1>0, <3>2, FS_RemoveElement
      <3>4. Lasting' = Lasting
        BY <1>0, <1>1, <3>1 DEF Lasting, Counted
      <3> QED
        BY <1>0, <2>0, <2>c, <3>1, <3>3, <3>4 DEF CountInv, CountExact, KeepAliveBound
    <2> QED
      BY <2>1, <2>2
  <1> QED
    BY <1>2, <1>3, <1>4

(* The other steps keep the count, and a connection becomes persistent     *)
(* only while the count allows it.                                         *)
LEMMA KeepStep ==
    ASSUME ConnInv, CountInv, NEW t \in Threads, ThreadStep(t),
           ~incNumOfConnection(t), ~decNumOfConnection(t)
    PROVE  CountInv'
  <1>0. Steady(t) /\ Own(t) /\ HttpTypeOK
    BY ThreadSteady, ServerOwn, FileOwn, RpcOwn DEF ConnInv, ThreadStep
  <1>1. Counted' = Counted
    BY <1>0 DEF Steady, Counted, Uncounted
  <1>3. ASSUME NEW u \in Lasting', u # t PROVE u \in Lasting
    BY <1>0, <1>1, <1>3 DEF Own, Lasting, Counted
  <1>4. CASE t \in Lasting' /\ At(t, "mode")
    <2>1. setConnectionMode(t)
      BY <1>0, <1>4
         DEF ThreadStep, Server, ThreadBegin, acceptSocket, AcceptFails, prefetch,
             PrefetchFails, onRequest, CloseResponse, prevNextPrefetch, CloseSocket,
             ThreadEnd, FileModules, RomExecute, FileMethod, FileLock, FileUrl, FileOpen, FileRead,
             FileEnd, FileSend, FileTurn, FileRelock, Unlock, FioLock, FioExecute, FioBody,
             FioEnd, FioStore, RpcModule, RpcClaim, RpcCanHandle, RpcLock, RpcRefuse, RpcUpgrade,
             RpcDispatch, RpcMessage, RpcBreak, RpcClose, RpcFree, RpcNull, RpcRelease, RpcReset, Redirect, At
    <2>2. PICK m \in InitialMode(t) : conn' = [conn EXCEPT ![t].mode = m]
      BY <2>1 DEF setConnectionMode
    <2>3. m = "CONTINUE"
      BY <1>0, <1>4, <2>2 DEF HttpTypeOK, Connection, Lasting
    <2>4. ~raced => ~(count > MAX_PERSISTENT_CONNECTION)
      BY <2>2, <2>3 DEF InitialMode
    <2>5. /\ IsFiniteSet(Counted) /\ Cardinality(Counted) \in Nat
          /\ ~raced => count = Cardinality(Counted)
      BY CountedFinite DEF CountInv, CountExact
    <2>6. Lasting' \subseteq Counted
      BY <1>1 DEF Lasting
    <2>7. Cardinality(Lasting') \in Nat /\ Cardinality(Lasting') <= Cardinality(Counted)
      BY <2>5, <2>6, FS_Subset, FS_CardinalityType
    <2>8. KeepAliveBound'
      BY <1>0, <2>4, <2>5, <2>7, HttpdAssumption DEF KeepAliveBound, Steady
    <2>9. CountExact'
      BY <1>0, <1>1, <2>5 DEF CountExact, Steady
    <2> QED
      BY <2>8, <2>9 DEF CountInv
  <1>5. CASE ~(t \in Lasting' /\ At(t, "mode"))
    <2>1. ASSUME t \in Lasting' PROVE t \in Lasting
      <3>1. /\ pc'[t] \notin Uncounted \cup Brief /\ conn'[t].mode = "CONTINUE"
        BY <2>1 DEF Lasting, Counted, Uncounted, Brief
      <3>2. pc[t] \notin Uncounted \cup Brief /\ conn[t].mode = "CONTINUE"
        BY <1>0, <1>5, <2>1, <3>1 DEF Steady, Own
      <3> QED
        BY <3>2 DEF Lasting, Counted, Uncounted, Brief
    <2>2. Lasting' \subseteq Lasting
      BY <1>3, <2>1
    <2> QED
      BY <1>0, <1>1, <2>2, SteadyCount DEF Steady, CountInv
  <1> QED
    BY <1>4, <1>5

(* Every step preserves CountInv. *)
LEMMA CountInvStep ==
    ConnInv /\ CountInv /\ [HttpNext]_httpVars => CountInv'
  <1> SUFFICES ASSUME ConnInv, CountInv, [HttpNext]_httpVars PROVE CountInv'
    OBVIOUS
  <1>0. HttpTypeOK
    BY DEF ConnInv
  <1>1. ASSUME NEW t \in Threads, ThreadStep(t) PROVE CountInv'
    BY <1>0, <1>1, CountStep, KeepStep
  <1>2. CASE Loop
    <2>1. UNCHANGED <<pc, count, raced>>
      BY <1>2 DEF Loop, LoopCheck, ListenNothing, listenSocket, ThreadStart, num
    <2>2. \A t \in Threads : conn'[t].mode = conn[t].mode
      BY <1>0, <1>2 DEF Loop, LoopCheck, ListenNothing, listenSocket, ThreadStart, HttpTypeOK,
                        Connection
    <2>3. Counted' = Counted
      BY <2>1 DEF Counted
    <2>4. Lasting' = Lasting
      BY <2>1, <2>2, <2>3 DEF Lasting, Counted
    <2> QED
      BY <2>1, <2>3, <2>4 DEF CountInv, CountExact, KeepAliveBound
  <1>3. CASE UNCHANGED httpVars
    BY <1>3 DEF httpVars, CountInv, CountExact, KeepAliveBound, Counted, Lasting
  <1> QED
    BY <1>1, <1>2, <1>3 DEF HttpNext, ThreadStep

(* The count and the persistent connections are what CountInv says. *)
LEMMA CountInvAlways == HttpSpec => []CountInv
  <1>1. HttpInit => CountInv
    <2> SUFFICES ASSUME HttpInit PROVE CountInv
      OBVIOUS
    <2>1. Counted = {} /\ Lasting = {} /\ count = 0
      BY DEF HttpInit, Counted, Lasting
    <2> QED
      BY <2>1, FS_EmptySet, HttpdAssumption DEF HttpInit, CountInv, CountExact, KeepAliveBound
  <1> QED
    BY <1>1, CountInvStep, ConnInvAlways, PTL DEF HttpSpec

(* Until a ++ or -- falls between the load and the store of another, the   *)
(* number of active connections is exact: every way through server that    *)
(* counts takes itself off again.                                          *)
THEOREM ConnectionsCounted == HttpSpec => []CountExact
  <1>1. CountInv => CountExact
    BY DEF CountInv
  <1> QED
    BY <1>1, CountInvAlways, PTL

(* As long, no more than MAX_PERSISTENT_CONNECTION connections stay open   *)
(* after their answer.                                                     *)
THEOREM PersistentBounded == HttpSpec => []KeepAliveBound
  <1>1. CountInv => KeepAliveBound
    BY DEF CountInv
  <1> QED
    BY <1>1, CountInvAlways, PTL
=============================================================================
