------------------------------- MODULE MCHttpd -------------------------------
(* The HTTP server for TLC: the constants are numbers and NULL, given in    *)
(* the configuration.                                                      *)
EXTENDS Httpd, Sequences

(* The output stream and the number of answers, which no step of the       *)
(* control reads, are told apart for one thread only (the threads are      *)
(* alike, and each has a stream of its own), and no longer when a session  *)
(* was usurped.                                                            *)
Watched == 1
Stream(t) ==
    IF t = Watched /\ ~usurped THEN conn[t]
    ELSE [conn[t] EXCEPT !.txb = "none", !.enc = "plain", !.sock = "closed", !.ans = 0, !.part = 0]

(* What of a connection can still be read: a thread that is about to close *)
(* or to open it only looks at its state and socket, the mode is set anew  *)
(* for each request, and nothing is written once an answer failed.         *)
LiveConn(t) ==
    LET c == Stream(t)
        closing == <<c.req, c.sock, IF c.req \in {"LISTEN", "ACCEPT"} THEN c.txb ELSE "none">>
    IN  CASE pc[t] \in {"idle", "accept", "decStore", "closeSocket", "end"} -> closing
          [] pc[t] = "dec" -> closing \o <<c.res, c.txb, c.ans, c.part>>
          [] pc[t] \in {"inc", "incStore", "prefetch"} ->
                [c EXCEPT !.mode = "CLOSE", !.ans = 0, !.part = 0]
          [] pc[t] = "mode" -> [c EXCEPT !.mode = "CLOSE"]
          [] c.res = "ERROR" -> [c EXCEPT !.txb = "none", !.enc = "plain"]
          [] OTHER -> c

(* The shared buffer is written before it is read, in one turn of the mutex. *)
LiveShared == IF \E t \in Threads : pc[t] \in {"open", "send", "store", "turn", "relock"}
              THEN shared ELSE NULL

(* A count that is off is not read any more. *)
LiveCount == IF raced THEN <<>> ELSE <<count, loaded>>

HttpView ==
    <<loop, terminated, pc, [t \in Threads |-> LiveConn(t)], LiveCount, mutex, LiveShared, rpc>>
=============================================================================
