----------------------------- MODULE TcpStream -----------------------------
(***************************************************************************)
(* What one direction of a TCP connection promises, whatever the network   *)
(* does: a sender numbers what it sends and keeps every number until the   *)
(* receiver has taken it, and the receiver takes the numbers in order and  *)
(* none that was not sent.  Either side may give the stream up, and then   *)
(* nothing is promised any more.                                           *)
(***************************************************************************)
EXTENDS Integers

CONSTANT First      \* the number the stream begins with

VARIABLES
    live,   \* nobody has given the stream up
    kept,   \* the sender could send again from here ...
    sent,   \* ... up to here: the next number it will use
    taken   \* the next number the receiver will take

streamVars == <<live, kept, sent, taken>>

AtFirst == kept = First /\ sent = First /\ taken = First

StreamInit == live = TRUE /\ AtFirst

Send == sent' > sent /\ UNCHANGED <<live, kept, taken>>

Take == taken' > taken /\ taken' <= sent /\ UNCHANGED <<live, kept, sent>>

(* The sender forgets what the receiver has taken. *)
Forget == kept' > kept /\ kept' <= taken /\ UNCHANGED <<live, sent, taken>>

GiveUp == live' = FALSE /\ AtFirst'

StreamNext == live /\ (Send \/ Take \/ Forget \/ GiveUp)

StreamSpec == StreamInit /\ [][StreamNext]_streamVars
=============================================================================
