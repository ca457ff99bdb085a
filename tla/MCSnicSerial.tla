---------------------------- MODULE MCSnicSerial ----------------------------
(* The receive ring with few slots: every position wraps around often.     *)
EXTENDS SnicSerial

CONSTANTS x, y

MCByte == {x, y}
MCReadLength == {1, 3}
=============================================================================
