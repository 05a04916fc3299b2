------------------------------ MODULE MCLogSink ------------------------------
(* Instances of LogSink for TLC: the log plugin of a hub with lines of its own *)
(* and of another node, and one request of the page at a time.                 *)
EXTENDS LogSink

CONSTANTS q1
=============================================================================
